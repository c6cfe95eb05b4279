------------------------- MODULE MCEventStoreLegacy --------------------------
(***************************************************************************)
(* One handler that registers an event service at a root URL, and one      *)
(* legacy caller that removes it (event_service_commands.rs:220), which    *)
(* frees the URL.                                                          *)
(***************************************************************************)
EXTENDS EventStoreLegacy

CONSTANTS url, w1, l1

MCKeys == {url}
MCBatches == {<<[op |-> "take", key |-> url]>>}
MCLegacyEvents == {[op |-> "free", key |-> url]}
MCLocal == {w1}
MCRemote == {}
MCLegacy == {l1}
=============================================================================
