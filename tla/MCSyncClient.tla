---------------------------- MODULE MCSyncClient ----------------------------
(***************************************************************************)
(* One client imports two pages of a feed that overlap by an event and a   *)
(* third event; another imports an entry without a reference, that third   *)
(* event too, and an entry that does not balance.                          *)
(***************************************************************************)
EXTENDS SyncClient

CONSTANTS c1, c2, a1, a2, b1, b2, plain, bad, A, B

MCBatch == [c \in {c1, c2} |-> IF c = c1 THEN <<a1, a2, b1>> ELSE <<plain, b2, bad>>]
MCRows == {a1, a2, b1, b2, plain, bad}
MCRef == [r \in MCRows |-> CASE r \in {a1, a2} -> A [] r \in {b1, b2} -> B [] OTHER -> NoRef]
=============================================================================
