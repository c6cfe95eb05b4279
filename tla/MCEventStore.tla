---------------------------- MODULE MCEventStore -----------------------------
(***************************************************************************)
(* Two local handlers and one sync request on two keys.  The commands:     *)
(* take a key, free it, free it and take another (a repost), take two      *)
(* (a closing batch), and take one twice, which passes the check made      *)
(* before the batch and fails in the projection of its second event.       *)
(***************************************************************************)
EXTENDS EventStore

CONSTANTS a, b, w1, w2, w3

Take(k) == [op |-> "take", key |-> k]
Free(k) == [op |-> "free", key |-> k]

MCKeys == {a, b}
MCBatches ==
  {<<Take(a)>>, <<Free(a)>>, <<Free(a), Take(b)>>, <<Take(a), Take(b)>>,
   <<Take(b), Take(b)>>}
MCLocal == {w1, w2}
MCRemote == {w3}
=============================================================================
