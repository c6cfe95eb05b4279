------------------------------ MODULE LedgerLog ------------------------------
(***************************************************************************)
(* What the event store promises its callers: the ledger is one log and    *)
(* the projection of that log, and a command takes effect in a single      *)
(* indivisible step, as a whole batch or not at all.                       *)
(***************************************************************************)
EXTENDS LedgerEvents

VARIABLES
  log,       \* the events, in id order
  held       \* the keys held by the projections

Init == log = << >> /\ held = {}

Execute(b) ==
  /\ Check(b, held)
  /\ \A i \in DOMAIN b : Projects(b[i], After(b, i-1, held))
  /\ log' = log \o b
  /\ held' = After(b, Len(b), held)

Next == \E b \in Batches : Execute(b)

Spec == Init /\ [][Next]_<<log, held>>
=============================================================================
