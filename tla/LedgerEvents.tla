---------------------------- MODULE LedgerEvents -----------------------------
(***************************************************************************)
(* The events of the ledger and what projecting them does.                 *)
(*                                                                         *)
(* An event is abstracted to the exclusive fact it states.  Account        *)
(* numbers, live entry references, active service URLs, the reconciliation *)
(* in progress on an account and the closed flag of a year are all keys:   *)
(* an event takes a key (AccountCreated, JournalEntryPosted, Recon-        *)
(* ciliationStarted, ...) or frees it (AccountDeleted, JournalEntryVoided, *)
(* ReconciliationAbandoned, ...).  The projection tables are the set of    *)
(* keys held.                                                              *)
(***************************************************************************)
EXTENDS Integers, Sequences

CONSTANTS
  Keys,      \* the exclusive facts the checks and the unique indexes guard
  Batches    \* the commands: the events each one emits, in order

Event == [op : {"take", "free"}, key : Keys]

ASSUME BatchesAssumption == Batches \subseteq Seq(Event)

(***************************************************************************)
(* Projecting one event.  The INSERT of a held key hits the primary key or *)
(* the unique index of its table; freeing is an UPDATE or a DELETE, which  *)
(* is no error when the key is not held.  Two facts have no such second    *)
(* line in the code: registering a service is an INSERT OR REPLACE, which  *)
(* drops the row in its way, and closing a year an UPDATE.  Taken twice    *)
(* they would not fail there, as they do here; only the check prevents it. *)
(***************************************************************************)
Projects(e, h) == e.op = "take" => e.key \notin h

Hold(e, h) == h \cup {e.key}

Fold(e, h) == IF e.op = "take" THEN Hold(e, h) ELSE h \ {e.key}

(***************************************************************************)
(* The keys held once the first n events of s are folded into h.           *)
(***************************************************************************)
After(s, n, h) ==
  {k \in Keys :
     \/ \E i \in 1..n : /\ s[i].op = "take" /\ s[i].key = k
                        /\ \A j \in (i+1)..n : s[j].key # k
     \/ /\ k \in h
        /\ \A j \in 1..n : s[j].key # k}

(***************************************************************************)
(* A command's check reads the projections once, before any of its events  *)
(* is written: the first event on each key must fit what is held.          *)
(***************************************************************************)
Check(b, h) ==
  \A i \in DOMAIN b :
    (\A j \in 1..(i-1) : b[j].key # b[i].key)
      => (b[i].op = "take" <=> b[i].key \notin h)
=============================================================================
