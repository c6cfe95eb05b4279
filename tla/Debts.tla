------------------------------- MODULE Debts -------------------------------
(***************************************************************************)
(* What bills and invoices promise of the ledger: a debt is incurred       *)
(* whole, only falls, by payments of no more than is left, and is          *)
(* cancelled whole or not at all.  A debt whose entries somebody changed   *)
(* behind its document is out of the document's hands for good.            *)
(***************************************************************************)
EXTENDS Integers, Sequences

CONSTANT Amounts    \* what debts can be of, positive

VARIABLE debts      \* in the order they were incurred

Disputed(debt) == debt.state = "disputed"

Init == debts = << >>

Incur(n) == debts' = Append(debts, [state |-> "agreed", whole |-> n, left |-> n])

Pay(d, n) ==
  /\ ~Disputed(debts[d])
  /\ n <= debts[d].left
  /\ debts' = [debts EXCEPT ![d].left = @ - n]

Cancel(d) ==
  /\ ~Disputed(debts[d])
  /\ debts[d].left = debts[d].whole
  /\ debts' = [debts EXCEPT ![d].left = 0]

Dispute(D) ==
  debts' = [d \in DOMAIN debts |->
              IF d \in D THEN [state |-> "disputed", whole |-> 0, left |-> 0] ELSE debts[d]]

Next ==
  \/ \E n \in Amounts : Incur(n)
  \/ \E d \in DOMAIN debts : Cancel(d) \/ \E n \in 1..debts[d].left : Pay(d, n)
  \/ \E D \in SUBSET DOMAIN debts : Dispute(D)

Spec == Init /\ [][Next]_debts
=============================================================================
