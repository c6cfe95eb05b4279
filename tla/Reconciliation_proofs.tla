------------------------ MODULE Reconciliation_proofs ------------------------
(***************************************************************************)
(* Proofs about reconciliations, over any journal, any accounts reconciled *)
(* and any number of reconciliations.                                      *)
(***************************************************************************)
EXTENDS Reconciliation, Journal_proofs

(***************************************************************************)
(* The invariant.  A reconciliation in progress is the last of its         *)
(* account; a row of an account that is not odd is of a live line of that  *)
(* account, at its amount, flagged, and of one reconciliation only.        *)
(***************************************************************************)
RecShape ==
  /\ recons \in Seq(Recon)
  /\ odd \subseteq Accounts
  /\ flagged \subseteq Lines /\ IsFiniteSet(flagged)
  /\ \A r \in Recs : /\ \A w \in recons[r].rows : w[1] \in Lines
                     /\ IsFiniteSet(recons[r].rows)
                     /\ recons[r].state = "abandoned" => recons[r].rows = {}

Standing == \A r \in Recs : status[recons[r].account] \in {"active", "inactive"}

InOrder ==
  \A q, r \in Recs : recons[q].account = recons[r].account /\ InProgress(q) => r <= q

Told(r, w) ==
  /\ AccountOf(w[1]) = recons[r].account
  /\ w[2] = AmountOf(w[1])
  /\ Live(w[1][1])
  /\ w[1] \in flagged

RowsTold ==
  \A r \in Recs : \A w \in recons[r].rows :
    AccountOf(w[1]) \notin odd \/ recons[r].account \notin odd => Told(r, w)

RowsApart ==
  \A q, r \in Recs : \A v \in recons[q].rows, w \in recons[r].rows :
    recons[r].account \notin odd /\ v[1] = w[1] => q = r /\ v = w

FlagsHaveRows ==
  \A l \in flagged : AccountOf(l) \notin odd => \E r \in Recs : l \in LinesOf(recons[r].rows)

Ticked ==
  /\ RecShape
  /\ Standing
  /\ InOrder
  /\ RowsTold
  /\ RowsApart
  /\ FlagsHaveRows

RecBooks == Books /\ Ticked

-----------------------------------------------------------------------------

\* Changing one reconciliation.
LEMMA ChangeRecon ==
  ASSUME NEW r \in Recs, recons \in Seq(Recon), NEW q \in Recon,
         recons' = [recons EXCEPT ![r] = q]
  PROVE  /\ recons' \in Seq(Recon)
         /\ Recs' = Recs
         /\ recons'[r] = q
         /\ \A p \in Recs : p # r => recons'[p] = recons[p]
<1>1. recons' \in Seq(Recon)
  BY ExceptSeq DEF Recs
<1> QED
  BY <1>1 DEF Recs

\* Starting one.
LEMMA AddRecon ==
  ASSUME recons \in Seq(Recon), NEW q \in Recon, recons' = Append(recons, q)
  PROVE  /\ recons' \in Seq(Recon)
         /\ Len(recons) \in Nat /\ Recs = 1..Len(recons)
         /\ Recs' = Recs \cup {Len(recons) + 1}
         /\ recons'[Len(recons) + 1] = q
         /\ \A p \in Recs : recons'[p] = recons[p] /\ p < Len(recons) + 1
<1>1. /\ recons' \in Seq(Recon)
      /\ Len(recons') = Len(recons) + 1
      /\ \A p \in 1..Len(recons) : recons'[p] = recons[p]
      /\ recons'[Len(recons) + 1] = q
  BY AppendProperties
<1>2. /\ Len(recons) \in Nat /\ Recs = 1..Len(recons)
      /\ Recs' = 1..(Len(recons) + 1)
  BY <1>1, LenProperties DEF Recs
<1> QED
  BY <1>1, <1>2

\* The lines of the journal.
LEMMA LineShapes ==
  ASSUME Books, NEW l \in Lines
  PROVE  /\ l[1] \in Ids /\ l[2] \in DOMAIN entries[l[1]].lines
         /\ l = <<l[1], l[2]>>
         /\ l \in LineIds
         /\ AccountOf(l) \in Accounts /\ AmountOf(l) \in Int
<1>0. PICK e \in Ids : \E j \in DOMAIN entries[e].lines : l = <<e, j>>
  BY DEF Lines
<1>1. PICK i \in DOMAIN entries[e].lines : l = <<e, i>>
  BY <1>0
<1>2. Shape /\ AllBalanced
  BY DEF Books, IInv
<1>3. Tuple(entries) /\ entries[e].lines \in Seq(Line)
  BY <1>2 DEF Shape, AllBalanced, BalancedLines
<1>4. e \in Nat /\ i \in Nat
  BY <1>3, LenProperties DEF Tuple, Ids
<1>5. entries[e].lines[i].account \in Accounts /\ entries[e].lines[i].amount \in Int
  BY <1>3, LinesAddUp
<1> QED
  BY <1>1, <1>4, <1>5 DEF LineIds, AccountOf, AmountOf

\* A journal step keeps every line there is.
LEMMA LinesKept ==
  ASSUME IInv, [Next]_vars
  PROVE  /\ \A e \in Ids : e \in Ids' /\ DOMAIN entries'[e].lines = DOMAIN entries[e].lines
         /\ Lines \subseteq Lines'
<1>0. Shape
  BY DEF IInv
<1> DEFINE Kept == \A e \in Ids : /\ e \in Ids'
                                  /\ DOMAIN entries'[e].lines = DOMAIN entries[e].lines
<1>1. ASSUME UNCHANGED entries
      PROVE  Kept
  BY <1>1 DEF Ids
<1>2. ASSUME NEW es, Tuple(es), Post(es)
      PROVE  Kept
  BY <1>0, <1>2, PostKeeps
<1>3. ASSUME NEW E, NEW v \in BOOLEAN, SetVoid(E, v)
      PROVE  Kept
  BY <1>3, VoidFields
<1>4. ASSUME NEW e \in Ids, NEW i \in DOMAIN entries[e].lines, NEW a \in Accounts,
             ReassignLine(e, i, a)
      PROVE  Kept
  <2>1. entries' = [entries EXCEPT ![e] = [entries[e] EXCEPT !.lines[i].account = a]]
    BY <1>4 DEF ReassignLine
  <2>2. Ids' = Ids /\ \A d \in Ids : d # e => entries'[d] = entries[d]
    BY <2>1 DEF Ids
  <2>3. EntryShape(entries[e])
    BY <1>0 DEF Shape
  <2> DEFINE q == [entries[e] EXCEPT !.lines[i].account = a]
  <2>4. DOMAIN q.lines = DOMAIN entries[e].lines
    BY <2>3, MoveShape
  <2>5. entries'[e] = q
    BY <2>1 DEF Ids
  <2> HIDE DEF q
  <2> QED
    BY <2>2, <2>4, <2>5
<1>5. Kept
  <2> HIDE DEF Kept
  <2>1. ASSUME NEW y \in Years, NEW p \in Postings, PostEntry(y, p)
        PROVE  Kept
    BY <1>2, <2>1, Tuples DEF PostEntry
  <2>2. ASSUME NEW y \in Years, NEW a \in ClosedInto, CloseBooks(y, a)
        PROVE  Kept
    BY <1>2, <2>2, Tuples DEF CloseBooks, CloseWith, ToAccount, ToPartner
  <2>3. ASSUME NEW y \in Years, AllocateToPartners(y)
        PROVE  Kept
    BY <1>2, <2>3, Tuples DEF AllocateToPartners
  <2> QED
    BY <1>1, <1>3, <1>4, <2>1, <2>2, <2>3
       DEF Next, vars, CreateAccount, DeactivateAccount, ReactivateAccount, DeleteAccount, Delete,
           VoidEntry, VoidAny, UnvoidEntry, UnvoidAny, ReopenBooks, ReopenVoiding
<1> QED
  BY <1>5 DEF Lines

\* What a step that leaves the journal alone leaves of its lines.
LEMMA SameJournal ==
  ASSUME UNCHANGED vars
  PROVE  /\ Lines' = Lines /\ Ids' = Ids
         /\ \A l : AccountOf(l)' = AccountOf(l) /\ AmountOf(l)' = AmountOf(l)
         /\ \A e : Live(e)' = Live(e)
BY DEF vars, Lines, Ids, AccountOf, AmountOf, Live

-----------------------------------------------------------------------------
(***************************************************************************)
(* The commands.                                                           *)
(***************************************************************************)
LEMMA StartStep ==
  ASSUME RecBooks, NEW a \in Reconciled, NEW s \in Statements, StartReconciliation(a, s)
  PROVE  Ticked'
<1> DEFINE q == [account |-> a, statement |-> s, difference |-> 0,
                 state |-> "in_progress", rows |-> {}]
           n == Len(recons) + 1
<1>0. Ticked /\ RecShape /\ recons \in Seq(Recon)
  BY DEF RecBooks, Ticked, RecShape
<1>1. q \in Recon /\ a \in Accounts
  BY ReconciliationAssumption DEF Recon
<1>2. /\ recons' = Append(recons, q) /\ UNCHANGED <<vars, flagged, odd>>
      /\ SlotFree(a) /\ status[a] \in {"active", "inactive"}
  BY DEF StartReconciliation
<1>3. q.account = a /\ q.rows = {} /\ q.state = "in_progress"
  OBVIOUS
<1> HIDE DEF q
<1>4. /\ recons' \in Seq(Recon)
      /\ Len(recons) \in Nat /\ Recs = 1..Len(recons)
      /\ Recs' = Recs \cup {n}
      /\ recons'[n] = q
      /\ \A p \in Recs : recons'[p] = recons[p] /\ p < n
  BY <1>0, <1>1, <1>2, AddRecon
<1>5. /\ Lines' = Lines /\ UNCHANGED status
      /\ \A l : AccountOf(l)' = AccountOf(l) /\ AmountOf(l)' = AmountOf(l)
      /\ \A e : Live(e)' = Live(e)
  BY <1>2, SameJournal DEF vars
<1> HIDE DEF n
<1>6. RecShape'
  <2>1. IsFiniteSet({})
    BY FS_EmptySet
  <2>2. \A r \in Recs' : /\ \A w \in recons'[r].rows : w[1] \in Lines
                         /\ IsFiniteSet(recons'[r].rows)
                         /\ recons'[r].state = "abandoned" => recons'[r].rows = {}
    BY <1>0, <1>3, <1>4, <2>1 DEF RecShape
  <2> QED
    BY <1>0, <1>2, <1>4, <1>5, <2>2 DEF RecShape
<1>7. Standing'
  BY <1>0, <1>2, <1>3, <1>4, <1>5 DEF Ticked, Standing
<1>8. InOrder'
  <2> SUFFICES ASSUME NEW p \in Recs', NEW r \in Recs', recons'[p].account = recons'[r].account,
                      recons'[p].state = "in_progress"
               PROVE  r <= p
    BY DEF InOrder, InProgress
  <2>1. CASE p = n
    BY <1>4, <2>1 DEF n
  <2>2. CASE p \in Recs /\ r \in Recs
    BY <1>0, <1>4, <2>2 DEF Ticked, InOrder, InProgress
  <2>3. CASE p \in Recs /\ r = n
    BY <1>2, <1>3, <1>4, <2>3 DEF SlotFree, InProgress
  <2> QED
    BY <1>4, <2>1, <2>2, <2>3
<1>9. RowsTold' /\ RowsApart' /\ FlagsHaveRows'
  <2>0. \A p \in Recs' : \A w \in recons'[p].rows : p \in Recs /\ recons'[p] = recons[p]
    BY <1>3, <1>4
  <2>1. RowsTold'
    <3>1. RowsTold /\ UNCHANGED <<flagged, odd>>
      BY <1>0, <1>2 DEF Ticked
    <3> QED
      BY ONLY <1>5, <2>0, <3>1 DEF RowsTold, Told
  <2>2. RowsApart'
    <3>1. RowsApart /\ UNCHANGED odd
      BY <1>0, <1>2 DEF Ticked
    <3> QED
      BY ONLY <2>0, <3>1 DEF RowsApart
  <2>3. FlagsHaveRows'
    <3>1. FlagsHaveRows /\ UNCHANGED <<flagged, odd>> /\ \A p \in Recs : p \in Recs' /\ recons'[p] = recons[p]
      BY <1>0, <1>2, <1>4 DEF Ticked
    <3> QED
      BY ONLY <1>5, <3>1 DEF FlagsHaveRows, LinesOf
  <2> QED
    BY <2>1, <2>2, <2>3
<1> QED
  BY <1>6, <1>7, <1>8, <1>9 DEF Ticked

\* A reconciliation that ends as it stands.
LEMMA CompleteStep ==
  ASSUME RecBooks, NEW r \in Recs, CompleteReconciliation(r), DifferenceNow(r) \in Int
  PROVE  Ticked'
<1> DEFINE q == [recons[r] EXCEPT !.state = "completed", !.difference = DifferenceNow(r)]
<1>0. Ticked /\ RecShape /\ recons \in Seq(Recon) /\ recons[r] \in Recon
  BY ElementOfSeq, LenProperties DEF RecBooks, Ticked, RecShape, Recs
<1>1. q \in Recon
  BY <1>0 DEF Recon
<1>2. recons' = [recons EXCEPT ![r] = q] /\ UNCHANGED <<vars, flagged, odd>>
  BY DEF CompleteReconciliation
<1>3. q.account = recons[r].account /\ q.rows = recons[r].rows /\ q.state = "completed"
  BY <1>0 DEF Recon
<1> HIDE DEF q
<1>4. /\ recons' \in Seq(Recon)
      /\ Recs' = Recs
      /\ recons'[r] = q
      /\ \A p \in Recs : p # r => recons'[p] = recons[p]
  BY <1>0, <1>1, <1>2, ChangeRecon
<1>5. /\ Lines' = Lines /\ UNCHANGED status
      /\ \A l : AccountOf(l)' = AccountOf(l) /\ AmountOf(l)' = AmountOf(l)
      /\ \A e : Live(e)' = Live(e)
  BY <1>2, SameJournal DEF vars
<1>6. \A p \in Recs : /\ recons'[p].account = recons[p].account
                      /\ recons'[p].rows = recons[p].rows
                      /\ recons'[p].state = "in_progress" => recons[p].state = "in_progress"
                      /\ recons'[p].state = "abandoned" => recons[p].state = "abandoned"
  BY <1>3, <1>4
<1>7. RecShape'
  BY <1>0, <1>2, <1>4, <1>5, <1>6 DEF RecShape
<1>8. Standing' /\ InOrder'
  BY <1>0, <1>4, <1>5, <1>6 DEF Ticked, Standing, InOrder, InProgress
<1>9. RowsTold'
  BY <1>0, <1>2, <1>4, <1>5, <1>6 DEF Ticked, RowsTold, Told
<1>10. RowsApart'
  BY <1>0, <1>2, <1>4, <1>6 DEF Ticked, RowsApart
<1>11. FlagsHaveRows'
  BY <1>0, <1>2, <1>4, <1>5, <1>6 DEF Ticked, FlagsHaveRows, LinesOf
<1> QED
  BY <1>7, <1>8, <1>9, <1>10, <1>11 DEF Ticked

\* Abandoning leaves the flags of the rows it drops: its account is odd.
LEMMA AbandonStep ==
  ASSUME RecBooks, NEW r \in Recs, AbandonReconciliation(r)
  PROVE  Ticked'
<1> DEFINE q == [recons[r] EXCEPT !.state = "abandoned", !.rows = {}]
<1>0. Ticked /\ RecShape /\ recons \in Seq(Recon) /\ recons[r] \in Recon
  BY ElementOfSeq, LenProperties DEF RecBooks, Ticked, RecShape, Recs
<1>1. q \in Recon
  BY <1>0 DEF Recon
<1>2. /\ recons' = [recons EXCEPT ![r] = q] /\ UNCHANGED <<vars, flagged>>
      /\ odd' = IF recons[r].rows = {} THEN odd ELSE odd \cup {recons[r].account}
  BY DEF AbandonReconciliation
<1>3. q.account = recons[r].account /\ q.rows = {} /\ q.state = "abandoned"
  BY <1>0 DEF Recon
<1> HIDE DEF q
<1>4. /\ recons' \in Seq(Recon)
      /\ Recs' = Recs
      /\ recons'[r] = q
      /\ \A p \in Recs : p # r => recons'[p] = recons[p]
  BY <1>0, <1>1, <1>2, ChangeRecon
<1>5. /\ Lines' = Lines /\ UNCHANGED status
      /\ \A l : AccountOf(l)' = AccountOf(l) /\ AmountOf(l)' = AmountOf(l)
      /\ \A e : Live(e)' = Live(e)
  BY <1>2, SameJournal DEF vars
<1>6. \A p \in Recs : /\ recons'[p].account = recons[p].account
                      /\ recons'[p].rows = IF p = r THEN {} ELSE recons[p].rows
                      /\ recons'[p].state = "in_progress" => recons[p].state = "in_progress"
  BY <1>3, <1>4
<1>7. odd \subseteq odd' /\ odd' \subseteq Accounts
  BY <1>0, <1>2 DEF RecShape, Recon
<1>8. RecShape'
  <2>1. IsFiniteSet({})
    BY FS_EmptySet
  <2>2. \A p \in Recs : /\ \A w \in recons'[p].rows : w[1] \in Lines
                        /\ IsFiniteSet(recons'[p].rows)
                        /\ recons'[p].state = "abandoned" => recons'[p].rows = {}
    BY <1>0, <1>3, <1>4, <1>6, <2>1 DEF RecShape
  <2> QED
    BY <1>0, <1>2, <1>4, <1>5, <1>7, <2>2 DEF RecShape
<1>9. Standing' /\ InOrder'
  BY <1>0, <1>4, <1>5, <1>6 DEF Ticked, Standing, InOrder, InProgress
<1>10. RowsTold'
  BY <1>0, <1>2, <1>4, <1>5, <1>6, <1>7 DEF Ticked, RowsTold, Told
<1>11. RowsApart'
  BY <1>0, <1>4, <1>6, <1>7 DEF Ticked, RowsApart
<1>12. FlagsHaveRows'
  <2> SUFFICES ASSUME NEW l \in flagged, AccountOf(l) \notin odd'
               PROVE  \E p \in Recs : l \in LinesOf(recons'[p].rows)
    BY <1>2, <1>4, <1>5 DEF FlagsHaveRows, LinesOf
  <2>1. PICK p \in Recs : l \in LinesOf(recons[p].rows)
    BY <1>0, <1>7 DEF Ticked, FlagsHaveRows
  <2>2. PICK w \in recons[p].rows : w[1] = l
    BY <2>1 DEF LinesOf
  <2>3. AccountOf(l) = recons[p].account
    BY <1>0, <1>7, <2>2 DEF Ticked, RowsTold, Told
  <2>4. p # r
    BY <1>2, <2>2, <2>3
  <2> QED
    BY <1>6, <2>1, <2>4
<1> QED
  BY <1>8, <1>9, <1>10, <1>11, <1>12 DEF Ticked

\* Clearing a line the screen offers adds its one row; any other makes the
\* accounts of the line and of the reconciliation odd.
LEMMA ClearStep ==
  ASSUME RecBooks, NEW r \in Recs, NEW l \in Lines, ClearTransaction(r, l)
  PROVE  Ticked'
<1> DEFINE x == <<l, AmountOf(l)>>
           q == [recons[r] EXCEPT !.rows = @ \cup {x}]
<1>0. Ticked /\ RecShape /\ recons \in Seq(Recon) /\ recons[r] \in Recon
  BY ElementOfSeq, LenProperties DEF RecBooks, Ticked, RecShape, Recs
<1>1. l \in LineIds /\ AccountOf(l) \in Accounts /\ AmountOf(l) \in Int
  BY LineShapes DEF RecBooks
<1>2. /\ recons' = [recons EXCEPT ![r] = q] /\ UNCHANGED vars
      /\ flagged' = flagged \cup {l}
      /\ odd' = IF Offered(r, l) THEN odd ELSE odd \cup {AccountOf(l), recons[r].account}
  BY DEF ClearTransaction
<1>3. x[1] = l /\ x[2] = AmountOf(l) /\ x \in LineIds \X Int
  BY <1>1
<1> HIDE DEF x
<1>4. q \in Recon
  BY <1>0, <1>3 DEF Recon
<1>5. /\ q.account = recons[r].account /\ q.rows = recons[r].rows \cup {x}
      /\ q.state = recons[r].state
  BY <1>0 DEF Recon
<1> HIDE DEF q
<1>6. /\ recons' \in Seq(Recon)
      /\ Recs' = Recs
      /\ recons'[r] = q
      /\ \A p \in Recs : p # r => recons'[p] = recons[p]
  BY <1>0, <1>2, <1>4, ChangeRecon
<1>7. /\ Lines' = Lines /\ UNCHANGED status
      /\ \A k : AccountOf(k)' = AccountOf(k) /\ AmountOf(k)' = AmountOf(k)
      /\ \A e : Live(e)' = Live(e)
  BY <1>2, SameJournal DEF vars
<1>8. \A p \in Recs : /\ recons'[p].account = recons[p].account
                      /\ recons'[p].rows = IF p = r THEN recons[p].rows \cup {x} ELSE recons[p].rows
                      /\ recons'[p].state = recons[p].state
  BY <1>5, <1>6
<1>9. /\ odd \subseteq odd' /\ odd' \subseteq Accounts
      /\ ~Offered(r, l) => AccountOf(l) \in odd' /\ recons[r].account \in odd'
  BY <1>0, <1>1, <1>2 DEF RecShape, Recon
<1>10. RecShape'
  <2>1. IsFiniteSet(flagged')
    BY <1>0, <1>2, FS_AddElement DEF RecShape
  <2>2. \A p \in Recs : IsFiniteSet(recons'[p].rows)
    <3>1. IsFiniteSet(recons[r].rows \cup {x})
      BY <1>0, FS_AddElement DEF RecShape
    <3> QED
      BY <1>0, <1>8, <3>1 DEF RecShape
  <2>3. \A p \in Recs : \A w \in recons'[p].rows : w[1] \in Lines
    <3> SUFFICES ASSUME NEW p \in Recs, NEW w \in recons'[p].rows
                 PROVE  w[1] \in Lines
      OBVIOUS
    <3>1. CASE w \in recons[p].rows
      BY <1>0, <3>1 DEF RecShape
    <3>2. CASE w = x
      BY <1>3, <3>2
    <3> QED
      BY <1>8, <3>1, <3>2
  <2>4. \A p \in Recs : recons'[p].state = "abandoned" => recons'[p].rows = {}
    <3>1. recons[r].state # "abandoned"
      BY DEF ClearTransaction, InProgress
    <3> QED
      BY <1>0, <1>8, <3>1 DEF RecShape
  <2> QED
    BY <1>0, <1>2, <1>6, <1>7, <1>9, <2>1, <2>2, <2>3, <2>4 DEF RecShape
<1>11. Standing' /\ InOrder'
  BY <1>0, <1>6, <1>7, <1>8 DEF Ticked, Standing, InOrder, InProgress
<1>12. RowsTold /\ RowsApart /\ FlagsHaveRows
  BY <1>0 DEF Ticked
<1>13. \A p \in Recs : \A w \in recons'[p].rows : w \in recons[p].rows \/ (p = r /\ w = x)
  BY <1>8
<1>14. RowsTold'
  <2> SUFFICES ASSUME NEW p \in Recs, NEW w \in recons'[p].rows,
                      AccountOf(w[1]) \notin odd' \/ recons[p].account \notin odd'
               PROVE  /\ AccountOf(w[1]) = recons[p].account
                      /\ w[2] = AmountOf(w[1])
                      /\ Live(w[1][1])
                      /\ w[1] \in flagged'
    BY <1>6, <1>7, <1>8 DEF RowsTold, Told
  <2>1. CASE w \in recons[p].rows
    BY <1>2, <1>9, <1>12, <2>1 DEF RowsTold, Told
  <2>2. CASE p = r /\ w = x
    <3>1. Offered(r, l)
      BY <1>3, <1>9, <2>2
    <3> QED
      BY <1>2, <1>3, <2>2, <3>1 DEF Offered
  <2> QED
    BY <1>13, <2>1, <2>2
<1>15. RowsApart'
  <2> SUFFICES ASSUME NEW o \in Recs, NEW p \in Recs, NEW v \in recons'[o].rows,
                      NEW w \in recons'[p].rows, recons[p].account \notin odd', v[1] = w[1]
               PROVE  o = p /\ v = w
    <3>1. Recs' = Recs /\ \A p \in Recs : recons'[p].account = recons[p].account
      BY <1>6, <1>8
    <3> QED
      BY <3>1 DEF RowsApart
  <2>1. CASE v \in recons[o].rows /\ w \in recons[p].rows
    BY <1>9, <1>12, <2>1 DEF RowsApart
  <2>2. CASE v \in recons[o].rows /\ p = r /\ w = x
    <3>1. Offered(r, l)
      BY <1>9, <2>2
    <3>2. AccountOf(l) \notin odd
      BY <1>9, <2>2, <3>1 DEF Offered
    <3>3. Told(o, v)
      BY <1>3, <1>12, <2>2, <3>2 DEF RowsTold
    <3> QED
      BY <1>3, <2>2, <3>1, <3>3 DEF Offered, Told
  <2>3. CASE o = r /\ v = x /\ w \in recons[p].rows
    <3>1. Told(p, w)
      BY <1>9, <1>12, <2>3 DEF RowsTold
    <3>2. l \in flagged /\ AccountOf(l) \notin odd'
      BY <1>3, <2>3, <3>1 DEF Told
    <3> QED
      BY <1>9, <3>2 DEF Offered
  <2>4. CASE o = r /\ v = x /\ p = r /\ w = x
    BY <2>4
  <2> QED
    BY <1>13, <2>1, <2>2, <2>3, <2>4
<1>16. FlagsHaveRows'
  <2> SUFFICES ASSUME NEW k \in flagged', AccountOf(k) \notin odd'
               PROVE  \E p \in Recs : k \in LinesOf(recons'[p].rows)
    BY <1>6, <1>7 DEF FlagsHaveRows, LinesOf
  <2>1. CASE k = l
    BY <1>3, <1>8, <2>1 DEF LinesOf
  <2>2. CASE k \in flagged
    <3>1. PICK p \in Recs : k \in LinesOf(recons[p].rows)
      BY <1>9, <1>12, <2>2 DEF FlagsHaveRows
    <3> QED
      BY <1>8, <3>1 DEF LinesOf
  <2> QED
    BY <1>2, <2>1, <2>2
<1> QED
  BY <1>10, <1>11, <1>14, <1>15, <1>16 DEF Ticked

\* Unclearing takes row and flag away together.
LEMMA UnclearStep ==
  ASSUME RecBooks, NEW r \in Recs, NEW l \in Lines, UnclearTransaction(r, l)
  PROVE  Ticked'
<1> DEFINE q == [recons[r] EXCEPT !.rows = {w \in @ : w[1] # l}]
<1>0. Ticked /\ RecShape /\ recons \in Seq(Recon) /\ recons[r] \in Recon
  BY ElementOfSeq, LenProperties DEF RecBooks, Ticked, RecShape, Recs
<1>2. /\ recons' = [recons EXCEPT ![r] = q] /\ UNCHANGED <<vars, odd>>
      /\ flagged' = flagged \ {l}
      /\ l \in LinesOf(recons[r].rows)
  BY DEF UnclearTransaction, DropFlag
<1>4. q \in Recon
  BY <1>0 DEF Recon
<1>5. /\ q.account = recons[r].account /\ q.rows = {w \in recons[r].rows : w[1] # l}
      /\ q.state = recons[r].state
  BY <1>0 DEF Recon
<1> HIDE DEF q
<1>6. /\ recons' \in Seq(Recon)
      /\ Recs' = Recs
      /\ recons'[r] = q
      /\ \A p \in Recs : p # r => recons'[p] = recons[p]
  BY <1>0, <1>2, <1>4, ChangeRecon
<1>7. /\ Lines' = Lines /\ UNCHANGED status
      /\ \A k : AccountOf(k)' = AccountOf(k) /\ AmountOf(k)' = AmountOf(k)
      /\ \A e : Live(e)' = Live(e)
  BY <1>2, SameJournal DEF vars
<1>8. \A p \in Recs : /\ recons'[p].account = recons[p].account
                      /\ recons'[p].rows
                           = IF p = r THEN {w \in recons[p].rows : w[1] # l} ELSE recons[p].rows
                      /\ recons'[p].state = recons[p].state
  BY <1>5, <1>6
<1>9. \A p \in Recs : recons'[p].rows \subseteq recons[p].rows
  BY <1>8
<1>10. RecShape'
  <2>1. IsFiniteSet(flagged')
    BY <1>0, <1>2, FS_Subset DEF RecShape
  <2>2. \A p \in Recs : IsFiniteSet(recons'[p].rows)
    BY <1>0, <1>9, FS_Subset DEF RecShape
  <2>3. \A p \in Recs : /\ \A w \in recons'[p].rows : w[1] \in Lines
                        /\ recons'[p].state = "abandoned" => recons'[p].rows = {}
    BY <1>0, <1>8, <1>9 DEF RecShape
  <2> QED
    BY <1>0, <1>2, <1>6, <1>7, <2>1, <2>2, <2>3 DEF RecShape
<1>11. Standing' /\ InOrder'
  BY <1>0, <1>6, <1>7, <1>8 DEF Ticked, Standing, InOrder, InProgress
<1>12. RowsTold /\ RowsApart /\ FlagsHaveRows
  BY <1>0 DEF Ticked
<1>13. RowsTold'
  <2> SUFFICES ASSUME NEW p \in Recs, NEW w \in recons'[p].rows,
                      AccountOf(w[1]) \notin odd \/ recons[p].account \notin odd
               PROVE  /\ AccountOf(w[1]) = recons[p].account
                      /\ w[2] = AmountOf(w[1])
                      /\ Live(w[1][1])
                      /\ w[1] \in flagged'
    <3>1. Recs' = Recs /\ UNCHANGED odd /\ \A p \in Recs : recons'[p].account = recons[p].account
      BY <1>2, <1>6, <1>8
    <3> QED
      BY <1>7, <3>1 DEF RowsTold, Told
  <2>1. w \in recons[p].rows /\ Told(p, w)
    BY <1>9, <1>12 DEF RowsTold
  <2>2. w[1] # l
    <3>1. CASE p = r
      BY <1>8, <3>1
    <3>2. CASE p # r
      <4>1. PICK u \in recons[r].rows : u[1] = l
        BY <1>2 DEF LinesOf
      <4>2. recons[p].account \notin odd
        BY <2>1 DEF Told
      <4> QED
        BY <1>12, <2>1, <3>2, <4>1, <4>2 DEF RowsApart
    <3> QED
      BY <3>1, <3>2
  <2> QED
    BY <1>2, <2>1, <2>2 DEF Told
<1>14. RowsApart'
  <2> SUFFICES ASSUME NEW o \in Recs, NEW p \in Recs, NEW v \in recons'[o].rows,
                      NEW w \in recons'[p].rows, recons[p].account \notin odd, v[1] = w[1]
               PROVE  o = p /\ v = w
    <3>1. Recs' = Recs /\ UNCHANGED odd /\ \A p \in Recs : recons'[p].account = recons[p].account
      BY <1>2, <1>6, <1>8
    <3> QED
      BY <3>1 DEF RowsApart
  <2>1. v \in recons[o].rows /\ w \in recons[p].rows
    BY <1>9
  <2> QED
    BY <1>12, <2>1 DEF RowsApart
<1>15. FlagsHaveRows'
  <2> SUFFICES ASSUME NEW k \in flagged', AccountOf(k) \notin odd
               PROVE  \E p \in Recs : k \in LinesOf(recons'[p].rows)
    <3>1. Recs' = Recs /\ UNCHANGED odd
      BY <1>2, <1>6
    <3> QED
      BY <1>7, <3>1 DEF FlagsHaveRows
  <2>1. PICK p \in Recs : \E w \in recons[p].rows : w[1] = k
    BY <1>2, <1>12 DEF FlagsHaveRows, LinesOf
  <2>2. PICK w \in recons[p].rows : w[1] = k
    BY <2>1
  <2>3. w \in recons'[p].rows
    <3>1. w[1] # l
      BY <1>2, <2>2
    <3>2. CASE p = r
      BY <1>5, <1>6, <3>1, <3>2
    <3>3. CASE p # r
      BY <1>6, <3>3
    <3> QED
      BY <3>2, <3>3
  <2> QED
    BY <2>2, <2>3 DEF LinesOf
<1> QED
  BY <1>10, <1>11, <1>13, <1>14, <1>15 DEF Ticked

(***************************************************************************)
(* The journal goes on under the reconciliations.                          *)
(***************************************************************************)
LEMMA LineShapesNext ==
  Books' => (\A l \in Lines : AccountOf(l) \in Accounts /\ AmountOf(l) \in Int)'
<1>1. Books => \A l \in Lines : AccountOf(l) \in Accounts /\ AmountOf(l) \in Int
  BY LineShapes
<1> QED
  BY <1>1, PTL

\* An account in use is left in use, or is deleted.
LEMMA AccountsStay ==
  ASSUME IInv, [Next]_vars, NEW a \in Accounts, status[a] \in {"active", "inactive"}
  PROVE  status'[a] \in {"active", "inactive"} \/ (status'[a] = "deleted" /\ status[a] # "deleted")
<1>0. status \in [Accounts -> {"unborn", "active", "inactive", "deleted"}]
  BY DEF IInv, Shape
<1>1. ASSUME NEW b \in Accounts, NEW s \in {"active", "inactive", "deleted"},
             status' = [status EXCEPT ![b] = s]
      PROVE  status'[a] \in {"active", "inactive"} \/ (status'[a] = "deleted" /\ status[a] # "deleted")
  BY <1>0, <1>1
<1> QED
  BY <1>1 DEF Next, vars, CreateAccount, DeactivateAccount, ReactivateAccount, DeleteAccount,
       Delete, PostEntry, VoidEntry, VoidAny, UnvoidEntry, UnvoidAny, ReassignLine, CloseBooks,
       CloseWith, AllocateToPartners, ReopenBooks, ReopenVoiding

\* A recorded line whose entry changes makes its accounts odd, before and after.
LEMMA LedgerStep ==
  ASSUME RecBooks, JournalStep
  PROVE  Ticked'
<1>0. Books /\ IInv /\ Ticked /\ RecShape /\ [Next]_vars
  BY DEF RecBooks, Books, Ticked, JournalStep
<1>1. Books'
  BY <1>0, BooksStep
<1>2. UNCHANGED <<recons, flagged>> /\ Recs' = Recs
  BY DEF JournalStep, Recs
<1>3. Lines \subseteq Lines'
  BY <1>0, LinesKept
<1>4. \A r \in Recs : \A w \in recons[r].rows : w[1] \in Lines /\ w[1] \in Recorded
  BY <1>0 DEF RecShape, Recorded, LinesOf
<1>5. \A l \in flagged : l \in Lines /\ l \in Recorded
  BY <1>0 DEF RecShape, Recorded
<1>6. \A l : entries'[l[1]] = entries[l[1]] =>
        /\ AccountOf(l)' = AccountOf(l) /\ AmountOf(l)' = AmountOf(l)
        /\ Live(l[1])' = Live(l[1])
  BY DEF AccountOf, AmountOf, Live
<1>7. odd \subseteq odd'
  BY DEF JournalStep
<1>8. \A l \in Recorded : entries'[l[1]] # entries[l[1]] =>
        AccountOf(l) \in odd' /\ AccountOf(l)' \in odd'
  BY DEF JournalStep
<1>9. \A l \in Recorded : l \in Lines
  BY <1>0 DEF RecShape, Recorded, LinesOf
<1>10. odd' \subseteq Accounts
  <2>1. \A l \in Lines : AccountOf(l) \in Accounts
    BY <1>0, LineShapes
  <2>2. (\A l \in Lines : AccountOf(l) \in Accounts /\ AmountOf(l) \in Int)'
    BY <1>1, LineShapesNext
  <2>3. \A l \in Lines : AccountOf(l)' \in Accounts
    BY <1>3, <2>2
  <2> QED
    BY <1>0, <1>9, <2>1, <2>3 DEF JournalStep, RecShape
<1>11. RecShape'
  BY <1>0, <1>2, <1>3, <1>4, <1>10 DEF RecShape
<1>12. Standing'
  <2> SUFFICES ASSUME NEW r \in Recs
               PROVE  status'[recons[r].account] \in {"active", "inactive"}
    BY <1>2 DEF Standing
  <2> DEFINE a == recons[r].account
  <2>1. recons[r] \in Recon
    BY <1>0, ElementOfSeq, LenProperties DEF RecShape, Recs
  <2>2. a \in Accounts /\ status[a] \in {"active", "inactive"}
    BY <1>0, <2>1 DEF Recon, Ticked, Standing
  <2>3. a \notin {b \in Accounts : status[b] # "deleted" /\ status'[b] = "deleted"}
    BY DEF JournalStep, NoneReconciled
  <2> HIDE DEF a
  <2>4. status'[a] \in {"active", "inactive"}
    BY <1>0, <2>2, <2>3, AccountsStay
  <2> QED
    BY <2>4 DEF a
<1>13. InOrder'
  BY <1>0, <1>2 DEF Ticked, InOrder, InProgress
<1>14. RowsTold'
  <2> SUFFICES ASSUME NEW r \in Recs, NEW w \in recons[r].rows,
                      AccountOf(w[1])' \notin odd' \/ recons[r].account \notin odd'
               PROVE  /\ AccountOf(w[1])' = recons[r].account
                      /\ w[2] = AmountOf(w[1])'
                      /\ Live(w[1][1])'
                      /\ w[1] \in flagged
    BY <1>2 DEF RowsTold, Told
  <2> DEFINE l == w[1]
  <2>0. l \in Recorded
    BY <1>4
  <2>1. CASE entries'[l[1]] = entries[l[1]]
    <3>1. AccountOf(l)' = AccountOf(l) /\ AmountOf(l)' = AmountOf(l) /\ Live(l[1])' = Live(l[1])
      BY <1>6, <2>1
    <3>2. Told(r, w)
      BY <1>0, <1>7, <3>1 DEF Ticked, RowsTold
    <3> QED
      BY <3>1, <3>2 DEF Told
  <2>2. CASE entries'[l[1]] # entries[l[1]]
    <3>1. AccountOf(l) \in odd' /\ AccountOf(l)' \in odd'
      BY <1>8, <2>0, <2>2
    <3>2. recons[r].account \notin odd
      BY <1>7, <3>1
    <3>3. AccountOf(l) = recons[r].account
      BY <1>0, <3>2 DEF Ticked, RowsTold, Told
    <3> QED
      BY <3>1, <3>3
  <2> QED
    BY <2>1, <2>2
<1>15. RowsApart'
  <2>1. RowsApart
    BY <1>0 DEF Ticked
  <2> QED
    BY <1>2, <1>7, <2>1 DEF RowsApart
<1>16. FlagsHaveRows'
  <2> SUFFICES ASSUME NEW l \in flagged, AccountOf(l)' \notin odd'
               PROVE  \E r \in Recs : l \in LinesOf(recons[r].rows)
    BY <1>2 DEF FlagsHaveRows, LinesOf
  <2>1. entries'[l[1]] = entries[l[1]]
    BY <1>5, <1>8
  <2>2. AccountOf(l) \notin odd
    BY <1>6, <1>7, <2>1
  <2> QED
    BY <1>0, <2>2 DEF Ticked, FlagsHaveRows
<1> QED
  BY <1>11, <1>12, <1>13, <1>14, <1>15, <1>16 DEF Ticked

-----------------------------------------------------------------------------
(***************************************************************************)
(* What reconciliations add up.                                            *)
(***************************************************************************)
AmountsOf(S) == [l \in S |-> AmountOf(l)]

LEMMA AmountsAddUp ==
  ASSUME NEW S, IsFiniteSet(S)
  PROVE  MapThenSumSet(AmountOf, S) = Total(AmountsOf(S), S)
<1> DEFINE F == AmountsOf(S)
           ju == CHOOSE k : k = [s \in SUBSET S |->
                   IF s = {} THEN 0 ELSE AmountOf(Chosen(s)) + k[s \ {Chosen(s)}]]
<1>1. MapThenSumSet(AmountOf, S) = ju[S]
  BY DEF MapThenSumSet, MapThenFoldSet, Chosen
<1>2. PICK it : Iterates(it, F, S)
  BY IterExists
<1>3. \A s \in SUBSET S : s # {} => F[Chosen(s)] = AmountOf(Chosen(s))
  BY ChosenIn DEF AmountsOf
<1> HIDE DEF F
<1>4. it = [s \in SUBSET S |-> IF s = {} THEN 0 ELSE AmountOf(Chosen(s)) + it[s \ {Chosen(s)}]]
  BY <1>2, <1>3 DEF Iterates
<1>5. ju = [s \in SUBSET S |-> IF s = {} THEN 0 ELSE AmountOf(Chosen(s)) + ju[s \ {Chosen(s)}]]
  BY <1>4
<1> HIDE DEF ju
<1>6. Iterates(ju, F, S)
  BY <1>5, <1>3 DEF Iterates
<1>7. Total(F, S) = ju[S]
  BY <1>6, TotalIs
<1> QED
  BY <1>1, <1>7 DEF F

LEMMA Differences ==
  ASSUME RecBooks, NEW r \in Recs
  PROVE  /\ ClearedTotal(r) = Total(Seconds(recons[r].rows), recons[r].rows)
         /\ ClearedTotal(r) \in Int
         /\ IsFiniteSet(BeginningLines(r))
         /\ Beginning(r) = Total(AmountsOf(BeginningLines(r)), BeginningLines(r))
         /\ Beginning(r) \in Int
         /\ recons[r].statement \in Int
         /\ DifferenceNow(r) \in Int
<1>0. Books /\ RecShape
  BY DEF RecBooks, Ticked
<1> DEFINE W == recons[r].rows
           S == BeginningLines(r)
<1>1. recons[r] \in Recon /\ IsFiniteSet(W)
  BY <1>0, ElementOfSeq, LenProperties DEF RecShape, Recs
<1>2. recons[r].statement \in Int /\ \A w \in W : w[2] \in Int
  BY <1>1 DEF Recon
<1>3. S \subseteq flagged /\ IsFiniteSet(flagged) /\ \A l \in flagged : AmountOf(l) \in Int
  BY <1>0, LineShapes DEF RecShape, BeginningLines
<1>4. ClearedTotal(r) = MapThenSumSet(LAMBDA w : w[2], W) /\ Beginning(r) = MapThenSumSet(AmountOf, S)
  BY DEF ClearedTotal, Beginning
<1> HIDE DEF W, S
<1>5. IsFiniteSet(S)
  BY <1>3, FS_Subset
<1>6. MapThenSumSet(LAMBDA w : w[2], W) = Total(Seconds(W), W)
  BY <1>1, SecondsAddUp
<1>7. MapThenSumSet(AmountOf, S) = Total(AmountsOf(S), S)
  BY <1>5, AmountsAddUp
<1>8. Total(Seconds(W), W) \in Int
  <2>1. \A w \in W : Seconds(W)[w] \in Int
    BY <1>2 DEF Seconds
  <2> QED
    BY <1>1, <2>1, TotalInt
<1>9. Total(AmountsOf(S), S) \in Int
  <2>1. \A l \in S : AmountsOf(S)[l] \in Int
    BY <1>3 DEF AmountsOf
  <2> QED
    BY <1>5, <2>1, TotalInt
<1>10. /\ ClearedTotal(r) = Total(Seconds(W), W) /\ ClearedTotal(r) \in Int
       /\ Beginning(r) = Total(AmountsOf(S), S) /\ Beginning(r) \in Int
  BY <1>4, <1>6, <1>7, <1>8, <1>9
<1>11. DifferenceNow(r) \in Int
  BY <1>2, <1>10 DEF DifferenceNow
<1> QED
  BY <1>2, <1>5, <1>10, <1>11 DEF W, S

LEMMA RecInitInv == RecInit => RecBooks
<1> SUFFICES ASSUME RecInit PROVE Ticked
  BY BooksInit DEF RecBooks, RecInit
<1>1. DOMAIN recons = {} /\ recons \in Seq(Recon)
  BY EmptySeq, LenProperties DEF RecInit
<1> QED
  BY <1>1, FS_EmptySet DEF RecInit, Ticked, RecShape, Standing, InOrder, RowsTold, RowsApart,
                           FlagsHaveRows, Recs

LEMMA RecStep == RecBooks /\ [RecNext]_recVars => RecBooks'
<1> SUFFICES ASSUME RecBooks, [RecNext]_recVars PROVE RecBooks'
  OBVIOUS
<1>1. Books'
  <2>1. [Next]_vars
    BY DEF RecNext, recVars, JournalStep, StartReconciliation, ClearTransaction,
           UnclearTransaction, CompleteReconciliation, AbandonReconciliation
  <2> QED
    BY <2>1, BooksStep DEF RecBooks
<1>2. Ticked'
  <2>1. CASE UNCHANGED recVars
    BY <2>1 DEF recVars, vars, RecBooks, Ticked, RecShape, Standing, InOrder, RowsTold, Told,
                RowsApart, FlagsHaveRows, Recs, InProgress, LinesOf, Lines, Ids, AccountOf,
                AmountOf, Live
  <2>2. CASE JournalStep
    BY <2>2, LedgerStep
  <2>3. ASSUME NEW a \in Reconciled, NEW s \in Statements, StartReconciliation(a, s)
        PROVE  Ticked'
    BY <2>3, StartStep
  <2>4. ASSUME NEW r \in Recs, NEW l \in Lines, ClearTransaction(r, l)
        PROVE  Ticked'
    BY <2>4, ClearStep
  <2>5. ASSUME NEW r \in Recs, NEW l \in Lines, UnclearTransaction(r, l)
        PROVE  Ticked'
    BY <2>5, UnclearStep
  <2>6. ASSUME NEW r \in Recs, CompleteReconciliation(r)
        PROVE  Ticked'
    BY <2>6, Differences, CompleteStep
  <2>7. ASSUME NEW r \in Recs, AbandonReconciliation(r)
        PROVE  Ticked'
    BY <2>7, AbandonStep
  <2> QED
    BY <2>1, <2>2, <2>3, <2>4, <2>5, <2>6, <2>7 DEF RecNext
<1> QED
  BY <1>1, <1>2 DEF RecBooks

-----------------------------------------------------------------------------

\* The types of reconciliations, flags and rows over the journal; the recorded
\* difference is a number whatever was cleared.
THEOREM ReconciliationTypeCorrect == RecSpec => []RecTypeOK
<1>1. RecBooks => RecTypeOK
  <2> SUFFICES ASSUME RecBooks PROVE RecTypeOK
    OBVIOUS
  <2>1. TypeOK
    BY BooksType DEF RecBooks
  <2>2. flagged \subseteq LineIds
    BY LineShapes DEF RecBooks, Ticked, RecShape
  <2> QED
    BY <2>1, <2>2 DEF RecBooks, Ticked, RecShape, RecTypeOK
<1> QED
  BY <1>1, RecInitInv, RecStep, PTL DEF RecSpec

\* The slot check of starting and the deletion check of the account: an account
\* has one reconciliation in progress at most, and it stands.
THEOREM OneAtATime == RecSpec => []OneInProgress
<1>1. RecBooks => OneInProgress
  <2> SUFFICES ASSUME RecBooks PROVE OneInProgress
    OBVIOUS
  <2>1. Ticked /\ recons \in Seq(Recon)
    BY DEF RecBooks, Ticked, RecShape
  <2>2. \A q, r \in Recs : q \in Int /\ (q <= r /\ r <= q => q = r)
    BY <2>1, LenProperties DEF Recs
  <2> QED
    BY <2>1, <2>2 DEF Ticked, InOrder, Standing, OneInProgress, InProgress
<1> QED
  BY <1>1, RecInitInv, RecStep, PTL DEF RecSpec

\* Where lines are ticked off the screen's list and left alone, flags and rows
\* say the same, through every journal command and every reconciliation started,
\* completed and abandoned in between.
THEOREM FlagsFollowRows == RecSpec => []FlagsTellRows
<1>1. RecBooks => FlagsTellRows
  <2> SUFFICES ASSUME RecBooks, NEW l \in Lines, AccountOf(l) \notin odd
               PROVE  LET having == {r \in Recs : l \in LinesOf(recons[r].rows)} IN
                        /\ l \in flagged <=> having # {}
                        /\ \A q, r \in having : q = r
                        /\ \A r \in having : /\ recons[r].account = AccountOf(l)
                                             /\ <<l, AmountOf(l)>> \in recons[r].rows
    BY DEF FlagsTellRows
  <2>1. RecShape /\ RowsTold /\ RowsApart /\ FlagsHaveRows
    BY DEF RecBooks, Ticked
  <2>2. ASSUME NEW r \in Recs, NEW w \in recons[r].rows, w[1] = l
        PROVE  /\ Told(r, w) /\ l \in flagged
               /\ recons[r].account = AccountOf(l)
               /\ <<l, AmountOf(l)>> \in recons[r].rows
    <3>1. Told(r, w)
      BY <2>1, <2>2 DEF RowsTold
    <3>2. w \in LineIds \X Int
      <4>1. recons[r] \in Recon
        BY <2>1, ElementOfSeq, LenProperties DEF RecShape, Recs
      <4> QED
        BY <4>1 DEF Recon
    <3>3. w = <<l, AmountOf(l)>>
      BY <2>2, <3>1, <3>2 DEF Told
    <3> QED
      BY <2>2, <3>1, <3>3 DEF Told
  <2> DEFINE having == {r \in Recs : l \in LinesOf(recons[r].rows)}
  <2>3. \A r \in having : \E w \in recons[r].rows : w[1] = l
    BY DEF LinesOf
  <2>4. ASSUME NEW q \in having, NEW r \in having
        PROVE  q = r
    <3>1. PICK v \in recons[q].rows : v[1] = l
      BY <2>3
    <3>2. PICK w \in recons[r].rows : w[1] = l
      BY <2>3
    <3>3. recons[r].account \notin odd
      BY <2>2, <3>2
    <3> QED
      BY <2>1, <3>1, <3>2, <3>3 DEF RowsApart
  <2>5. l \in flagged => having # {}
    BY <2>1 DEF FlagsHaveRows
  <2>6. \A r \in having : /\ l \in flagged
                          /\ recons[r].account = AccountOf(l)
                          /\ <<l, AmountOf(l)>> \in recons[r].rows
    BY <2>2, <2>3
  <2> HIDE DEF having
  <2>7. /\ l \in flagged <=> having # {}
        /\ \A q, r \in having : q = r
        /\ \A r \in having : /\ recons[r].account = AccountOf(l)
                             /\ <<l, AmountOf(l)>> \in recons[r].rows
    BY <2>4, <2>5, <2>6
  <2> QED
    BY <2>7 DEF having
<1> QED
  BY <1>1, RecInitInv, RecStep, PTL DEF RecSpec

\* Completing and abandoning are final: no later command of any reconciliation
\* and none of the journal touches the record.
THEOREM FinishedStays == RecSpec => FinishedIsFrozen
<1>1. RecBooks /\ [RecNext]_recVars =>
        [\A r \in Recs : recons[r].state # "in_progress" => recons'[r] = recons[r]]_recVars
  <2> SUFFICES ASSUME RecBooks, RecNext, NEW r \in Recs, recons[r].state # "in_progress"
               PROVE  recons'[r] = recons[r]
    BY DEF recVars
  <2>1. recons \in Seq(Recon)
    BY DEF RecBooks, Ticked, RecShape
  <2>2. ASSUME NEW q, recons' = Append(recons, q)
        PROVE  recons'[r] = recons[r]
    BY <2>1, <2>2, AppendProperties, LenProperties DEF Recs
  <2>3. ASSUME NEW p \in Recs, p # r, NEW q, recons' = [recons EXCEPT ![p] = q]
        PROVE  recons'[r] = recons[r]
    BY <2>3 DEF Recs
  <2>4. ASSUME NEW p \in Recs, NEW l \in Lines, ClearTransaction(p, l) \/ UnclearTransaction(p, l)
        PROVE  recons'[r] = recons[r]
    <3>1. p # r
      BY <2>4 DEF ClearTransaction, UnclearTransaction, InProgress
    <3> QED
      BY <2>4, <3>1 DEF ClearTransaction, UnclearTransaction, Recs
  <2>5. ASSUME NEW p \in Recs, CompleteReconciliation(p) \/ AbandonReconciliation(p)
        PROVE  recons'[r] = recons[r]
    <3>1. p # r
      BY <2>5 DEF CompleteReconciliation, AbandonReconciliation, InProgress
    <3> QED
      BY <2>5, <3>1 DEF CompleteReconciliation, AbandonReconciliation, Recs
  <2> QED
    BY <2>2, <2>4, <2>5 DEF RecNext, JournalStep, StartReconciliation
<1> QED
  BY <1>1, RecInitInv, RecStep, PTL DEF RecSpec, FinishedIsFrozen

-----------------------------------------------------------------------------
(***************************************************************************)
(* What the beginning balance carries over.  The rows of the completed     *)
(* reconciliations of an account, up to the n-th: on an account that is    *)
(* not odd they are what its statements have explained.                    *)
(***************************************************************************)
Explained(a, n) == UNION {recons[q].rows : q \in {p \in Completed(a) : p <= n}}

Carries ==
  \A r \in Recs : recons[r].state = "completed" /\ recons[r].account \notin odd
    => LET E == Explained(recons[r].account, r)
       IN  recons[r].statement - recons[r].difference = Total(Seconds(E), E)

LEMMA FiniteUnion ==
  ASSUME NEW S, IsFiniteSet(S), NEW f, \A x \in S : IsFiniteSet(f[x])
  PROVE  IsFiniteSet(UNION {f[x] : x \in S})
<1> DEFINE U(T) == UNION {f[x] : x \in T}
           W == {T \in SUBSET S : ~IsFiniteSet(U(T))}
<1>1. ASSUME W # {} PROVE FALSE
  <2>1. PICK T \in W : IsFiniteSet(T) /\ \A t \in SUBSET T : t # T => t \notin W
    <3>1. W \subseteq SUBSET S
      OBVIOUS
    <3> HIDE DEF W
    <3> QED
      BY <1>1, <3>1, SmallestSet
  <2>2. T # {}
    <3>1. U({}) = {}
      OBVIOUS
    <3> QED
      BY <2>1, <3>1, FS_EmptySet
  <2>3. PICK x \in T : TRUE
    BY <2>2
  <2> DEFINE V == T \ {x}
  <2>4. IsFiniteSet(U(V)) /\ IsFiniteSet(f[x])
    BY <2>1
  <2>5. U(T) = U(V) \cup f[x]
    OBVIOUS
  <2> HIDE DEF U, V
  <2>6. IsFiniteSet(U(T))
    BY <2>4, <2>5, FS_Union
  <2> QED
    BY <2>1, <2>6
<1>2. S \notin W
  BY <1>1
<1> QED
  BY <1>2

LEMMA ExplainedRows ==
  ASSUME RecBooks, NEW a, NEW n
  PROVE  /\ IsFiniteSet(Explained(a, n))
         /\ \A w \in Explained(a, n) : w[2] \in Int
         /\ \A w \in Explained(a, n) : Seconds(Explained(a, n))[w] = w[2]
<1>0. RecShape
  BY DEF RecBooks, Ticked
<1> DEFINE Q == {p \in Completed(a) : p <= n}
           f == [p \in Q |-> recons[p].rows]
<1>1. Len(recons) \in Nat /\ Recs = 1..Len(recons)
  BY <1>0, LenProperties DEF RecShape, Recs
<1>2. \A p \in Recs : recons[p] \in Recon /\ IsFiniteSet(recons[p].rows)
  BY <1>0, ElementOfSeq, <1>1 DEF RecShape
<1>3. Q \subseteq Recs
  BY DEF Completed
<1>4. IsFiniteSet(Q)
  <2>1. IsFiniteSet(Recs)
    BY <1>1, FS_Interval
  <2> HIDE DEF Q
  <2> QED
    BY <1>3, <2>1, FS_Subset
<1>5. \A p \in Q : IsFiniteSet(f[p])
  BY <1>2, <1>3
<1>6. Explained(a, n) = UNION {f[p] : p \in Q}
  BY DEF Explained
<1>7. \A w \in Explained(a, n) : w[2] \in Int
  BY <1>2, <1>3 DEF Explained, Recon
<1> HIDE DEF Q, f
<1>8. IsFiniteSet(UNION {f[p] : p \in Q})
  BY <1>4, <1>5, FiniteUnion
<1> QED
  BY <1>6, <1>7, <1>8 DEF Seconds

\* The flagged lines a reconciliation in progress begins with are those of the
\* rows explained before it.
LEMMA BeginningIs ==
  ASSUME RecBooks, NEW r \in Recs, InProgress(r), recons[r].account \notin odd,
         NEW n, \A p \in Completed(recons[r].account) : p <= n
  PROVE  Beginning(r) = Total(Seconds(Explained(recons[r].account, n)),
                              Explained(recons[r].account, n))
<1> DEFINE a == recons[r].account
           E == Explained(a, n)
           h == [w \in E |-> w[1]]
           B == BeginningLines(r)
<1>0. RecShape /\ InOrder /\ RowsTold /\ RowsApart /\ FlagsHaveRows /\ a \notin odd
  BY DEF RecBooks, Ticked
<1>1. Recs \subseteq Nat
  BY <1>0, LenProperties DEF RecShape, Recs
<1>2. \A w \in E : \E p \in Completed(a) : w \in recons[p].rows
  BY DEF Explained
<1>3. \A p \in Completed(a) : /\ p \in Recs /\ recons[p].account = a
                               /\ p # r
                               /\ recons[p].rows \subseteq E
  BY DEF Completed, Explained, InProgress
<1>4. \A w \in E : AccountOf(w[1]) = a /\ w[2] = AmountOf(w[1]) /\ w[1] \in B
  <2> SUFFICES ASSUME NEW w \in E
               PROVE  AccountOf(w[1]) = a /\ w[2] = AmountOf(w[1]) /\ w[1] \in B
    OBVIOUS
  <2>1. PICK p \in Completed(a) : w \in recons[p].rows
    BY <1>2
  <2>2. Told(p, w)
    BY <1>0, <1>3, <2>1 DEF RowsTold
  <2>3. w[1] \notin LinesOf(recons[r].rows)
    BY <1>0, <1>3, <2>1 DEF RowsApart, LinesOf
  <2> QED
    BY <1>3, <2>2, <2>3 DEF Told, BeginningLines
<1>5. \A l \in B : \E w \in E : w[1] = l
  <2> SUFFICES ASSUME NEW l \in B PROVE \E w \in E : w[1] = l
    OBVIOUS
  <2>1. /\ l \in flagged /\ AccountOf(l) = a /\ l \notin LinesOf(recons[r].rows)
    BY DEF BeginningLines
  <2>2. PICK p \in Recs : l \in LinesOf(recons[p].rows)
    BY <1>0, <2>1 DEF FlagsHaveRows
  <2>3. PICK w \in recons[p].rows : w[1] = l
    BY <2>2 DEF LinesOf
  <2>4. recons[p].account = a
    BY <1>0, <2>1, <2>3 DEF RowsTold, Told
  <2>5. p # r
    BY <2>1, <2>2
  <2>6. recons[p].state # "in_progress"
    BY <1>0, <1>1, <2>4, <2>5 DEF InOrder, InProgress
  <2>7. recons[p].state # "abandoned"
    BY <1>0, <2>3 DEF RecShape
  <2>8. recons[p] \in Recon
    BY <1>0, ElementOfSeq, LenProperties DEF RecShape, Recs
  <2>9. p \in Completed(a)
    BY <2>4, <2>6, <2>7, <2>8 DEF Completed, Recon
  <2> QED
    BY <1>3, <2>3, <2>9
<1>6. \A v, w \in E : v[1] = w[1] => v = w
  <2> SUFFICES ASSUME NEW v \in E, NEW w \in E, v[1] = w[1] PROVE v = w
    OBVIOUS
  <2>1. PICK p \in Completed(a) : v \in recons[p].rows
    BY <1>2
  <2>2. PICK q \in Completed(a) : w \in recons[q].rows
    BY <1>2
  <2> QED
    BY <1>0, <1>3, <2>1, <2>2 DEF RowsApart
<1>7. B = {h[w] : w \in E}
  BY <1>4, <1>5
<1>8. IsFiniteSet(E) /\ \A w \in E : w[2] \in Int /\ Seconds(E)[w] = w[2]
  BY ExplainedRows
<1>9. \A w \in E : Seconds(E)[w] \in Int /\ AmountsOf(B)[h[w]] = Seconds(E)[w]
  BY <1>4, <1>8 DEF AmountsOf
<1>10. DOMAIN h = E /\ \A v, w \in E : h[v] = h[w] => v = w
  BY <1>6
<1>11. Beginning(r) = Total(AmountsOf(B), B)
  BY Differences
<1> HIDE DEF E, B, h
<1>12. Total(AmountsOf(B), {h[w] : w \in E}) = Total(Seconds(E), E)
  BY <1>8, <1>9, <1>10, TotalMap
<1> QED
  BY <1>7, <1>11, <1>12 DEF E, B

\* What is completed stays so and as it is, and an account once odd stays odd.
LEMMA CarriesKept ==
  ASSUME Carries, odd \subseteq odd',
         \A p \in Recs : recons[p].state = "completed" => p \in Recs' /\ recons'[p] = recons[p],
         \A p \in Recs' : recons'[p].state = "completed" => p \in Recs /\ recons'[p] = recons[p]
  PROVE  Carries'
<1>1. \A p : p \in Recs' /\ recons'[p].state = "completed"
              <=> p \in Recs /\ recons[p].state = "completed"
  OBVIOUS
<1>2. \A a : /\ Completed(a)' = Completed(a)
              /\ \A p \in Completed(a) : recons'[p] = recons[p]
  BY <1>1 DEF Completed
<1>3. \A a, n : Explained(a, n)' = Explained(a, n)
  BY <1>2 DEF Explained
<1> QED
  BY <1>3 DEF Carries

\* What is completed, as the steps see it.
LEMMA CompletedStays ==
  ASSUME RecBooks, RecNext, \A r \in Recs : ~CompleteReconciliation(r)
  PROVE  /\ odd \subseteq odd'
         /\ \A p \in Recs : recons[p].state = "completed" => p \in Recs' /\ recons'[p] = recons[p]
         /\ \A p \in Recs' : recons'[p].state = "completed" => p \in Recs /\ recons'[p] = recons[p]
<1> DEFINE Stays ==
      /\ odd \subseteq odd'
      /\ \A p \in Recs : recons[p].state = "completed" => p \in Recs' /\ recons'[p] = recons[p]
      /\ \A p \in Recs' : recons'[p].state = "completed" => p \in Recs /\ recons'[p] = recons[p]
<1>1. recons \in Seq(Recon) /\ \A r \in Recs : recons[r] \in Recon
  BY ElementOfSeq, LenProperties DEF RecBooks, Ticked, RecShape, Recs
<1>2. ASSUME NEW r \in Recs, NEW q, recons' = [recons EXCEPT ![r] = q],
             InProgress(r), q.state # "completed", odd \subseteq odd'
      PROVE  Stays
  <2>1. Recs' = Recs /\ recons'[r] = q /\ \A p \in Recs : p # r => recons'[p] = recons[p]
    BY <1>2 DEF Recs
  <2> QED
    BY <1>2, <2>1 DEF InProgress
<1>3. ASSUME NEW q, recons' = Append(recons, q), q.state # "completed", odd \subseteq odd'
      PROVE  Stays
  <2>1. /\ Len(recons) \in Nat /\ Recs = 1..Len(recons)
        /\ Recs' = 1..(Len(recons) + 1)
        /\ recons'[Len(recons) + 1] = q
        /\ \A p \in Recs : recons'[p] = recons[p]
    BY <1>1, <1>3, AppendProperties, LenProperties DEF Recs
  <2> QED
    BY <1>3, <2>1
<1>4. CASE JournalStep
  BY <1>4 DEF JournalStep, Recs
<1> HIDE DEF Stays
<1>5. ASSUME NEW a \in Reconciled, NEW s \in Statements, StartReconciliation(a, s)
      PROVE  Stays
  BY <1>3, <1>5 DEF StartReconciliation
<1>6. ASSUME NEW r \in Recs, NEW l \in Lines, ClearTransaction(r, l)
      PROVE  Stays
  <2> DEFINE q == [recons[r] EXCEPT !.rows = @ \cup {<<l, AmountOf(l)>>}]
  <2>1. q.state = recons[r].state
    BY <1>1 DEF Recon
  <2>2. recons' = [recons EXCEPT ![r] = q] /\ InProgress(r) /\ odd \subseteq odd'
    BY <1>6 DEF ClearTransaction
  <2> HIDE DEF q
  <2> QED
    BY <1>2, <2>1, <2>2 DEF InProgress
<1>7. ASSUME NEW r \in Recs, NEW l \in Lines, UnclearTransaction(r, l)
      PROVE  Stays
  <2> DEFINE q == [recons[r] EXCEPT !.rows = {w \in @ : w[1] # l}]
  <2>1. q.state = recons[r].state
    BY <1>1 DEF Recon
  <2>2. recons' = [recons EXCEPT ![r] = q] /\ InProgress(r) /\ odd \subseteq odd'
    BY <1>7 DEF UnclearTransaction
  <2> HIDE DEF q
  <2> QED
    BY <1>2, <2>1, <2>2 DEF InProgress
<1>8. ASSUME NEW r \in Recs, AbandonReconciliation(r)
      PROVE  Stays
  <2> DEFINE q == [recons[r] EXCEPT !.state = "abandoned", !.rows = {}]
  <2>1. q.state = "abandoned"
    BY <1>1 DEF Recon
  <2>2. recons' = [recons EXCEPT ![r] = q] /\ InProgress(r) /\ odd \subseteq odd'
    BY <1>8 DEF AbandonReconciliation
  <2> HIDE DEF q
  <2> QED
    BY <1>2, <2>1, <2>2
<1>9. Stays
  BY <1>4, <1>5, <1>6, <1>7, <1>8 DEF RecNext, Stays
<1> QED
  BY <1>9 DEF Stays

\* Completing a reconciliation explains its rows on top of what was explained:
\* the recorded difference is what the two do not reach.
LEMMA CarriesComplete ==
  ASSUME RecBooks, Carries, NEW r \in Recs, CompleteReconciliation(r),
         NEW a, a = recons[r].account
  PROVE  Carries'
<1> DEFINE q == [recons[r] EXCEPT !.state = "completed", !.difference = DifferenceNow(r)]
           E == Explained(a, r)
           R == recons[r].rows
<1>0. RecShape /\ InOrder /\ RowsApart /\ recons \in Seq(Recon) /\ recons[r] \in Recon
  BY ElementOfSeq, LenProperties DEF RecBooks, Ticked, RecShape, Recs
<1>1. InProgress(r) /\ recons' = [recons EXCEPT ![r] = q] /\ UNCHANGED odd
  BY DEF CompleteReconciliation
<1>2. /\ q.account = a /\ q.rows = R /\ q.state = "completed"
      /\ q.statement = recons[r].statement /\ q.difference = DifferenceNow(r)
  BY <1>0 DEF Recon
<1> HIDE DEF q
<1>3. /\ Recs' = Recs /\ recons'[r] = q
      /\ \A p \in Recs : p # r => recons'[p] = recons[p]
  BY <1>1 DEF Recs
<1>4. \A b : /\ r \notin Completed(b)
             /\ Completed(b)' = IF b = a THEN Completed(b) \cup {r} ELSE Completed(b)
  BY <1>1, <1>2, <1>3 DEF Completed, InProgress
<1>5. \A b : \A p \in Completed(b)' : /\ p \in Recs /\ recons'[p].rows = recons[p].rows
                                       /\ recons[p].account = b
  BY <1>2, <1>3 DEF Completed
<1>6. \A p \in Completed(a) : p < r
  <2> SUFFICES ASSUME NEW p \in Completed(a) PROVE p < r
    OBVIOUS
  <2>1. p \in Recs /\ recons[p].account = a
    BY DEF Completed
  <2>2. p # r
    BY <1>4
  <2>3. p \in Nat /\ r \in Nat
    BY <1>0, <2>1, LenProperties DEF Recs
  <2>4. p <= r
    BY <1>0, <1>1, <2>1 DEF InOrder
  <2> QED
    BY <2>2, <2>3, <2>4
<1>7. r \in Nat
  BY <1>0, LenProperties DEF Recs
<1>8. Explained(a, r)' = E \cup R
  <2>1. {p \in Completed(a)' : p <= r} = {p \in Completed(a) : p <= r} \cup {r}
    <3>1. Completed(a)' = Completed(a) \cup {r}
      BY <1>4
    <3> QED
      BY ONLY <1>7, <3>1
  <2>2. \A p \in {p \in Completed(a)' : p <= r} : recons'[p].rows = recons[p].rows
    BY <1>5
  <2> QED
    BY <2>1, <2>2 DEF Explained
<1>9. ASSUME NEW p \in Recs, p # r, recons[p].state = "completed", NEW b, b = recons[p].account
      PROVE  Explained(b, p)' = Explained(b, p)
  <2>1. p \in Nat /\ p \in Completed(b)
    BY <1>0, <1>9, LenProperties DEF Recs, Completed
  <2>2. {o \in Completed(b)' : o <= p} = {o \in Completed(b) : o <= p}
    BY <1>4, <1>6, <1>7, <2>1
  <2>3. \A o \in {o \in Completed(b)' : o <= p} : recons'[o].rows = recons[o].rows
    BY <1>5
  <2> QED
    BY <2>2, <2>3 DEF Explained
<1>10. ASSUME a \notin odd
       PROVE  recons[r].statement - DifferenceNow(r) = Total(Seconds(E \cup R), E \cup R)
  <2>1. \A p \in Completed(a) : p <= r
    BY <1>6, <1>7, <1>0, LenProperties DEF Completed, Recs
  <2>2. Beginning(r) = Total(Seconds(E), E)
    BY <1>1, <1>10, <2>1, BeginningIs
  <2>3. /\ ClearedTotal(r) = Total(Seconds(R), R) /\ ClearedTotal(r) \in Int
        /\ Beginning(r) \in Int /\ recons[r].statement \in Int
    BY Differences
  <2>4. recons[r].statement - DifferenceNow(r) = Total(Seconds(E), E) + Total(Seconds(R), R)
    BY <2>2, <2>3 DEF DifferenceNow
  <2>5. IsFiniteSet(E) /\ \A w \in E : w[2] \in Int
    BY ExplainedRows
  <2>6. IsFiniteSet(R) /\ \A w \in R : w[2] \in Int
    BY <1>0 DEF RecShape, Recon
  <2>7. E \cap R = {}
    <3> SUFFICES ASSUME NEW w \in E, w \in R PROVE FALSE
      OBVIOUS
    <3>1. PICK p \in Completed(a) : w \in recons[p].rows
      BY DEF Explained
    <3>2. p \in Recs /\ p # r
      BY <1>4, <3>1 DEF Completed
    <3> QED
      BY <1>0, <1>10, <3>1, <3>2 DEF RowsApart
  <2> HIDE DEF E, R
  <2> DEFINE F == Seconds(E \cup R)
  <2>8. \A w \in E \cup R : F[w] = w[2] /\ F[w] \in Int
    BY <2>5, <2>6 DEF Seconds
  <2>9. \A w \in E : Seconds(E)[w] = F[w]
    BY <2>8 DEF Seconds
  <2>10. \A w \in R : Seconds(R)[w] = F[w]
    BY <2>8 DEF Seconds
  <2> HIDE DEF F
  <2>11. Total(Seconds(E), E) = Total(F, E) /\ Total(Seconds(R), R) = Total(F, R)
    BY <2>5, <2>6, <2>9, <2>10, TotalSame
  <2>12. Total(F, E \cup R) = Total(F, E) + Total(F, R)
    BY <2>5, <2>6, <2>7, <2>8, TotalUnion
  <2> QED
    BY <2>4, <2>11, <2>12 DEF F
<1>11. SUFFICES ASSUME NEW p \in Recs, recons'[p].state = "completed",
                       recons'[p].account \notin odd, NEW b, b = recons'[p].account
                PROVE  recons'[p].statement - recons'[p].difference
                         = Total(Seconds(Explained(b, p)'), Explained(b, p)')
  BY <1>1, <1>3 DEF Carries, Seconds
<1>12. CASE p = r
  BY <1>2, <1>3, <1>8, <1>10, <1>11, <1>12
<1>13. CASE p # r
  BY <1>3, <1>9, <1>11, <1>13 DEF Carries
<1> QED
  BY <1>12, <1>13

LEMMA CarriesStep == RecBooks /\ Carries /\ [RecNext]_recVars => Carries'
<1> SUFFICES ASSUME RecBooks, Carries, [RecNext]_recVars PROVE Carries'
  OBVIOUS
<1>1. CASE UNCHANGED recVars
  BY <1>1 DEF recVars, Carries, Explained, Completed, Recs, Seconds
<1>2. CASE \E r \in Recs : CompleteReconciliation(r)
  BY <1>2, CarriesComplete
<1>3. CASE RecNext /\ \A r \in Recs : ~CompleteReconciliation(r)
  BY <1>3, CompletedStays, CarriesKept
<1> QED
  BY <1>1, <1>2, <1>3

\* The last of some reconciliations.
LEMMA LastOne ==
  ASSUME NEW n \in Nat, NEW S \in SUBSET (1..n), S # {}
  PROVE  Max(S) \in S /\ \A p \in S : p <= Max(S)
<1> DEFINE R == OpToRel(<, Nat)
           W == {m \in Nat : \A p \in S : p <= m}
<1>1. n \in W
  OBVIOUS
<1>2. PICK m \in W : \A k \in W : ~(<<k, m>> \in R)
  <2>1. IsWellFoundedOn(R, Nat)
    BY NatLessThanWellFounded
  <2>2. W \subseteq Nat /\ W # {}
    BY <1>1
  <2> HIDE DEF R, W
  <2> QED
    BY <2>1, <2>2, WFMin
<1>3. m \in S
  <2> SUFFICES ASSUME m \notin S PROVE FALSE
    OBVIOUS
  <2>0. m \in Nat /\ \A p \in S : p \in Nat /\ p >= 1 /\ p <= m /\ p # m
    OBVIOUS
  <2>1. m - 1 \in Nat /\ \A p \in S : p <= m - 1
    <3>1. PICK p \in S : TRUE
      OBVIOUS
    <3> QED
      BY ONLY <2>0, <3>1
  <2>2. m - 1 \in W /\ m - 1 < m /\ m \in Nat
    BY <2>1
  <2> QED
    BY <1>2, <2>2 DEF OpToRel
<1>4. \A p \in S : m >= p
  OBVIOUS
<1>5. Max(S) \in S /\ \A p \in S : Max(S) >= p
  BY <1>3, <1>4 DEF Max
<1> QED
  BY <1>5

\* Where lines are only ticked off the screen's list and left alone, a
\* reconciliation begins where the last completed one of its account ended:
\* through every reconciliation started, uncleared and abandoned in between.
THEOREM BeginningCarries == RecSpec => []BeginningCarriesOver
<1>1. RecInit => Carries
  BY DEF RecInit, Carries, Recs
<1>2. RecBooks /\ Carries => BeginningCarriesOver
  <2> SUFFICES ASSUME RecBooks, Carries, NEW r \in Recs, InProgress(r),
                      NEW a, a = recons[r].account, a \notin odd,
                      NEW done, done = Completed(a)
               PROVE  IF done = {} THEN Beginning(r) = 0
                      ELSE Beginning(r) = recons[Max(done)].statement
                                            - recons[Max(done)].difference
    BY DEF BeginningCarriesOver
  <2>1. recons \in Seq(Recon)
    BY DEF RecBooks, Ticked, RecShape
  <2>2. CASE done = {}
    <3>1. Explained(a, 0) = {}
      BY <2>2 DEF Explained
    <3>2. Beginning(r) = Total(Seconds(Explained(a, 0)), Explained(a, 0))
      BY <2>2, BeginningIs
    <3> QED
      BY <2>2, <3>1, <3>2, TotalEmpty
  <2>3. CASE done # {}
    <3>1. Len(recons) \in Nat /\ done \in SUBSET (1..Len(recons))
      BY <2>1, LenProperties DEF Completed, Recs
    <3>2. Max(done) \in done /\ \A p \in done : p <= Max(done)
      BY <2>3, <3>1, LastOne
    <3>3. PICK last \in done : last = Max(done)
      BY <3>2
    <3>4. last \in Recs /\ recons[last].state = "completed" /\ recons[last].account = a
      BY <3>3 DEF Completed
    <3>5. recons[last].statement - recons[last].difference
            = Total(Seconds(Explained(a, last)), Explained(a, last))
      BY <3>4 DEF Carries
    <3>6. Beginning(r) = Total(Seconds(Explained(a, last)), Explained(a, last))
      BY <3>2, <3>3, BeginningIs
    <3> QED
      BY <2>3, <3>3, <3>5, <3>6
  <2> QED
    BY <2>2, <2>3
<1> QED
  BY <1>1, <1>2, RecInitInv, RecStep, CarriesStep, PTL DEF RecSpec

=============================================================================
