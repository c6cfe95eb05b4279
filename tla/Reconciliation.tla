--------------------------- MODULE Reconciliation ---------------------------
(***************************************************************************)
(* src/commands/reconciliation_commands.rs: ticking an account's lines off *)
(* against a bank statement, over the journal.                             *)
(*                                                                         *)
(* A cleared line is recorded twice: as a row of the reconciliation that   *)
(* cleared it and as a flag on the line.  The rows make the cleared total, *)
(* the flags the beginning balance and the list of lines still to clear.   *)
(* The clear command looks at neither the line's account nor its flag nor  *)
(* whether its entry is void: the screen offers uncleared lines, and what  *)
(* it shows may be old.                                                    *)
(***************************************************************************)
EXTENDS Journal

CONSTANTS
  Reconciled,  \* bound: the accounts somebody reconciles
  Statements,  \* bound: statement ending balances
  MaxRecons    \* bound: reconciliations ever started

LineIds == Nat \X Nat

Recon == [account : Accounts, statement : Int, difference : Int,
          state : {"in_progress", "completed", "abandoned"},
          rows : SUBSET (LineIds \X Int)]

ASSUME ReconciliationAssumption ==
  /\ Reconciled \subseteq Accounts
  /\ Statements \subseteq Int
  /\ MaxRecons \in Nat

VARIABLES
  recons,   \* reconciliations and their cleared_transactions, in order of start
  flagged,  \* the lines with is_cleared = 1
  odd       \* history: accounts a line of which was cleared or changed otherwise than
            \* by ticking it off the screen's list and leaving it alone

recVars == <<vars, recons, flagged, odd>>

Recs == DOMAIN recons

RecTypeOK ==
  /\ TypeOK
  /\ recons \in Seq(Recon)
  /\ flagged \subseteq LineIds
  /\ odd \subseteq Accounts
  /\ \A r \in Recs : recons[r].state = "abandoned" => recons[r].rows = {}

RecInit ==
  /\ Init
  /\ recons = << >>
  /\ flagged = {}
  /\ odd = {}

-----------------------------------------------------------------------------

NotAbandoned(r) == recons[r].state # "abandoned"
InProgress(r) == recons[r].state = "in_progress"
LinesOf(rows) == {w[1] : w \in rows}

Lines == UNION {{<<e, i>> : i \in DOMAIN entries[e].lines} : e \in Ids}
AccountOf(l) == entries[l[1]].lines[l[2]].account
AmountOf(l) == entries[l[1]].lines[l[2]].amount

ClearedTotal(r) == MapThenSumSet(LAMBDA w : w[2], recons[r].rows)

AllFlagged(r) == {l \in flagged : AccountOf(l) = recons[r].account /\ Live(l[1])}

\* The flagged live lines of the account that this reconciliation did not clear.
BeginningLines(r) ==
  {l \in flagged : /\ AccountOf(l) = recons[r].account
                   /\ l \notin LinesOf(recons[r].rows)
                   /\ Live(l[1])}

Beginning(r) == MapThenSumSet(AmountOf, BeginningLines(r))

DifferenceNow(r) == recons[r].statement - (Beginning(r) + ClearedTotal(r))

-----------------------------------------------------------------------------

SlotFree(a) == \A r \in Recs : recons[r].account = a => ~InProgress(r)

StartReconciliation(a, statement) ==
  /\ Len(recons) < MaxRecons
  /\ status[a] \in {"active", "inactive"}
  /\ SlotFree(a)
  /\ recons' = Append(recons, [account |-> a, statement |-> statement, difference |-> 0,
                               state |-> "in_progress", rows |-> {}])
  /\ UNCHANGED <<vars, flagged, odd>>

\* What the screen offers: the account's live lines that are not cleared.
Offered(r, l) == AccountOf(l) = recons[r].account /\ Live(l[1]) /\ l \notin flagged

ClearTransaction(r, l) ==
  /\ InProgress(r)
  /\ l \notin LinesOf(recons[r].rows)
  /\ recons' = [recons EXCEPT ![r].rows = @ \cup {<<l, AmountOf(l)>>}]
  /\ flagged' = flagged \cup {l}
  /\ odd' = IF Offered(r, l) THEN odd ELSE odd \cup {AccountOf(l), recons[r].account}
  /\ UNCHANGED vars

KeepFlag(l) == flagged
DropFlag(l) == flagged \ {l}

UnclearTransaction(r, l) ==
  /\ InProgress(r)
  /\ l \in LinesOf(recons[r].rows)
  /\ recons' = [recons EXCEPT ![r].rows = {w \in @ : w[1] # l}]
  /\ flagged' = DropFlag(l)
  /\ UNCHANGED <<vars, odd>>

\* With any difference: it is recorded, never refused.
CompleteReconciliation(r) ==
  /\ InProgress(r)
  /\ recons' = [recons EXCEPT ![r].state = "completed", ![r].difference = DifferenceNow(r)]
  /\ UNCHANGED <<vars, flagged, odd>>

AbandonKeepingRows(r) ==
  /\ InProgress(r)
  /\ recons' = [recons EXCEPT ![r].state = "abandoned"]
  /\ UNCHANGED <<vars, flagged, odd>>

\* The rows go; the flags stay.
AbandonReconciliation(r) ==
  /\ InProgress(r)
  /\ recons' = [recons EXCEPT ![r].state = "abandoned", ![r].rows = {}]
  /\ odd' = IF recons[r].rows = {} THEN odd ELSE odd \cup {recons[r].account}
  /\ UNCHANGED <<vars, flagged>>

\* deletion_blockers: an account somebody ever reconciled is not deleted.
NoneInProgress(A) == \A r \in Recs : recons[r].account \in A => ~InProgress(r)
NoneReconciled(A) == \A r \in Recs : recons[r].account \notin A

Recorded == flagged \cup UNION {LinesOf(recons[r].rows) : r \in Recs}

\* Entries are posted, voided, unvoided and moved whatever is cleared.
JournalStep ==
  /\ Next
  /\ NoneReconciled({a \in Accounts : status[a] # "deleted" /\ status'[a] = "deleted"})
  /\ odd' = odd \cup UNION {{AccountOf(l), AccountOf(l)'} :
                             l \in {k \in Recorded : entries'[k[1]] # entries[k[1]]}}
  /\ UNCHANGED <<recons, flagged>>

RecNext ==
  \/ JournalStep
  \/ \E a \in Reconciled, s \in Statements : StartReconciliation(a, s)
  \/ \E r \in Recs, l \in Lines : ClearTransaction(r, l) \/ UnclearTransaction(r, l)
  \/ \E r \in Recs : CompleteReconciliation(r) \/ AbandonReconciliation(r)

RecSpec == RecInit /\ [][RecNext]_recVars

-----------------------------------------------------------------------------

\* An account has one reconciliation in progress at most, and it is still there:
\* nothing deletes the account under its reconciliations.
OneInProgress ==
  /\ \A q, r \in Recs : InProgress(q) /\ InProgress(r) /\ q # r
                         => recons[q].account # recons[r].account
  /\ \A r \in Recs : status[recons[r].account] \in {"active", "inactive"}

\* On an account whose lines were only ever cleared off the screen's list, and
\* left alone since, a line is flagged exactly when one reconciliation has it, one
\* of its own account and at its own amount: the flags say what the rows say.
FlagsTellRows ==
  \A l \in {k \in Lines : AccountOf(k) \notin odd} :
    LET having == {r \in Recs : l \in LinesOf(recons[r].rows)} IN
      /\ l \in flagged <=> having # {}
      /\ \A q, r \in having : q = r
      /\ \A r \in having : /\ recons[r].account = AccountOf(l)
                           /\ <<l, AmountOf(l)>> \in recons[r].rows

Completed(a) == {r \in Recs : recons[r].account = a /\ recons[r].state = "completed"}

\* The beginning balance of a reconciliation is what the account's last
\* statement left explained, its ending balance less the recorded difference, as
\* long as the account is not odd.
BeginningCarriesOver ==
  \A r \in Recs :
    LET a == recons[r].account
        done == Completed(a)
    IN  InProgress(r) /\ a \notin odd
        => IF done = {} THEN Beginning(r) = 0
           ELSE LET last == Max(done)
                IN  Beginning(r) = recons[last].statement - recons[last].difference

\* A reconciliation that is completed or abandoned never changes again, whatever
\* is cleared elsewhere, voided or started after it.
FinishedIsFrozen ==
  [][\A r \in Recs : recons[r].state # "in_progress" => recons'[r] = recons[r]]_recVars

-----------------------------------------------------------------------------
(* What the sources say of flags and the code does not keep.               *)

\* The beginning balance is of "lines cleared by earlier reconciliations"
\* (account_queries.rs): a flagged line was cleared by a reconciliation that
\* still has it.
FlaggedWasCleared == \A l \in flagged : \E r \in Recs : l \in LinesOf(recons[r].rows)
=============================================================================
