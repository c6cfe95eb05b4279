------------------------------- MODULE Journal -------------------------------
(***************************************************************************)
(* src/commands: accounts, journal entries and year ends.                  *)
(*                                                                         *)
(* One action is one command that was appended.  Its guard is the check    *)
(* the command's build_..._in_txn makes under the write lock and its       *)
(* effect is the projection of the events it returns; that check and       *)
(* effect are one atomic step is what EventStore shows and                 *)
(* EventStore_proofs proves.  A rejected command changes nothing.          *)
(*                                                                         *)
(* Dates are fiscal years, a year end being the last day of its year.  A   *)
(* year that nobody opened and an open one behave alike.  Amounts are      *)
(* signed, debits positive.  One partner stands for all: splitting a       *)
(* result among several is arithmetic that adds back to the result.        *)
(***************************************************************************)
EXTENDS Integers, Sequences, SequencesExt, FiniteSetsExt

CONSTANTS
  Accounts,    \* account ids
  Type,        \* the account_type of each
  Capital,     \* the partner's linked capital account
  Chart,       \* accounts seeded when the company is created
  NoRef,       \* an entry without a reference
  Refs,        \* references of ordinary entries
  MaxYear,     \* bound: years
  MaxEntries,  \* bound: entries ever posted
  Postings,    \* bound: debit account, credit account, reference of ordinary entries
  Moves,       \* bound: the accounts a line is moved from and to
  ClosedInto,  \* bound: the equity accounts years are closed into
  Retirable    \* bound: the accounts that are deactivated or deleted

Years == 1..MaxYear

\* "close-2023" and "close-2023-allocation".
CloseRef(y) == <<"close", y>>
AllocationRef(y) == <<"allocation", y>>
YearRefs == {CloseRef(y) : y \in Years} \cup {AllocationRef(y) : y \in Years}

Line == [account : Accounts, amount : Int]

Entry == [date : Years, source : {"manual", "closing"},
          ref : Refs \cup YearRefs \cup {NoRef}, lines : Seq(Line), void : BOOLEAN]

ASSUME JournalAssumption ==
  /\ IsFiniteSet(Accounts)
  /\ Type \in [Accounts -> {"asset", "equity", "income"}]
  /\ Capital \in Accounts
  /\ Type[Capital] = "equity"
  /\ Chart \subseteq Accounts
  /\ Retirable \subseteq Accounts
  /\ Postings \subseteq Accounts \X Accounts \X (Refs \cup {NoRef})
  /\ Moves \subseteq Accounts \X Accounts
  /\ ClosedInto \subseteq {a \in Accounts : Type[a] = "equity"}
  /\ NoRef \notin Refs \cup YearRefs
  /\ Refs \cap YearRefs = {}
  /\ MaxYear \in Nat
  /\ MaxEntries \in Nat

VARIABLES
  status,   \* the accounts table
  entries,  \* journal_entries and their journal_lines, in posting order
  closed    \* the years with is_closed = 1

vars == <<status, entries, closed>>

TypeOK ==
  /\ status \in [Accounts -> {"unborn", "active", "inactive", "deleted"}]
  /\ entries \in Seq(Entry)
  /\ closed \in SUBSET Years

Init ==
  /\ status = [a \in Accounts |-> IF a \in Chart THEN "active" ELSE "unborn"]
  /\ entries = << >>
  /\ closed = {}

-----------------------------------------------------------------------------
(* Reading the ledger.                                                     *)

Ids == DOMAIN entries
Live(e) == ~entries[e].void
LiveWith(r) == {e \in Ids : Live(e) /\ entries[e].ref = r}

\* What an entry, and what the entries in E, put on the accounts in A.
OnEntry(e, A) ==
  MapThenSumSet(LAMBDA i : entries[e].lines[i].amount,
                {i \in DOMAIN entries[e].lines : entries[e].lines[i].account \in A})

Sum(E, A) == MapThenSumSet(LAMBDA e : OnEntry(e, A), E)

UpTo(y) == {e \in Ids : Live(e) /\ entries[e].date <= y}

\* The ledger balance of an account as of the end of a year.
Balance(a, y) == Sum(UpTo(y), {a})

Income == {a \in Accounts : Type[a] = "income"}
Equity == {a \in Accounts : Type[a] = "equity"}

-----------------------------------------------------------------------------
(* Accounts.                                                               *)

CreateAccount(a) ==
  /\ status[a] = "unborn"
  /\ status' = [status EXCEPT ![a] = "active"]
  /\ UNCHANGED <<entries, closed>>

\* Active, and every live line to it nets to zero.
DeactivateAccount(a) ==
  /\ a \in Retirable
  /\ status[a] = "active"
  /\ Balance(a, MaxYear) = 0
  /\ status' = [status EXCEPT ![a] = "inactive"]
  /\ UNCHANGED <<entries, closed>>

ReactivateAccount(a) ==
  /\ status[a] = "inactive"
  /\ status' = [status EXCEPT ![a] = "active"]
  /\ UNCHANGED <<entries, closed>>

Names(E, a) == \E e \in E : \E i \in DOMAIN entries[e].lines : entries[e].lines[i].account = a

Delete(a, E) ==
  /\ a \in Retirable
  /\ status[a] \in {"active", "inactive"}
  /\ ~Names(E, a)
  /\ status' = [status EXCEPT ![a] = "deleted"]
  /\ UNCHANGED <<entries, closed>>

DeleteIfNoBalance(a) == Delete(a, UpTo(MaxYear))

\* deletion_blockers: the journal's lines, voided entries' included.
DeleteAccount(a) == Delete(a, Ids)

-----------------------------------------------------------------------------
(* Entries.                                                                *)

\* check_reference_free_in_txn: no live entry has this reference.
RefFree(r) == r = NoRef \/ LiveWith(r) = {}

\* check_entry_invariants: its accounts are active, its year is not fenced.
AccountsActive(lines) == \A i \in DOMAIN lines : status[lines[i].account] = "active"
Unfenced(entry) == RefFree(entry.ref) /\ AccountsActive(entry.lines)
MayPost(entry) == Unfenced(entry) /\ entry.date \notin closed

Post(es) == entries' = entries \o es

Room(n) == Len(entries) + n <= MaxEntries

Manual(y, p) ==
  [date |-> y, source |-> "manual", ref |-> p[3], void |-> FALSE,
   lines |-> <<[account |-> p[1], amount |-> 1], [account |-> p[2], amount |-> -1]>>]

PostEntry(y, p) ==
  /\ Room(1)
  /\ MayPost(Manual(y, p))
  /\ Post(<<Manual(y, p)>>)
  /\ UNCHANGED <<status, closed>>

SetVoid(E, v) ==
  entries' = [e \in Ids |-> IF e \in E THEN [entries[e] EXCEPT !.void = v] ELSE entries[e]]

VoidAny(e) ==
  /\ Live(e)
  /\ SetVoid({e}, TRUE)
  /\ UNCHANGED <<status, closed>>

\* A closing entry cannot be voided while its year is closed.
VoidEntry(e) ==
  /\ ~(entries[e].source = "closing" /\ entries[e].date \in closed)
  /\ VoidAny(e)

UnvoidAny(e) ==
  /\ ~Live(e)
  /\ SetVoid({e}, FALSE)
  /\ UNCHANGED <<status, closed>>

\* Another live entry may have claimed the reference meanwhile.
UnvoidEntry(e) ==
  /\ RefFree(entries[e].ref)
  /\ UnvoidAny(e)

ReassignLine(e, i, a) ==
  /\ <<entries[e].lines[i].account, a>> \in Moves
  /\ Live(e)
  /\ status[a] = "active"
  /\ entries[e].lines[i].account # a
  /\ entries' = [entries EXCEPT ![e].lines[i].account = a]
  /\ UNCHANGED <<status, closed>>

-----------------------------------------------------------------------------
(* Year ends.                                                              *)

\* accounts_with_balances over revenue and expense, active or not.
Swept(y) == {a \in Income : status[a] \in {"active", "inactive"} /\ Balance(a, y) # 0}

\* The negation of what is swept: revenue less expenses.
NetIncome(y) == -MapThenSumSet(LAMBDA a : Balance(a, y), Swept(y))

OpeningIsClear(y) == Swept(y - 1) = {}

TrialBalanceAt(y) == Sum(UpTo(y), Accounts)

Sweepable(y) ==
  /\ Swept(y) # {}
  /\ \A a \in Swept(y) : status[a] = "active"
  /\ TrialBalanceAt(y) = 0

CanClose(y) == Sweepable(y) /\ OpeningIsClear(y)

\* A line per swept account, in some order of the accounts.
SweepLines(y) ==
  SetToSeq({[account |-> a, amount |-> -Balance(a, y)] : a \in Swept(y)})

SweepOnly(y, yearAccount) == SweepLines(y)

\* ... and the balancing line to the year account, unless they cancel out.
ClosingLines(y, yearAccount) ==
  IF NetIncome(y) = 0 THEN SweepLines(y)
  ELSE Append(SweepLines(y), [account |-> yearAccount, amount |-> -NetIncome(y)])

ClosingEntry(y, yearAccount) ==
  [date |-> y, source |-> "closing", ref |-> CloseRef(y), void |-> FALSE,
   lines |-> ClosingLines(y, yearAccount)]

AllocationNextYear(y, yearAccount, net) ==
  [date |-> y + 1, source |-> "closing", ref |-> AllocationRef(y), void |-> FALSE,
   lines |-> <<[account |-> yearAccount, amount |-> net],
               [account |-> Capital, amount |-> -net]>>]

\* allocation_post: the result, from the year account to the partner.
AllocationEntry(y, yearAccount, net) ==
  [date |-> y, source |-> "closing", ref |-> AllocationRef(y), void |-> FALSE,
   lines |-> <<[account |-> yearAccount, amount |-> net],
               [account |-> Capital, amount |-> -net]>>]

ToAccount(y, yearAccount) == <<ClosingEntry(y, yearAccount)>>

ToPartner(y, yearAccount) ==
  IF NetIncome(y) = 0 THEN ToAccount(y, yearAccount)
  ELSE <<ClosingEntry(y, yearAccount), AllocationEntry(y, yearAccount, NetIncome(y))>>

\* Both entries are checked before either is posted and before the fence.
CloseWith(y, yearAccount, es) ==
  /\ status[yearAccount] \in {"active", "inactive"}
  /\ LiveWith(CloseRef(y)) = {}
  /\ Room(Len(es))
  /\ \A i \in DOMAIN es : MayPost(es[i])
  /\ Post(es)
  /\ closed' = closed \cup {y}
  /\ UNCHANGED status

CloseBooks(y, yearAccount) ==
  /\ CanClose(y)
  /\ \/ CloseWith(y, yearAccount, ToAccount(y, yearAccount))
     \/ CloseWith(y, yearAccount, ToPartner(y, yearAccount))

\* allocation_plan: the one equity account of the closing entry that is no
\* partner's, and the result as its income lines have it.
YearAccounts(c) == {a \in Equity \ {Capital} : Names({c}, a)}
Result(c) == Sum({c}, Income)

AllocateToPartners(y) ==
  \E c \in LiveWith(CloseRef(y)) : \E yearAccount \in YearAccounts(c) :
    /\ YearAccounts(c) = {yearAccount}
    /\ Result(c) # 0
    /\ Room(1)
    /\ Unfenced(AllocationEntry(entries[c].date, yearAccount, Result(c)))
    /\ Post(<<AllocationEntry(entries[c].date, yearAccount, Result(c))>>)
    /\ UNCHANGED <<status, closed>>

ReopenVoiding(y, E) ==
  /\ y \in closed \/ LiveWith(CloseRef(y)) # {}
  /\ SetVoid(E, TRUE)
  /\ closed' = closed \ {y}
  /\ UNCHANGED status

ReopenVoidingClose(y) == ReopenVoiding(y, LiveWith(CloseRef(y)))

\* The allocation goes with the close, and the fence with both.
ReopenBooks(y) ==
  ReopenVoiding(y, LiveWith(AllocationRef(y)) \cup LiveWith(CloseRef(y)))

-----------------------------------------------------------------------------

Next ==
  \/ \E a \in Accounts : \/ CreateAccount(a) \/ DeactivateAccount(a)
                         \/ ReactivateAccount(a) \/ DeleteAccount(a)
  \/ \E y \in Years, p \in Postings : PostEntry(y, p)
  \/ \E e \in Ids : VoidEntry(e) \/ UnvoidEntry(e)
  \/ \E e \in Ids : \E i \in DOMAIN entries[e].lines, a \in Accounts : ReassignLine(e, i, a)
  \/ \E y \in Years, a \in ClosedInto : CloseBooks(y, a)
  \/ \E y \in Years : AllocateToPartners(y) \/ ReopenBooks(y)

Spec == Init /\ [][Next]_vars

-----------------------------------------------------------------------------

\* A closed year has exactly one live closing entry, its own, through voids,
\* unvoids of earlier closing entries, reopenings and closings again: the year
\* never gets into the state "nothing can get out of", fenced and unswept.
ClosedHasItsEntry ==
  \A y \in closed :
    \E e \in Ids : /\ LiveWith(CloseRef(y)) = {e}
                   /\ entries[e].date = y
                   /\ entries[e].source = "closing"

\* A reference names at most one live entry, whatever was voided, posted again
\* and unvoided: an import or a year end that finds its reference free is the
\* only one of its name.
RefsUnique ==
  \A d, e \in Ids : Live(d) /\ Live(e) /\ entries[d].ref = entries[e].ref /\ d # e
                     => entries[d].ref = NoRef

\* Debits equal credits on the live entries, as of the end of every year.
BooksBalance == \A y \in Years : TrialBalanceAt(y) = 0

\* No line, of a voided entry either, names an account that is not there: an
\* entry can always be unvoided and read.
LinesHaveAccounts ==
  \A a \in Accounts : Names(Ids, a) => status[a] \in {"active", "inactive"}

Closing(y) == y \notin closed /\ y \in closed'
Reopening(y) == y \in closed /\ y \notin closed'

\* What the live entries of a year have put on income accounts.
Movement(y) == Sum({e \in Ids : Live(e) /\ entries[e].date = y}, Income)

\* A close leaves every income account at zero at the year's end, and carries
\* into equity what its own year's entries put on them, wherever their lines
\* were moved: never an earlier year's result, nor one that was closed before.
\* (An allocation unvoided by itself and moved onto an income account is one of
\* the year's entries: nothing in the code tells it from income.)
CloseSweepsItsYear ==
  [][\A y \in Years : Closing(y) =>
       /\ \A a \in Income : Balance(a, y)' = 0
       /\ \A e \in LiveWith(CloseRef(y))' : Result(e)' = -Movement(y)]_vars

\* A reopened year keeps nothing of its close: no closing entry and no
\* allocation dated in it is live.
ReopenUndoesClose ==
  [][\A y \in Years : Reopening(y) =>
       \A e \in Ids : entries'[e].source = "closing" /\ entries'[e].date = y
                        => entries'[e].void]_vars

\* What is posted into a year that is closed, and stays so, is one allocation:
\* from the account its close filled, and for the result of that close.
FenceAdmitsAllocation ==
  [][\A y \in closed \cap closed' : \A e \in DOMAIN entries' \ Ids :
       entries'[e].date = y =>
         /\ entries'[e].ref = AllocationRef(y)
         /\ LiveWith(AllocationRef(y)) = {}
         /\ \A c \in LiveWith(CloseRef(y)) :
              Sum({e}, Equity \ {Capital})' = Result(c)]_vars

=============================================================================
