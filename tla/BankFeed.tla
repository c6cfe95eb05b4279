------------------------------ MODULE BankFeed ------------------------------
(***************************************************************************)
(* src/commands/plaid_commands.rs: transactions pulled from a bank are     *)
(* staged, reviewed, paired into transfers and imported into the journal.  *)
(*                                                                         *)
(* A transaction's fate is kept in four places: its staged row's status,   *)
(* the transfer candidates that hold it, the table of imported             *)
(* transactions and the reference of its entry.  Only the import of an     *)
(* entry runs under the event store's checks; the commands of the review   *)
(* write the tables directly and take any id they are given, so a page     *)
(* loaded earlier may act on a row that has moved on.  The import of a     *)
(* transfer reads its pair before it takes the lock, and does not read it  *)
(* again when it starts over, so that the pair itself may have moved on.   *)
(* Importing everything is the two imports, one after the other.           *)
(*                                                                         *)
(* Transactions within a year are near enough to pair.  The same-sign pair *)
(* of an asset and a liability is only ever paired by hand here.           *)
(***************************************************************************)
EXTENDS Journal

CONSTANTS
  Txns,           \* the provider's transactions
  Feeds,          \* its accounts
  FeedOf,         \* the account of a transaction
  Amount,         \* what left the account
  DateOf,         \* the year of a transaction
  Nowhere,        \* no ledger account
  Uncategorized,  \* the account every single import is posted against
  Mappable,       \* bound: the ledger accounts a provider's account is mapped to
  Unmappable,     \* bound: the provider's accounts somebody unmaps
  Pulls,          \* bound: what one pull hands over, again or for the first time
  ByHand,         \* bound: the rows somebody pairs by hand
  MaxLoaded       \* bound: transfers whose import is under way at once

\* A single import has its transaction for reference, a transfer its two legs.
TransferRef(from, to) == <<from, to>>

Statuses == {"unknown", "pending", "matched", "imported", "dismissed"}
Candidate == [legs : Txns \X Txns, status : {"pending", "manual", "rejected", "confirmed"}]

\* What an import read: its entry, and its candidate's row as that is by now.
Loaded == [legs : Txns \X Txns, entry : Entry,
           status : {"pending", "manual", "rejected", "confirmed", "deleted"}]

ASSUME BankFeedAssumption ==
  /\ IsFiniteSet(Txns)
  /\ FeedOf \in [Txns -> Feeds]
  /\ Amount \in [Txns -> Int \ {0}]
  /\ DateOf \in [Txns -> Years]
  /\ Nowhere \notin Accounts
  /\ Uncategorized \in Chart \ Retirable
  /\ Mappable \in [Feeds -> SUBSET (Accounts \ {Uncategorized})]
  /\ Txns \cup (Txns \X Txns) \subseteq Refs
  /\ Txns \cap (Txns \X Txns) = {}
  /\ \A p \in Postings : p[3] \notin Txns \cup (Txns \X Txns)
  /\ Unmappable \subseteq Feeds
  /\ Pulls \subseteq SUBSET Txns
  /\ ByHand \subseteq Txns \X Txns
  /\ MaxLoaded \in Nat

VARIABLES
  mapping,     \* plaid_local_accounts: the ledger account of each of the provider's
  review,      \* the status of each staged row
  stagedFor,   \* the ledger account copied into the row when it was staged
  candidates,  \* transfer candidates; two of the same legs and status count as one
  imported,    \* plaid_imported_transactions: the entry of each transaction, or 0
  loaded,      \* imports of transfers between their read and their append
  stale        \* history: transactions touched by a command whose page, or whose
               \* read, was out of date

feedVars == <<vars, mapping, review, stagedFor, candidates, imported, loaded, stale>>

FeedTypeOK ==
  /\ TypeOK
  /\ mapping \in [Feeds -> Accounts \cup {Nowhere}]
  /\ review \in [Txns -> Statuses]
  /\ stagedFor \in [Txns -> Accounts \cup {Nowhere}]
  /\ candidates \in SUBSET Candidate
  /\ imported \in [Txns -> 0..Len(entries)]
  /\ loaded \in SUBSET Loaded
  /\ stale \in SUBSET Txns

FeedInit ==
  /\ Init
  /\ mapping = [f \in Feeds |-> Nowhere]
  /\ review = [t \in Txns |-> "unknown"]
  /\ stagedFor = [t \in Txns |-> Nowhere]
  /\ candidates = {}
  /\ imported = [t \in Txns |-> 0]
  /\ loaded = {}
  /\ stale = {}

-----------------------------------------------------------------------------

Legs(c) == {c.legs[1], c.legs[2]}
IsOpen(c) == c.status \in {"pending", "manual"}
OpenWith(t) == {c \in candidates : IsOpen(c) /\ t \in Legs(c)}

\* STAGED_SELECT: the account comes from the mapping as it is now.
Local(t) == mapping[FeedOf[t]]

SetStatus(rows, T, s) == [t \in Txns |-> IF t \in T THEN s ELSE rows[t]]

MarkAs(C, s) == (candidates \ C) \cup {[c EXCEPT !.status = s] : c \in C}

RowOf(m) == [legs |-> m.legs, status |-> m.status]

\* The imports L, when the rows of C are marked or deleted.
Follow(L, C, s) == {IF RowOf(m) \in C THEN [m EXCEPT !.status = s] ELSE m : m \in L}

-----------------------------------------------------------------------------
(* Accounts of the provider and pulls.                                     *)

MapAccount(f, a) ==
  /\ a \in Mappable[f]
  /\ status[a] \in {"active", "inactive"}
  /\ mapping' = [mapping EXCEPT ![f] = a]
  /\ UNCHANGED <<vars, review, stagedFor, candidates, imported, loaded, stale>>

UnmapAccount(f) ==
  /\ f \in Unmappable
  /\ mapping[f] # Nowhere
  /\ mapping' = [mapping EXCEPT ![f] = Nowhere]
  /\ UNCHANGED <<vars, review, stagedFor, candidates, imported, loaded, stale>>

\* detect_transfers forgets what it found before, not what was paired by hand.
Detected == {c \in candidates : c.status = "pending"}
HeldByHand == UNION {Legs(c) : c \in {d \in candidates : d.status = "manual"}}
ReopenedAll(rows) == SetStatus(rows, {t \in Txns : rows[t] = "matched"}, "pending")
Reopened(rows) ==
  SetStatus(rows, {t \in Txns : rows[t] = "matched" /\ t \notin HeldByHand}, "pending")

\* By the account copied at staging time.
Pairable(t, u, rows) ==
  /\ rows[t] = "pending" /\ rows[u] = "pending"
  /\ Amount[t] > 0 /\ Amount[t] = -Amount[u]
  /\ DateOf[t] = DateOf[u]
  /\ stagedFor'[t] # Nowhere /\ stagedFor'[u] # Nowhere /\ stagedFor'[t] # stagedFor'[u]

\* Greedily: no two pairs share a row, and none could be added.
Matching(P, pairs) ==
  /\ \A p, q \in P : p # q => {p[1], p[2]} \cap {q[1], q[2]} = {}
  /\ \A p \in pairs \ P : \E q \in P : {p[1], p[2]} \cap {q[1], q[2]} # {}

Detect(rows) ==
  LET found == {p \in Txns \X Txns : Pairable(p[1], p[2], Reopened(rows))} IN
  \E P \in SUBSET found :
    /\ Matching(P, found)
    /\ candidates' = (candidates \ Detected) \cup {[legs |-> p, status |-> "pending"] : p \in P}
    /\ review' = SetStatus(Reopened(rows), UNION {{p[1], p[2]} : p \in P}, "matched")
    /\ loaded' = Follow(loaded, Detected, "deleted")

\* Neither staged nor imported before.
Fresh(T) == {t \in T : review[t] = "unknown" /\ imported[t] = 0}

Stage(T, new) ==
  /\ stagedFor' = [t \in Txns |-> IF t \in new THEN Local(t) ELSE stagedFor[t]]
  /\ Detect(SetStatus(review, new, "pending"))
  /\ UNCHANGED <<vars, mapping, imported, stale>>

Mapped(T) == {t \in T : Local(t) # Nowhere}

\* stage_transactions: a row of an unmapped account is staged without one.
StageTransactions(T) == Stage(T, Fresh(T))

\* plaid_sync of the local server: a loop of its own.
PlaidSync(T) == Stage(T, Fresh(Mapped(T)))

-----------------------------------------------------------------------------
(* Review.                                                                 *)

CreateManualTransfer(t, u) ==
  /\ <<t, u>> \in ByHand
  /\ t # u
  /\ Local(t) # Nowhere /\ Local(u) # Nowhere /\ Local(t) # Local(u)
  /\ review[t] = "pending" /\ review[u] = "pending"
  /\ Amount[t] \in {Amount[u], -Amount[u]}
  /\ candidates' = candidates \cup {[legs |-> <<t, u>>, status |-> "manual"]}
  /\ review' = SetStatus(review, {t, u}, "matched")
  /\ UNCHANGED <<vars, mapping, stagedFor, imported, loaded, stale>>

\* Whatever became of the candidate or its legs.
RejectTransfer(c) ==
  /\ review' = SetStatus(review, Legs(c), "pending")
  /\ candidates' = MarkAs({c}, "rejected")
  /\ loaded' = Follow(loaded, {c}, "rejected")
  /\ stale' = IF IsOpen(c) THEN stale ELSE stale \cup Legs(c)
  /\ UNCHANGED <<vars, mapping, stagedFor, imported>>

\* retire_staged, as a duplicate or as unwanted: the row's open candidates are
\* rejected, and a row still in review leaves it.
DismissStaged(t) ==
  /\ review[t] # "unknown"
  /\ LET rejected == OpenWith(t)
         rows == SetStatus(review, UNION {Legs(c) : c \in rejected}, "pending")
     IN  /\ candidates' = MarkAs(rejected, "rejected")
         /\ loaded' = Follow(loaded, rejected, "rejected")
         /\ review' = IF rows[t] \in {"pending", "matched"}
                      THEN SetStatus(rows, {t}, "dismissed") ELSE rows
  /\ UNCHANGED <<vars, mapping, stagedFor, imported, stale>>

-----------------------------------------------------------------------------
(* Imports.                                                                *)

ByReferenceOnly(T) == TRUE
NotImported(T) == \A t \in T : imported[t] = 0

FeedEntry(y, ref, lines) ==
  [date |-> y, source |-> "manual", ref |-> ref, void |-> FALSE, lines |-> lines]

SecondNext == Len(entries) + 2
NewEntry == Len(entries) + 1

\* One transaction of the event store: entry, imported rows, statuses.
Import(entry, T) ==
  /\ Room(1)
  /\ NotImported(T)
  /\ MayPost(entry)
  /\ Post(<<entry>>)
  /\ imported' = [t \in Txns |-> IF t \in T THEN NewEntry ELSE imported[t]]
  /\ review' = SetStatus(review, T, "imported")
  /\ UNCHANGED <<status, closed, mapping, stagedFor>>

\* Money leaves the positive leg of an opposite pair, else the asset's.
FromFirst(t, u) ==
  IF Amount[t] = -Amount[u] THEN Amount[t] > 0 ELSE Type[Local(t)] = "asset"

Transfer(from, to) ==
  LET size == IF Amount[from] > 0 THEN Amount[from] ELSE -Amount[from] IN
  FeedEntry(DateOf[from], TransferRef(from, to),
            <<[account |-> Local(from), amount |-> -size],
              [account |-> Local(to), amount |-> size]>>)

\* load_transfer_pair, the legs' accounts and what is made of them.
LoadTransferPair(c) ==
  LET t == c.legs[1]
      u == c.legs[2]
  IN  /\ Cardinality(loaded) < MaxLoaded
      /\ Local(t) # Nowhere /\ Local(u) # Nowhere
      /\ loaded' = loaded \cup
           {[legs |-> c.legs, status |-> c.status,
             entry |-> IF FromFirst(t, u) THEN Transfer(t, u) ELSE Transfer(u, t)]}
      /\ UNCHANGED <<vars, mapping, review, stagedFor, candidates, imported, stale>>

\* The append.  That a leg was imported already is found by the imported table's
\* key; what became of the candidate is not asked, and a deleted one not missed.
ImportTransfer(m) ==
  LET row == {RowOf(m)} \cap candidates
  IN  /\ Import(m.entry, Legs(m))
      /\ candidates' = MarkAs(row, "confirmed")
      /\ loaded' = Follow(loaded \ {m}, row, "confirmed")
      /\ stale' = IF IsOpen(m) THEN stale ELSE stale \cup Legs(m)

\* The append was refused or failed, or the process died.
DropTransfer(m) ==
  /\ loaded' = loaded \ {m}
  /\ UNCHANGED <<vars, mapping, review, stagedFor, candidates, imported, stale>>

AccountAsMapped(t) == Local(t)

\* A row without an account is posted from the uncategorized account to itself.
\* (Its account, too, is read before the lock; nothing else of it can change.)
AccountOrNone(t) == IF Local(t) = Nowhere THEN Uncategorized ELSE Local(t)

Single(t) ==
  FeedEntry(DateOf[t], t,
            <<[account |-> AccountOrNone(t), amount |-> -Amount[t]],
              [account |-> Uncategorized, amount |-> Amount[t]]>>)

ImportSingleStaged(t) ==
  /\ review[t] # "unknown"
  /\ Import(Single(t), {t})
  /\ stale' = IF review[t] = "pending" THEN stale ELSE stale \cup {t}
  /\ UNCHANGED <<candidates, loaded>>

\* deletion_blockers: an account a feed or a staged row points at is not deleted.
PointedAt == {mapping[f] : f \in Feeds} \cup {stagedFor[t] : t \in Txns}

JournalStep ==
  /\ Next
  /\ \A a \in Accounts \cap PointedAt : status'[a] = "deleted" => status[a] = "deleted"
  /\ UNCHANGED <<mapping, review, stagedFor, candidates, imported, loaded, stale>>

FeedNext ==
  \/ JournalStep
  \/ \E f \in Feeds : UnmapAccount(f) \/ \E a \in Accounts : MapAccount(f, a)
  \/ \E T \in Pulls : StageTransactions(T) \/ PlaidSync(T)
  \/ \E t \in Txns : DismissStaged(t) \/ ImportSingleStaged(t)
  \/ \E t, u \in Txns : CreateManualTransfer(t, u)
  \/ \E c \in candidates : RejectTransfer(c) \/ LoadTransferPair(c)
  \/ \E m \in loaded : ImportTransfer(m) \/ DropTransfer(m)

FeedSpec == FeedInit /\ [][FeedNext]_feedVars

-----------------------------------------------------------------------------

Mentions(ref, t) == ref = t \/ \E u \in Txns : ref = TransferRef(t, u) \/ ref = TransferRef(u, t)

\* A bank transaction is on one entry at most, ever, alone or as a leg, and both
\* legs of a transfer are imported by its entry: whatever was paired, rejected
\* and paired again, dismissed, pulled twice, voided and unvoided in between, and
\* whatever page the commands came from, and whatever became of a pair between
\* an import's read and its append.
BookedOnce ==
  \A t \in Txns :
    {e \in Ids : Mentions(entries[e].ref, t)} = IF imported[t] = 0 THEN {} ELSE {imported[t]}

\* Unless a command acted on what was out of date, the four records of a
\* transaction agree: it is matched when one open candidate holds it and only
\* then, imported when it is on an entry and only then, so no candidate left open
\* can bring an imported or dismissed row back or post it.
ReviewAgrees ==
  \A t \in Txns \ stale :
    /\ review[t] = "imported" <=> imported[t] # 0
    /\ IF review[t] = "matched" THEN \E c \in candidates : OpenWith(t) = {c}
       ELSE OpenWith(t) = {}

=============================================================================
