# Accountir: a TLA+ development

Accountir keeps double-entry books as an event log in SQLite. A business is one file: an `events`
table, and projection tables that are the fold of it. Every command decides on the projections and
appends events; a group of people can share one ledger on a server, which their own files follow.

This directory models the parts where several actors, several steps or several years meet, checks
them with TLC on small instances, and proves with TLAPS, for every instance, the safety properties of all
of them but the revert of a batch.
`PROJECT.json` lists the components, the runs, the mutants each property is tested with, the lines
each definition models, the findings, the hazards and the theorems.

## The system

| Part | State it keeps | Operations | Meets |
|---|---|---|---|
| Event store (`store/event_store.rs`) | `events`, the connection's transaction | `append`, `append_checked(_many)`, `append_mirrored`, `get_after_limited`, `latest_id` | every writer |
| Projections (`store/projections.rs`) | some fifty tables | `apply` per event, `rebuild` | event store, inside its transaction |
| Accounts, entries, year ends (`commands/account_`, `entry_`, `closing_`, `fiscal_year_commands.rs`) | `accounts`, `journal_entries`, `journal_lines`, `fiscal_years` | create, deactivate, reactivate, delete; post, void, unvoid, reassign; close, allocate, reopen | each other through the tables; local and sync callers share the `build_..._in_txn` checks |
| Bills, invoices, reconciliation | `bills`, `invoices`, `reconciliations`, `cleared_transactions` | receive, pay, void; start, clear, unclear, complete, abandon | entries under them |
| Registers (depreciation, investments, retirement), revert | their own tables | post a year, sell lots, undo a batch | post and void ordinary entries |
| Bank feeds and imports (`commands/plaid_commands.rs`, the importers) | staged rows, transfer candidates, imported transactions, references | pull, detect, pair, reject, dismiss, import | post entries whose reference makes a second import a duplicate |
| Sync server (`sync/mod.rs`, `sync/commands`) | the group's file | a command with an expected head, pages of the log, adoption | event store |
| Sync client (`sync/client.rs`) | the head it knows | commands with bounded retries, chunked batches | sync server over HTTP |
| Replica (`sync/replica.rs`, `binding.rs`, `adopt.rs`) | the binding row, the mirrored log | bind, adopt, verify, apply, reset, unbind | server log, local write server |
| Local write server (`server/mod.rs`) | which file is attached | `ServerDb::set`, import endpoints | replica binding, event store |
| Tax forms, reports, queries, TUI, CLI, registry, importers of foreign files | none of the ledger's | reads and parsing | |

What is hard: two handlers decide on one head (interleaving); an event and its projection are two
statements (atomicity); a batch fails in the middle, or the process dies in it (partial failure,
crash); a page of the log arrives short, twice, reordered or altered, an adoption's answer is lost,
a server is restored from a backup (delivery, recovery); an entry is voided, its reference taken
again and the entry unvoided, or an ordinary entry of a closed year changes after the close
(sequences of legal calls). What makes each part correct:

- event store: a command takes effect whole, on exactly the state it was checked against, or not at
  all; projections are the fold of the log; the log replays; a command is answered;
- replica: a file that is followed is a prefix of the server's log; a file that has not diverged is
  never offered a destructive reset; it catches up;
- journal: debits equal credits; a reference names one live entry; a closed year has its closing
  entry and is swept of what its own entries left on income, and only of that; reopening undoes all of the close; the
  fence lets one allocation through;
- documents: payments never exceed what is owed; what a document's live entries leave on its control
  account is what its row says is outstanding; one reference, one live debt;
- reconciliation: the cleared rows and the lines' flags say the same, and a balance carries over from
  one statement to the next;
- bank feed: a transaction is on one entry at most, and its status, its candidates, the imported
  table and the journal agree;
- revert: a batch is undone whole, nothing else is, and only once; what still stands is refused only for
  work done since, and a revert can be reverted;
- client: one run posts a row once, whatever fails; what is reported posted is booked; an import ends.

## Modules

| Module | Models | Uses |
|---|---|---|
| `LedgerEvents` | an event as a fact taken or freed, its projection, a command's check | |
| `LedgerLog` | what the store promises: the log grows by whole, permitted batches | `LedgerEvents` |
| `EventStore` | connections, the write lock, head, check, write, commit, rollback, retry | `LedgerEvents`, refines `LedgerLog` |
| `EventStoreLegacy` | the callers that append and project in two calls | `EventStore` |
| `EventStore_proofs` | the theorems | `EventStore` |
| `Replica` | a server, files, the wire, the local writer | |
| `Replica_proofs` | the theorems | `Replica` |
| `Journal` | accounts, entries, fiscal years | |
| `SumLemmas` | what a sum over a finite set is, however it is taken | |
| `Journal_proofs` | the theorems | `Journal`, `SumLemmas` |
| `Debts` | what a document promises of the ledger: incurred whole, paid down, cancelled whole | |
| `Documents` | bills, invoices and their payments | `Journal`, refines `Debts` |
| `Documents_proofs` | the theorems | `Documents`, `Journal_proofs` |
| `Reconciliation` | ticking lines off against statements | `Journal` |
| `Reconciliation_proofs` | the theorems | `Reconciliation`, `Journal_proofs` |
| `BankFeed` | pulled transactions, their review and import | `Journal` |
| `BankFeed_proofs` | the theorems | `BankFeed`, `Journal_proofs` |
| `Revert` | undoing a range of events | `Journal` |
| `SyncClient` | clients that import through a server | |
| `SyncClient_proofs` | the theorems | `SyncClient` |
| `MC...` | the small instances | |

**LedgerEvents, LedgerLog, EventStore.** What a concurrent command can get wrong is an exclusive
fact: an account number, a live reference, an active service address, the reconciliation in progress
on an account, the closed flag of a year. An event is such a key taken or freed, and the projections
are the keys held. `EventStore` has one action per step that another connection can see between:
`ReadHead` (outside the transaction), `Begin` (`BEGIN IMMEDIATE`, after which `wevents` and `wheld`
are the transaction's own view), `Retry`/`Conflict`/`Reject`/`Admit` (the comparison of the head and
the check), `WriteOne`/`WriteFails` (one event inserted and projected), `Commit`, `Abort` (an I/O
error or the death of the process), `Busy` (the busy timeout). Local handlers read the head and
start over when it moved; a sync request brings any earlier head and gets a 409. `WriteFails` is the
guard that a check did not cover a batch's own second event.

**EventStoreLegacy** adds `append` followed by `apply_projection`, both autocommitted, as GnuCash
import, Plaid and event services call them.

**Replica.** The position of an event is its id, its value stands for content and hash; hashes are
not chained. `Event.by` is who authored it. `page[l][t]` is the answer a tick has in flight; two
ticks may overlap. `Distort` loses, repeats, reorders or alters items, which `append_mirrored`
refuses as a gap (`ApplyGap`, harmless) or a mismatch (`ApplyMismatch`, divergence). `offer` and
`reply` are an adoption under way and its answer. The program that opens, ticks and closes files is
the desktop application, outside this repository: `Open`, `Close` and `StopSyncing` are external and
follow `replica.rs`'s documentation; that it detaches a file from the write server before it binds
it is an assumption, in `Connect`. `Settings` are the events whose rows of tables outside `rebuild`
reference `events(id)`, which a reset then cannot delete. `RestoreAnyTime` lets the server be restored
while a file is open; the runs set it `FALSE` (see Disagreements).

**Journal.** One action is one appended command, its guard the check under the write lock, its
effect the projection; `EventStore_proofs` is the reason a check and its effect may be one step. A
date is a fiscal year, the account types are asset, equity and income (revenue and expense alike),
amounts are signed units. `CloseBooks` posts the closing entry, and for a partnership the allocation
with it, both checked before the fence goes up; `AllocateToPartners` posts the allocation later, past
the fence; `ReopenBooks` voids both and lowers it. Left out: an account's fields, number and parent,
the sweep of draws, the tax line a close sets, a split among several partners (arithmetic that adds
back to the result), overlapping or odd fiscal years, a user's own reference that reads `close-2023`.

The four modules below extend `Journal`: their next-state relation has a `JournalStep`, all of the
journal's own commands, so every interleaving of the two is there.

**Documents, Debts.** A document is a row with its amount, what is paid, a status and the entries
under it; a bill credits a payable, an invoice debits a receivable. `Issue`, `ApplyPayment` and
`VoidDocument` are each one append of two events. The payment names its own control account, as the
command does. The journal's commands do not know documents, so an entry under one may be voided,
unvoided or moved; `touched` is the history of that, and the properties that relate ledger and rows
are stated of documents none of whose entries was touched. `Debts` is the abstract specification:
`DebtsOfLedger` maps a document to what its live entries leave on its control account, and to
"disputed" for good once touched. References made of a fresh id never meet again and are none.

**Reconciliation.** A cleared line is a row of its reconciliation and a flag on the line. The command
to clear asks only that the reconciliation is in progress and that it has not the line yet; the
screen offers uncleared live lines of the account. `ClearTransaction` is the command, with any line;
`odd` is the history of accounts on which it was used otherwise than from the screen, or whose
cleared lines were voided, moved or abandoned afterwards, and what is promised is promised of the
others. A recorded line keeps its amount at the time; completing records the difference and refuses
none.

**BankFeed.** The fate of a bank transaction is kept in four places: `review`, `candidates`,
`imported` and the reference of its entry. Only the import of an entry runs under the event store's
checks. The commands of the review take whatever id a page sends, so every action takes any
transaction or candidate; `stale` is the history of those a page could no longer have offered. The
import of a transfer is two steps: `LoadTransferPair` reads the pair, before the lock and once for all
retries, and `ImportTransfer` appends what it made of it, if the schema and the ledger let it, while the
candidate may have been rejected, confirmed or deleted; `loaded` keeps what was read, with the candidate's
row as that is by now, and a transfer of a row that moved on is stale too.
`Detect` is all of `detect_transfers`, run at the end of each pull (`StageTransactions`, and the local
server's own loop `PlaidSync`, which skips unmapped accounts); any greedy matching may come of it, as
the order of equal dates is the database's. Dates within one year are near enough to pair. Left out:
pairs of the same sign found by detection (they can be paired by hand), split feeds, investment
accounts, disconnecting, the heuristic that holds booked duplicates back, the older import without
a review.

**Revert.** `log` is the journal's events in the order the commands append them. `Revert(lo, hi)` is
plan and append: every event of the range of a kind that has an inverse and still standing, the
inverses newest first, and the two things of the schema that can make the append fail, asked after each
event is projected: the unique index on live references and the foreign key of a line to its account.
Nothing else is asked, in particular not what `Journal`'s commands ask. `RefusedForLaterWork` says when
those two stop a plan that stands: exactly when an entry that came to life since bears a reference the
range gave up, or an account it moved a line off is deleted, and never for the range's own doing.
`RevertCanBeReverted` is the promise that a revert is ordinary history. How a range is recovered from the times of events, for
the screen, is left out.

**SyncClient.** Requests are on `wire` until the server serves them; a client that gave up leaves its
request there, to arrive late or never. `Serve` is `submit_post_entries`: malformed entries skipped
before the lock, the head compared, references claimed by the batch or booked, the fence, one append.
`OnConflict`, `OnAnswer` and `OnError` are the loop over chunks with its bounded retries. `Rerun` is
the caller of `post_entries_reporting`, which its documentation tells to record what landed and to
try the rest. Other members close or reopen the year and void entries. A batch has rows, and a chunk
holds at least one: an import of no rows sends nothing, and the server refuses an empty list. The rows
still to be asked for are put in order by `Ascending` and `At`, which are written out because the
community modules' sorting and selecting are recursive operators.

## Runs and what they show

| Run | Instance | Shows |
|---|---|---|
| `EventStore` | two local handlers and one sync connection, two keys, batches of one and two events, three events before no command starts | type, `ProjectionsMatchLog`, `LogReplays`, `CommitsAtExpectedHead`, refinement of `LedgerLog`, `EveryCommandEnds` |
| `Replica` | two files with two ticks each, pages of two, three events, two faults | type, `LogsAgree`, `FollowedIsPrefix`, `NoFalseAlarm` |
| `ReplicaLive` | one file, two ticks, four events | `CatchesUp` |
| `Journal` | five accounts, two years, four entries | type, `ClosedHasItsEntry`, `RefsUnique`, `BooksBalance`, `LinesHaveAccounts`, `CloseSweepsItsYear`, `ReopenUndoesClose`, `FenceAdmitsAllocation` |
| `Documents` | three documents, four entries, one reference | type, `LedgerAgrees`, `PaymentsAddUp`, `OneLiveBillPerReference`, refinement of `Debts` |
| `Reconciliation` | one bank account, two entries, three reconciliations | type, `OneInProgress`, `FlagsTellRows`, `BeginningCarriesOver`, `FinishedIsFrozen` |
| `BankFeed` | three transactions of two accounts, two entries, one import under way | type, `BookedOnce`, `ReviewAgrees` |
| `Revert` | seven events, three entries | `RefusedForLaterWork`, `RevertCanBeReverted`, `RevertRestores`, `RevertedOnce` |
| `SyncClient` | two clients with three rows each, chunks of two, one retry, two faults | type, `PostedIsBooked`, `OncePerRun`, `ImportsEnd` |
| `EventStoreLegacy` | one checked, one legacy connection | violated: a check sees a log that leads its projections |
| `ReconciliationFlags` | as `Reconciliation` | violated: a flagged line belongs to a reconciliation |
| `RevertFence` | as `Revert` | violated: a closed year has its closing entry |

Bounds. *EventStore*: two keys and three writers give a race on one fact, a race on unrelated facts
and a third party that moves the head; batches of two give the failure between two events; the
theorems lift all of these bounds but liveness. *Replica*: three events are what a fork needs (a
common one, and one on each side), pages of two what a reordering needs, two ticks what a stale page
needs, two files what two adoptions need; `MaxFaults` 2 lets a loss follow an alteration. Files and
ticks are interchangeable, so the safety run uses their symmetry; the liveness run does not.
*Journal*: four entries are an ordinary entry, a close, its allocation and one more of any of them:
a second close after a reopening, a second year's entry or its close. Two years are what opening
balances need; revenue and expense what a result of zero needs. `Postings`, `Moves`, `ClosedInto`
and `Retirable` bound which accounts the inputs name, not what the commands do; the moves are from
income to income, from the year's account to a partner's, and from it onto income, which is what an
allocation unvoided by itself needs to reach the next close. *Documents*: a bill of
two units is paid in two parts; three documents are a bill, the same reference again after a void,
and an invoice beside them; the fourth entry is a payment, a second one or a close. *Reconciliation*:
two deposits are one cleared now and one next time; the third reconciliation begins with what the
second left, which may be one abandoned. *BankFeed*: two outgoing rows and one incoming compete for a
leg; two entries are a single import and a transfer of the same leg, which must never both be; one
import between read and append is overtaken by any other command; only the incoming account is ever
unmapped (`Unmappable`), which stages its row without an account and takes a pair's second account away.
*Revert*: seven events are post, void, post again, a move and back, and their reverts, and a close is
three of them. *SyncClient*: three rows in chunks of two give a second chunk of another length; each
fault, conflict beyond the one retry, or late request costs one run, so that five runs are never
exhausted; one other command moves the head between any two requests.

Deadlock is checked where a bounded system can always move. The EventStore and Replica runs turn it
off: after the bound on events no command need start, and nothing obliges one to. So do
Reconciliation and Revert, in which everything may be reconciled, or every event be spent.

Fairness. `EventStore!FairSpec` has weak fairness of each connection's own next step: a handler is a
straight-line function on its thread, and waiting for the lock ends in the lock or in the busy
timeout. `EveryCommandEnds` assumes in addition that other commands stop committing, because the
retry loop of a handler has no bound of its own. `Replica!FairSpec` has weak fairness of
verification, of each tick's request and of handling its answer (a lost answer is a page of no
items): the driver ticks while the file is followed. `SyncClient!FairSpec` has weak fairness of each
client's loop, which runs to its end on its own, of the server serving a client's request, and, in
`Rerun`, of somebody running a stopped import again; failures are bounded, and each is answered by
one more run. Nothing makes a caller issue any other command, a server fail or a user close a file.

## What is proved

`EventStore_proofs` proves, for any finite or infinite sets of connections, keys and batches and any
bound, with TLAPS:

- `TypeCorrect`: `Spec => []TypeOK`;
- `ProjectionsCorrect`: `Spec => []ProjectionsMatchLog`;
- `ReplaySucceeds`: `Spec => []LogReplays`;
- `HeadCompared`: `Spec => CommitsAtExpectedHead`;
- `Implements`: `Spec => ImplementsLedgerLog`, the refinement.

The assumptions are those of the modules: batches are sequences of events, no connection is both
local and remote, `NoWriter` is no connection. None of the invariants is inductive alone: a commit
publishes what the transaction saw, so `IInv` also says that the lock is held by exactly the
connection that is checking or writing (`Locking`), that its view is the committed log and tables
plus the events already written, folded (`Viewing`), and that what it writes passed its check on the
committed state with the head unchanged (`Batching`). The lemmas about `After` (a prefix decides, one
more event is one more fold, appending) carry the data; `CommitStep` and `OutsideStep` say a step
either extends the log by a whole batch or changes nothing outside, which gives both `HeadCompared`
and the refinement.

`Replica_proofs` proves, for any number of files, ticks, faults and events and pages of any size:

- `TypeCorrect`: `Spec => []TypeOK`;
- `ReplicaLogsAgree`: `~RestoreAnyTime` implies `Spec => []LogsAgree`;
- `ReplicaFollowsPrefix`: `~RestoreAnyTime` implies `Spec => []FollowedIsPrefix`;
- `ReplicaRaisesNoFalseAlarm`: `Spec => NoFalseAlarm`.

`TypeOK` bounds the length of a log by the events authored, which is inductive only with `Numbered`: a
log that grows by authoring and copying has its i-th event numbered i or more, on the wire too. The
logs' agreement is `AgreeInv`: any two of the server's log, the files' and the ones offered for
adoption agree up to the last number at which they hold one event (`AllAgree`), what each file's status
lets it do (`Roles`), an item in flight, altered or not, bears the hash the server has at its number
(`PagesFit`), and a followed file is the beginning of the server's log (`FollowedBegins`). A server restored while a file is open
breaks `PagesFit`: without the hypothesis the two theorems are false (see Disagreements). The absence of
false alarms needs neither: it is a property of one step, from the types alone.

`SumLemmas` is what makes balances provable. A sum of the community modules is a function, chosen, that
satisfies a recursion over the subsets of the set it adds up; the lemmas show that one exists and is
unique, and from there that a sum may be taken in any order, split, mapped and negated. The library's
induction on finite sets takes the statement as an operator parameter and cannot be cited; the
induction here is by a smallest counterexample among the subsets (`SmallestSet`), a fact of the first
order.

`Journal_proofs` proves, for any finite chart of accounts, any years, inputs and bounds:

- `ReferencesUnique`: `Spec => []RefsUnique`;
- `ClosedYears`: `Spec => []ClosedHasItsEntry`;
- `AccountsKept`: `Spec => []LinesHaveAccounts`;
- `ReopenUndone`: `Spec => ReopenUndoesClose`;
- `JournalTypeCorrect`: `Spec => []TypeOK`;
- `BooksAlwaysBalance`: `Spec => []BooksBalance`;
- `FenceHolds`: `Spec => FenceAdmitsAllocation`;
- `CloseSweepsTheYear`: `Spec => CloseSweepsItsYear`: every close leaves every income account at zero at
  its year's end and carries forward what that year's entries left on income, and no earlier year's.

The assumptions are `JournalAssumption`: among them that ordinary references are not a year end's.
`IInv` is the three invariants and two more. `Shape` is the type invariant without the claim that
amounts are integers. `AllNamed` says that a closing entry has one of its year's two references and
that no other entry has them; without it neither the guard of `VoidEntry`, which asks for a source and
a date, would protect the entry that `ClosedHasItsEntry` finds by reference, nor would `ReopenBooks`,
which voids by reference, be known to void all that the close posted. `Books` adds that each entry's
lines are integers and add up (`AllBalanced`): the closing entry's lines are the negated balances and
their sum, so their type and their balance rest on every entry's. `PostStep` and `VoidStep` carry every
command that posts or voids; `ReopenVoids` is the step of the action property.

`CloseSweepsItsYear` compares a close with all live entries dated in its year (`Movement`), its earlier
years' closes being what keeps their results out (`YearSplit`). It holds for any moves of lines, which the
code does not restrict by type. One consequence is worth knowing: a year is closed with an allocation and
reopened, the voided allocation is unvoided by itself, its line is moved onto an income account, and the
year is closed again: the close carries that line with the year's result. It is dated in the year and on
an income account, but nobody earned it (see Disagreements). The run's moves reach this.

`Documents_proofs` proves, for any documents, payments and journal:

- `DocumentsTypeCorrect`: `DocSpec => []DocTypeOK`;
- `DocumentsKeepJournal`: `DocSpec => [](RefsUnique /\ ClosedHasItsEntry /\ LinesHaveAccounts /\ BooksBalance)`;
- `DocumentsAddUp`: `DocSpec => []PaymentsAddUp`;
- `OneLiveBill`: `DocSpec => []OneLiveBillPerReference`;
- `LedgerAgreement`: `ControlApart` implies `DocSpec => []LedgerAgrees`;
- `DocumentsAreDebts`: `ControlApart` implies `DocSpec => ImplementsDebts`, the refinement.

`DocBooks` is the journal's `Books` with what rows and entries say of each other: each document and each
payment has an entry of its own, and the payments add up. `AsPosted` is that an entry nobody touched
puts on the control account what its row says, and lives while the row does. `ControlApart` says that
the other side of a document, and the account it is paid from, are no control account of its kind. The
commands do not check it: a bill whose expense is the payable itself posts an entry that nets to
nothing, and the ledger then owes nothing while the row is outstanding.

`Reconciliation_proofs` proves, for any accounts and any number of reconciliations over any journal:

- `ReconciliationTypeCorrect`: `RecSpec => []RecTypeOK`;
- `OneAtATime`: `RecSpec => []OneInProgress`;
- `FlagsFollowRows`: `RecSpec => []FlagsTellRows`;
- `FinishedStays`: `RecSpec => FinishedIsFrozen`;
- `BeginningCarries`: `RecSpec => []BeginningCarriesOver`.

`RecBooks` adds to the journal's `Books` that a reconciliation in progress is its account's last
(`InOrder`), and, of accounts that are not odd, that a row is of a live, flagged line at its amount
(`RowsTold`), of one reconciliation only (`RowsApart`), and that a flag has a row (`FlagsHaveRows`). The
carried balance needs one invariant more, `Carries`: what a completed statement explains is the sum of
all rows up to it, which no later step changes while the account is not odd.

`SyncClient_proofs` proves, for any clients, batches, chunks, retries, faults and runs:

- `SyncClientTypeCorrect`: `Spec => []TypeOK`;
- `PostedMeansBooked`: `Spec => []PostedIsBooked`;
- `NoRunPostsTwice`: `Spec => []OncePerRun`.

Both safety properties are about requests that outlive the client that sent them. `IInv` says that a run
has one request on the wire at most, for the rows after those it was answered for; that the rows on the
wire, and the rows not asked for yet, have no entry of that run; that an answer has a verdict for each
row asked, and that a row it calls posted is booked. A conflict is the one answer after which a
request may be sent again within a run: the server compares the head before it writes, so the rows are
known to be unwritten. `Verdict` tries its cases in the order of the code, because for a row both
malformed and claimed two of them hold.

`BankFeed_proofs` proves, for any finite set of transactions, any accounts, mappings, pulls, pairings
by hand and bounds:

- `TransactionsBookedOnce`: `FeedSpec => []BookedOnce`;
- `ReviewConsistent`: `FeedSpec => []ReviewAgrees`;
- `FeedTypeCorrect`: `FeedSpec => []FeedTypeOK`;
- `FeedKeepsJournal`: `FeedSpec => [](RefsUnique /\ ClosedHasItsEntry /\ LinesHaveAccounts /\ BooksBalance)`.

The assumptions are `JournalAssumption` and `BankFeedAssumption`: among them that no ordinary posting
bears a bank transaction's reference and that the uncategorized account is never retired. The
inductive invariant `FeedInv` is the journal's own (`IInv`), the shape of the four records, of the imports
under way that each carries an entry of its legs and, unless its row was marked or deleted since, an open
candidate (`Loads`), and the two properties together: that detection pairs only rows no open candidate holds rests on `ReviewAgrees`,
and that `review` says imported exactly of what is booked rests on `BookedOnce`. `FeedBooks` adds that
the imported entries balance. `PostKeeps` of `Journal_proofs` carries an import's entry through the
journal's invariant, `JournalKeepsRefs` says that no journal command gives an entry another reference;
`Mentioned` that a reference mentions its own transactions only. There is one lemma per command of the
review (`DetectStep`, `StageStep`, `ManualStep`, `RejectStep`, `DismissStep`, `LoadStep`,
`ImportTransferStep`, `ImportSingleStep`).

## What is only model-checked

Liveness (`EveryCommandEnds`, `CatchesUp`, `ImportsEnd`): fairness and `ENABLED` are out of the prover's
reach. `RefusedForLaterWork`, `RevertCanBeReverted`, `RevertRestores` and `RevertedOnce` of the run
`Revert`: the effect of a batch of inverses is a left fold over a sequence of events, for which there are no lemmas
yet. No module a theorem reaches declares a recursive operator.

## Findings

Each violated run quotes, in `findings` of `PROJECT.json`, the sentence of the sources it contradicts.

- `EventStoreLegacy`: legacy appends let a check see an event that is not projected yet.
- `ReconciliationFlags`: abandoning a reconciliation deletes its rows and leaves their lines flagged;
  they are never offered again and count in every later beginning balance.
- `RevertFence`: reverting the posting of a closing entry voids it while its year is closed, which the
  command to void refuses by name.

Disagreements met while reading, which no run states:

- the check of the open-time verification compares one hash at the head, and hashes are not chained
  (`sync/replica.rs:160-171`): once a server is restored while a file is open, and grows past it, the
  file is followed across the fork. `FollowedIsPrefix` fails when `RestoreAnyTime` is `TRUE`;
- a reset, "the only offered recovery from divergence" (`sync/replica.rs:201-203`), fails on the foreign
  keys of six tables it does not empty (`store/migrations.rs:523, 533, 544, 847, 859, 894`);
- an unbound file can be attached and written again (`sync/binding.rs:241-248` says it cannot);
- an entry of a closed year can be voided, unvoided and moved (`entry_commands.rs:598-674`), so a year
  does not stay swept (`closing_commands.rs:8-11`), and a voided allocation can be unvoided by itself
  (`closing_commands.rs:2601-2602` says no stale split is left);
- an entry whose reference an earlier entry of its batch claimed is reported to exist even when that
  earlier one was refused (`sync/commands/entries.rs:189-203`);
- the local server's own pull skips a transaction of an unmapped account for good, where the delegated
  one stages it (`server/mod.rs:1519-1524`, `plaid_commands.rs:1134-1143`);
- a transfer's import reads its pair outside the transaction and does not read it again on a retry
  (`plaid_commands.rs:636-639`, `718`): a pull that detects in between deletes the candidate and may leave
  a new open one on rows that are then imported. It cannot be imported, but stops the import of
  everything (`plaid_commands.rs:985`) until the next pull, or until it is rejected, which returns the rows
  to pending;
- the inverses are in newest-first order because "where one batch touched a line twice only that order
  returns it to where it started" (`revert_commands.rs:334-335`); a range that touched a line twice is
  always refused, as each of its events is compared with the row as it is now. The order matters for a void
  and a post of one reference (`RefusedForLaterWork`);
- "a revert is ordinary history, so it can be reverted in turn" (the test at `revert_commands.rs:651`), but
  the revert of a void is an unvoid, which has no inverse: `RevertCanBeReverted` excludes voids.

## Not modelled

Tax forms and reports (arithmetic over reads), the terminal interface and command line, parsers of
foreign files, the registry, the Merkle tree, migrations, and the settings commands that store one
row each. Registers (depreciation, investments, retirement) post ordinary entries; that a year's
depreciation is replaced by a void and a post in two appends is a hazard no run covers. Fiscal years
of overlapping dates; rows of a log this build cannot parse, which a page leaves out
(`event_store.rs:173`); the tables of a bank connection that `Projector::rebuild` empties with it.

Most of the source is of these kinds: of some 166 thousand lines, tax forms, investments, the
terminal interface, the command line and tests are the greater part.

## Plan

Done, in order: the event store with its abstract specification and proofs; the replica; the journal;
documents with their abstract specification; reconciliation; the client; the bank feed; revert; the
proofs of all but the last.

Next, proofs: `RevertRestores`, from lemmas that unroll the fold of the inverses and an invariant that
relates the log to the rows; `RevertedOnce`, from the first event of a range, whose inverse is applied
last, no longer standing afterwards.

Next, models: depreciation's two appends over `Journal`; overlapping fiscal years; the Merkle tree
against a reference definition.
