----------------------------- MODULE EventStore ------------------------------
(***************************************************************************)
(* src/store/event_store.rs: appending to the ledger from several          *)
(* connections.  A command handler reads the head, opens an IMMEDIATE      *)
(* transaction (SQLite's write lock), compares the head again, runs its    *)
(* check on the projections, then inserts and projects its events one by   *)
(* one and commits.  Until the commit its rows are visible to itself       *)
(* alone; an error, or the death of the process, rolls them all back.      *)
(*                                                                         *)
(* Two kinds of caller: a local handler (the TUI, the CLI, the extension   *)
(* server) reads the head itself and starts over when it moved; a request  *)
(* of the sync server brings the head its client knew, however old, and is *)
(* answered 409 when it moved.                                             *)
(***************************************************************************)
EXTENDS LedgerEvents

CONSTANTS
  Local,     \* connections of local command handlers
  Remote,    \* connections serving sync requests
  NoWriter,  \* the write lock is free
  MaxLog     \* bound: no command starts on a log this long

Writers == Local \cup Remote

ASSUME WritersAssumption ==
  /\ Local \cap Remote = {}
  /\ NoWriter \notin Writers
  /\ MaxLog \in Nat

VARIABLES
  events,    \* the events table, in id order
  held,      \* the projection tables
  pc,        \* what each connection is doing
  cmd,       \* the events its command composes
  head,      \* its expected head sequence
  lock,      \* the holder of SQLite's write lock
  wevents,   \* the events table as the open transaction sees it
  wheld,     \* the projection tables as the open transaction sees them
  done       \* how many events of its batch the transaction has written

vars == <<events, held, pc, cmd, head, lock, wevents, wheld, done>>

\* Types: ids and counts are naturals, a command is one of the batches or none.
NoCommand == << >>

TypeOK ==
  /\ events \in Seq(Event)
  /\ held \in SUBSET Keys
  /\ pc \in [Writers -> {"idle", "head", "begin", "check", "write"}]
  /\ cmd \in [Writers -> Batches \cup {NoCommand}]
  /\ head \in [Writers -> Nat]
  /\ lock \in Writers \cup {NoWriter}
  /\ wevents \in Seq(Event)
  /\ wheld \in SUBSET Keys
  /\ done \in Nat

Init ==
  /\ events = << >>
  /\ held = {}
  /\ pc = [w \in Writers |-> "idle"]
  /\ cmd = [w \in Writers |-> NoCommand]
  /\ head = [w \in Writers |-> 0]
  /\ lock = NoWriter
  /\ wevents = << >>
  /\ wheld = {}
  /\ done = 0

-----------------------------------------------------------------------------

\* A local handler is called with a command.
StartLocal(w, b) ==
  /\ pc[w] = "idle"
  /\ Len(events) < MaxLog
  /\ pc' = [pc EXCEPT ![w] = "head"]
  /\ cmd' = [cmd EXCEPT ![w] = b]
  /\ UNCHANGED <<events, held, head, lock, wevents, wheld, done>>

\* A sync request arrives with the head its client last heard of.
StartRemote(w, b, known) ==
  /\ pc[w] = "idle"
  /\ Len(events) < MaxLog
  /\ pc' = [pc EXCEPT ![w] = "begin"]
  /\ cmd' = [cmd EXCEPT ![w] = b]
  /\ head' = [head EXCEPT ![w] = known]
  /\ UNCHANGED <<events, held, lock, wevents, wheld, done>>

LastIndex(s) == Len(s) - 1

\* COALESCE(MAX(id), 0): ids count from 1 and leave no gap.
LatestId(s) == Len(s)

\* The head is read outside any transaction.
ReadHead(w) ==
  /\ pc[w] = "head"
  /\ head' = [head EXCEPT ![w] = LatestId(events)]
  /\ pc' = [pc EXCEPT ![w] = "begin"]
  /\ UNCHANGED <<events, held, cmd, lock, wevents, wheld, done>>

OpenTxn(w) ==
  /\ pc[w] = "begin"
  /\ lock' = w
  /\ wevents' = events
  /\ wheld' = held
  /\ done' = 0
  /\ pc' = [pc EXCEPT ![w] = "check"]
  /\ UNCHANGED <<events, held, cmd, head>>

\* BEGIN IMMEDIATE: the write lock, and a view of all that is committed.
Begin(w) ==
  /\ lock = NoWriter
  /\ OpenTxn(w)

\* The transaction is over: its view is gone, its lock is free.
CloseTxn ==
  /\ lock' = NoWriter
  /\ wevents' = << >>
  /\ wheld' = {}
  /\ done' = 0

\* The caller has its answer.
Answer(w) ==
  /\ pc' = [pc EXCEPT ![w] = "idle"]
  /\ cmd' = [cmd EXCEPT ![w] = NoCommand]
  /\ head' = [head EXCEPT ![w] = 0]

\* The transaction is dropped, and its rows with it.
Rollback(w) == CloseTxn /\ Answer(w) /\ UNCHANGED <<events, held>>

\* busy_timeout runs out while another connection holds the write lock.
Busy(w) ==
  /\ pc[w] = "begin"
  /\ lock # NoWriter
  /\ Answer(w)
  /\ UNCHANGED <<events, held, lock, wevents, wheld, done>>

\* The log moved since the caller read its head: a handler starts over.
Retry(w) ==
  /\ w \in Local
  /\ pc[w] = "check"
  /\ head[w] # LatestId(wevents)
  /\ CloseTxn
  /\ pc' = [pc EXCEPT ![w] = "head"]
  /\ UNCHANGED <<events, held, cmd, head>>

\* ... and a sync request is answered with the head it should have had.
Conflict(w) ==
  /\ w \in Remote
  /\ pc[w] = "check"
  /\ head[w] # LatestId(wevents)
  /\ Rollback(w)

Reject(w) ==
  /\ pc[w] = "check"
  /\ head[w] = LatestId(wevents)
  /\ ~Check(cmd[w], wheld)
  /\ Rollback(w)

Accept(w) ==
  /\ pc[w] = "check"
  /\ Check(cmd[w], wheld)
  /\ pc' = [pc EXCEPT ![w] = "write"]
  /\ UNCHANGED <<events, held, cmd, head, lock, wevents, wheld, done>>

\* The head is the expected one and the check passes: the batch is fixed.
Admit(w) ==
  /\ head[w] = LatestId(wevents)
  /\ Accept(w)

\* Some event of the batch is still to be written.
Writing(w) == pc[w] = "write" /\ done < Len(cmd[w])

Write(w) ==
  /\ Writing(w)
  /\ wevents' = Append(wevents, cmd[w][done + 1])
  /\ wheld' = Fold(cmd[w][done + 1], wheld)
  /\ done' = done + 1
  /\ UNCHANGED <<events, held, pc, cmd, head, lock>>

\* INSERT the next event and project it, inside the transaction.
WriteOne(w) ==
  /\ Writing(w)
  /\ Projects(cmd[w][done + 1], wheld)
  /\ Write(w)

\* The projection fails on a constraint: the whole batch goes.
WriteFails(w) ==
  /\ Writing(w)
  /\ ~Projects(cmd[w][done + 1], wheld)
  /\ Rollback(w)

Publish(w) ==
  /\ pc[w] = "write"
  /\ events' = wevents
  /\ held' = wheld
  /\ CloseTxn
  /\ Answer(w)

Commit(w) ==
  /\ done = Len(cmd[w])
  /\ Publish(w)

\* An I/O error, or the process dies: an open transaction is rolled back.
Abort(w) ==
  /\ pc[w] # "idle"
  /\ Answer(w)
  /\ IF lock = w THEN CloseTxn ELSE UNCHANGED <<lock, wevents, wheld, done>>
  /\ UNCHANGED <<events, held>>

-----------------------------------------------------------------------------

AppendChecked(w) ==
  \/ Begin(w) \/ Busy(w) \/ Conflict(w) \/ Reject(w) \/ Admit(w)
  \/ WriteOne(w) \/ WriteFails(w) \/ Commit(w)

\* The steps a connection takes by itself once its command is under way.
Proceed(w) == ReadHead(w) \/ Retry(w) \/ AppendChecked(w)

Next ==
  \/ \E w \in Local, b \in Batches : StartLocal(w, b)
  \/ \E w \in Remote, b \in Batches : \E n \in 0..Len(events) :
       StartRemote(w, b, n)
  \/ \E w \in Writers : Proceed(w) \/ Abort(w)

Spec == Init /\ [][Next]_vars

(***************************************************************************)
(* A handler runs straight through on its own thread, and waiting for the  *)
(* write lock ends in Begin or in Busy: each connection's next step is     *)
(* eventually taken.  Nothing makes a caller issue a command.              *)
(***************************************************************************)
FairSpec == Spec /\ \A w \in Writers : WF_vars(Proceed(w))

-----------------------------------------------------------------------------

\* The projections are the fold of the log, at every instant any connection
\* can look: the log never leads them, and they never lead the log.
ProjectionsMatchLog == held = After(events, Len(events), {})

\* Replaying the log from nothing, as a rebuild or a new replica does, never
\* stops at an event whose projection fails: no key is taken while it is held,
\* so no two concurrent commands both passed their check on it.
LogReplays ==
  \A n \in DOMAIN events : Projects(events[n], After(events, n - 1, {}))

\* A commit extends exactly the log whose head its caller named, by exactly
\* the events the caller's check returned: of several callers that decided
\* on the same head at most one can append.
CommitsAtExpectedHead ==
  [][events' # events =>
       \E w \in Writers : head[w] = LatestId(events) /\ events' = events \o cmd[w]]_vars

\* Seen from outside, each command happens in one step or not at all.
Ledger == INSTANCE LedgerLog WITH log <- events
ImplementsLedgerLog == Ledger!Spec

\* Every command is answered once other commands stop committing: a handler
\* starts over only because one of them moved the log, and the wait for the
\* write lock is bounded.  (Against an endless stream of commits the retry
\* loop of a handler has no bound of its own.)
EveryCommandEnds ==
  <>[][events' = events]_events =>
     \A w \in Writers : pc[w] # "idle" ~> pc[w] = "idle"
=============================================================================
