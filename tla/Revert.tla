-------------------------------- MODULE Revert --------------------------------
(***************************************************************************)
(* src/commands/revert_commands.rs: undoing a range of events by appending *)
(* their inverses, newest first, over the commands of Journal.             *)
(*                                                                         *)
(* A revert asks of each event whether it was overtaken, and none of the   *)
(* questions the command that does the same thing asks.  What stops it     *)
(* otherwise is the schema: the index on live references and the foreign   *)
(* key of a line to its account, on which the append's projection fails    *)
(* and takes the whole append with it.                                     *)
(*                                                                         *)
(* Any range may be named; recovering one keystroke's range from the       *)
(* events' times is a matter of display.  Overtaken events, the plan and   *)
(* the append are one step under the write lock (EventStore).              *)
(***************************************************************************)
EXTENDS Journal

CONSTANT MaxEvents  \* bound: events ever appended

ASSUME RevertAssumption == MaxEvents \in Nat

VARIABLE log  \* the events of the journal, in id order

revertVars == <<vars, log>>

\* revertible_kind.
Revertible == {"posted", "voided", "reassigned"}

RevertInit == Init /\ log = << >>

-----------------------------------------------------------------------------
(* The events the journal's own commands append.                           *)

Posted == [k \in 1..(Len(entries') - Len(entries)) |->
             [kind |-> "posted", entry |-> Len(entries) + k, row |-> entries'[Len(entries) + k]]]

Flipped(v) == {e \in Ids : entries[e].void # v /\ entries'[e].void = v}

OfEach(kind, E) ==
  LET newestFirst == SetToSortSeq(E, >)
  IN  [k \in DOMAIN newestFirst |-> [kind |-> kind, entry |-> newestFirst[k]]]

MovedLines ==
  {l \in UNION {{e} \X DOMAIN entries[e].lines : e \in Ids} :
     entries[l[1]].lines[l[2]].account # entries'[l[1]].lines[l[2]].account}

Reassigned ==
  SetToSeq({[kind |-> "reassigned", entry |-> l[1], line |-> l[2],
             old |-> entries[l[1]].lines[l[2]].account,
             new |-> entries'[l[1]].lines[l[2]].account] : l \in MovedLines})

\* Accounts created or retired, years closed and reopened.
Others == IF <<status, closed>>' = <<status, closed>> THEN << >> ELSE <<[kind |-> "other"]>>

\* A year end voids its allocation before its close; posts come before the fence.
JournalStep ==
  /\ Next
  /\ log' = log \o Posted \o OfEach("voided", Flipped(TRUE))
                \o OfEach("unvoided", Flipped(FALSE)) \o Reassigned \o Others
  /\ Len(log') <= MaxEvents

-----------------------------------------------------------------------------
(* Reverting.                                                              *)

\* plan_revert: is the ledger still as this event left it?
Stands(ev) ==
  CASE ev.kind = "posted" -> Live(ev.entry)
    [] ev.kind = "voided" -> ~Live(ev.entry)
    [] ev.kind = "reassigned" -> entries[ev.entry].lines[ev.line].account = ev.new

OppositeSameWay(ev) ==
  CASE ev.kind = "posted" -> [kind |-> "voided", entry |-> ev.entry]
    [] ev.kind = "voided" -> [kind |-> "unvoided", entry |-> ev.entry]
    [] ev.kind = "reassigned" -> ev

OppositeFromHere(ev) ==
  CASE ev.kind = "posted" -> [kind |-> "voided", entry |-> ev.entry]
    [] ev.kind = "voided" -> [kind |-> "unvoided", entry |-> ev.entry]
    [] ev.kind = "reassigned" -> [ev EXCEPT !.new = ev.old]

Opposite(ev) ==
  CASE ev.kind = "posted" -> [kind |-> "voided", entry |-> ev.entry]
    [] ev.kind = "voided" -> [kind |-> "unvoided", entry |-> ev.entry]
    [] ev.kind = "reassigned" -> [ev EXCEPT !.old = ev.new, !.new = ev.old]

\* Projector::apply.
Projected(rows, ev) ==
  CASE ev.kind = "other" -> rows
    [] ev.kind = "posted" -> Append(rows, ev.row)
    [] ev.kind = "voided" -> [rows EXCEPT ![ev.entry].void = TRUE]
    [] ev.kind = "unvoided" -> [rows EXCEPT ![ev.entry].void = FALSE]
    [] ev.kind = "reassigned" -> [rows EXCEPT ![ev.entry].lines[ev.line].account = ev.new]

EventsIn(lo, hi) == SubSeq(log, lo, hi)

\* All of the range stands, or none of it is taken back.
SomeStand(events) == \E k \in DOMAIN events : Stands(events[k])
AllStand(events) == \A k \in DOMAIN events : Stands(events[k])

OldestFirst(events) == [k \in DOMAIN events |-> Opposite(events[k])]

Opposites(events) == [k \in DOMAIN events |-> Opposite(Reverse(events)[k])]

\* idx_journal_entries_reference_unique, of voided entries no more.
ReferencesFit(rows) ==
  \A d, e \in DOMAIN rows :
    ~rows[d].void /\ ~rows[e].void /\ rows[d].ref = rows[e].ref /\ d # e => rows[d].ref = NoRef

\* journal_lines.account_id REFERENCES accounts(id).
AccountsExist(rows) ==
  \A e \in DOMAIN rows : \A i \in DOMAIN rows[e].lines :
    status[rows[e].lines[i].account] \in {"active", "inactive"}

\* Each event is projected as it is written, and the schema asked each time.
Projects(rows, events) ==
  \A n \in DOMAIN events :
    LET then == FoldLeft(Projected, rows, SubSeq(events, 1, n))
    IN  ReferencesFit(then) /\ AccountsExist(then)

CanPlan(lo, hi) ==
  /\ \A k \in lo..hi : log[k].kind \in Revertible
  /\ AllStand(EventsIn(lo, hi))

Revert(lo, hi) ==
  LET inverses == Opposites(EventsIn(lo, hi))
  IN  /\ CanPlan(lo, hi)
      /\ Projects(entries, inverses)
      /\ Len(log) + Len(inverses) <= MaxEvents
      /\ log' = log \o inverses
      /\ entries' = FoldLeft(Projected, entries, inverses)
      /\ UNCHANGED <<status, closed>>

RevertSomething == \E lo, hi \in DOMAIN log : lo <= hi /\ Revert(lo, hi)

RevertNext == JournalStep \/ RevertSomething

RevertSpec == RevertInit /\ [][RevertNext]_revertVars

-----------------------------------------------------------------------------

Replay(events) == FoldLeft(Projected, << >>, events)

\* The log up to hi had lo..hi not happened: an entry once posted keeps its
\* place, void.
Before(lo) == SubSeq(log, 1, lo - 1)
Unposted(lo, hi) ==
  LET posts == SelectSeq(EventsIn(lo, hi), LAMBDA ev : ev.kind = "posted")
  IN  [k \in DOMAIN posts |-> [posts[k] EXCEPT !.row.void = TRUE]]

\* One field of a row, now and next, against what the range made of it: still
\* so and put back where the range changed it, left alone where it did not.
PutBack(original, changed, now, next) ==
  IF original = changed THEN next = now ELSE now = changed /\ next = original

\* A revert puts back all that its range changed and nothing else: no part of
\* the range stays, no field that reads otherwise by now is overwritten, and what
\* the range did not touch is not touched.  (A field changed since and changed
\* back reads the same: the code compares states, not histories.)
RevertRestores ==
  [][\A lo, hi \in DOMAIN log : lo <= hi /\ Revert(lo, hi) =>
       LET original == Replay(Before(lo) \o Unposted(lo, hi))
           changed == Replay(SubSeq(log, 1, hi))
       IN  /\ DOMAIN entries' = Ids
           /\ \A e \in DOMAIN changed :
                /\ PutBack(original[e].void, changed[e].void, entries[e].void, entries'[e].void)
                /\ \A i \in DOMAIN changed[e].lines :
                     PutBack(original[e].lines[i], changed[e].lines[i],
                             entries[e].lines[i], entries'[e].lines[i])
           /\ \A e \in Ids \ DOMAIN changed : entries'[e] = entries[e]]_revertVars

\* Two members who undo the same mistake, or one who asks again because no
\* answer came, undo it once: right after a revert its range is refused.
RevertedOnce ==
  [][\A lo, hi \in DOMAIN log : lo <= hi /\ Revert(lo, hi) => ~CanPlan(lo, hi)']_revertVars

EventsOf(kinds, lo, hi) == {k \in lo..hi : log[k].kind \in kinds}

\* Some entry came to life after the range under a reference the range gave up.
TakenSince(lo, hi) ==
  \E v \in EventsOf({"voided"}, lo, hi), p \in EventsOf({"posted", "unvoided"}, hi + 1, Len(log)) :
    /\ entries[log[v].entry].ref = entries[log[p].entry].ref
    /\ entries[log[p].entry].ref # NoRef
    /\ Live(log[p].entry)
    /\ \A k \in EventsOf({"posted"}, lo, hi) : log[k].entry # log[p].entry

\* An account the range moved a line off was deleted.
GoneSince(lo, hi) ==
  \E k \in EventsOf({"reassigned"}, lo, hi) : status[log[k].old] = "deleted"

\* The schema stops a revert whose plan stands exactly when something after the
\* range took what the range gave up, a reference or an account: never for what
\* the range itself did, whose inverses in their order pass through no state
\* the index would refuse, and never for an entry a revert brings back.
RefusedForLaterWork ==
  \A lo, hi \in DOMAIN log : lo <= hi /\ CanPlan(lo, hi) =>
    (Projects(entries, Opposites(EventsIn(lo, hi))) <=> ~TakenSince(lo, hi) /\ ~GoneSince(lo, hi))

\* The events from first on can be reverted, and that gives these rows.
RevertsTo(first, rows) ==
  LET inverses == Opposites(EventsIn(first, Len(log)))
  IN  /\ CanPlan(first, Len(log))
      /\ Projects(entries, inverses)
      /\ FoldLeft(Projected, entries, inverses) = rows

\* "A revert is ordinary history, so it can be reverted in turn": right after
\* it, its own events stand, can be projected, and give the rows as they were.
\* (The revert of a void is an unvoid, which has no inverse here.)
RevertCanBeReverted ==
  [][\A lo, hi \in DOMAIN log, first \in {Len(log) + 1}, rows \in {entries} :
       lo <= hi /\ EventsOf({"voided"}, lo, hi) = {} /\ Revert(lo, hi) =>
         RevertsTo(first, rows)']_revertVars
=============================================================================
