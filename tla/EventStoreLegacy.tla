-------------------------- MODULE EventStoreLegacy ---------------------------
(***************************************************************************)
(* The event store together with the callers of the older append: the      *)
(* GnuCash import, connecting and syncing a Plaid item, removing and       *)
(* syncing an event service, and creating the company.  They insert the    *)
(* event in one autocommitted statement, with no head, no check and no     *)
(* transaction, and project it in a second call on the same connection.    *)
(***************************************************************************)
EXTENDS EventStore

CONSTANTS
  Legacy,        \* connections of the legacy callers
  LegacyEvents   \* the events they append, a subset of Event

VARIABLE unfolded  \* the events a legacy caller appended and has yet to project

legacyVars == <<events, held, pc, cmd, head, lock, wevents, wheld, done, unfolded>>

LegacyTypeOK == TypeOK /\ unfolded \in [Legacy -> SUBSET LegacyEvents]

LegacyInit == Init /\ unfolded = [l \in Legacy |-> {}]

\* EventStore::append: an INSERT of its own.
AppendUnchecked(l, e) ==
  /\ lock = NoWriter
  /\ unfolded[l] = {}
  /\ Len(events) < MaxLog
  /\ events' = Append(events, e)
  /\ unfolded' = [unfolded EXCEPT ![l] = {e}]
  /\ UNCHANGED <<held, pc, cmd, head, lock, wevents, wheld, done>>

\* apply_projection: its statements autocommit.  A constraint stops it and the
\* caller reports the error; the event stays in the log.
ApplyProjection(l, e) ==
  /\ lock = NoWriter
  /\ e \in unfolded[l]
  /\ held' = IF Projects(e, held) THEN Fold(e, held) ELSE held
  /\ unfolded' = [unfolded EXCEPT ![l] = {}]
  /\ UNCHANGED <<events, pc, cmd, head, lock, wevents, wheld, done>>

\* The process dies between the two calls.
Die(l) ==
  /\ unfolded[l] # {}
  /\ unfolded' = [unfolded EXCEPT ![l] = {}]
  /\ UNCHANGED vars

LegacyNext ==
  \/ Next /\ UNCHANGED unfolded
  \/ \E l \in Legacy, e \in LegacyEvents : AppendUnchecked(l, e) \/ ApplyProjection(l, e)
  \/ \E l \in Legacy : Die(l)

LegacySpec == LegacyInit /\ [][LegacyNext]_legacyVars

-----------------------------------------------------------------------------

\* What append_checked says of itself: "another writer's check can never
\* observe a log that leads its projections".  A check runs once the head has
\* been found to be the expected one.
ChecksSeeFoldedLog ==
  \A w \in Writers :
    pc[w] = "check" /\ head[w] = LatestId(wevents)
      => wheld = After(wevents, Len(wevents), {})
=============================================================================
