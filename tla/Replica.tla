------------------------------- MODULE Replica -------------------------------
(***************************************************************************)
(* src/sync: ledger files that follow a group server's log, or hand the    *)
(* server the log it starts from.                                          *)
(*                                                                         *)
(* "A connected ledger is a strict replica: local events.id == server seq, *)
(* always, and the only writer to a replica's log is this mirror path"     *)
(* (replica.rs).  The id of an event is its position in a log.  Its hash   *)
(* stands for its content and is unique to it; hashes are not chained, so  *)
(* equal hashes at one position say nothing of the positions before.       *)
(*                                                                         *)
(* The driver that opens, ticks, closes and resets is the desktop program; *)
(* it is not in this repository and is modelled from what replica.rs says  *)
(* of it and from the tests of sync/mod.rs.                                *)
(***************************************************************************)
EXTENDS Integers, Sequences, FiniteSetsExt, SequencesExt

CONSTANTS
  Ledgers,              \* ledger files of the members
  Server,               \* the author of events the group server mints
  Garbage,              \* a payload that does not hash to its checksum
  Ticks,                \* requests of one replica that may overlap
  PageSize,             \* page_limit
  Settings,             \* events whose rows rebuild does not truncate
  RestoreAnyTime,       \* is the server restored while ledgers are open?
  MaxEvents,            \* bound: events ever authored
  MaxFaults             \* bound: losses, altered pages, restores

Event == [by : Ledgers \cup {Server}, n : 1..MaxEvents]

\* One event on the wire: its seq, its content and the checksum it came with.
Item == [seq : 1..MaxEvents, ev : Event \cup {Garbage}, hash : Event]

ASSUME ReplicaAssumption ==
  /\ Server \notin Ledgers
  /\ Garbage \notin Event
  /\ PageSize \in Nat \ {0}
  /\ MaxEvents \in Nat
  /\ MaxFaults \in Nat
  /\ RestoreAnyTime \in BOOLEAN

VARIABLES
  server,    \* the server's log
  log,       \* each file's events table
  bound,     \* has the file a group_binding row?
  status,    \* what the desktop is doing with a bound file
  page,      \* the page each tick has in flight
  writer,    \* is the file attached to the local write server?
  offer,     \* a log on its way to be adopted
  reply,     \* the adopted head and its hash, on their way back
  authored,  \* events authored so far, anywhere
  faults     \* faults so far

vars == <<server, log, bound, status, page, writer, offer, reply, authored, faults>>

wire == <<page, offer, reply>>

NoPage == << >>
NoReply == [head |-> 0]

TypeOK ==
  /\ server \in Seq(Event)
  /\ log \in [Ledgers -> Seq(Event)]
  /\ bound \in [Ledgers -> BOOLEAN]
  /\ status \in [Ledgers -> {"closed", "opening", "following", "diverged"}]
  /\ page \in [Ledgers -> [Ticks -> Seq(Item)]]
  /\ writer \in [Ledgers -> BOOLEAN]
  /\ offer \in [Ledgers -> Seq(Event)]
  /\ reply \in [Ledgers -> [head : 1..MaxEvents, hash : Event] \cup {NoReply}]
  /\ authored \in 0..MaxEvents
  /\ faults \in 0..MaxFaults

Init ==
  /\ server = << >>
  /\ log = [l \in Ledgers |-> << >>]
  /\ bound = [l \in Ledgers |-> FALSE]
  /\ status = [l \in Ledgers |-> "closed"]
  /\ page = [l \in Ledgers |-> [t \in Ticks |-> NoPage]]
  /\ writer = [l \in Ledgers |-> FALSE]
  /\ offer = [l \in Ledgers |-> << >>]
  /\ reply = [l \in Ledgers |-> NoReply]
  /\ authored = 0
  /\ faults = 0

-----------------------------------------------------------------------------
(* The group server.                                                       *)

\* A new event: its timestamp and author set its hash apart from any other.
New(author) == [by |-> author, n |-> authored + 1]

Author == authored < MaxEvents /\ authored' = authored + 1
Fault == faults < MaxFaults /\ faults' = faults + 1

\* A member's command is committed on the server.
ServerAppend ==
  /\ Author
  /\ server' = Append(server, New(Server))
  /\ UNCHANGED <<log, bound, status, wire, writer, faults>>

\* The operator restores the server from an older backup.
ServerRestore(n) ==
  /\ RestoreAnyTime \/ \A l \in Ledgers : status[l] = "closed"
  /\ Fault
  /\ server' = SubSeq(server, 1, n)
  /\ UNCHANGED <<log, bound, status, wire, writer, authored>>

-----------------------------------------------------------------------------
(* Writing a ledger that is nobody's replica.                              *)

\* ServerDb::set opens the file and asks attachable once.
Attach(l) ==
  /\ ~bound[l]
  /\ writer' = [writer EXCEPT ![l] = TRUE]
  /\ UNCHANGED <<server, log, bound, status, wire, authored, faults>>

Detach(l) ==
  /\ writer[l]
  /\ writer' = [writer EXCEPT ![l] = FALSE]
  /\ UNCHANGED <<server, log, bound, status, wire, authored, faults>>

\* A command handler appends a locally authored event.
LocalAppend(l) ==
  /\ writer[l]
  /\ Author
  /\ log' = [log EXCEPT ![l] = Append(@, New(l))]
  /\ UNCHANGED <<server, bound, status, wire, writer, faults>>

-----------------------------------------------------------------------------
(* Becoming a replica.                                                     *)

\* The binding is a row of the file.  The desktop, which runs the write server,
\* detaches a file from it before it binds the file.
Connect(l) ==
  /\ ~bound[l]
  /\ ~writer[l]
  /\ bound' = [bound EXCEPT ![l] = TRUE]
  /\ status' = [status EXCEPT ![l] = "opening"]

\* bind: only a file with no events of its own.
Bind(l) ==
  /\ log[l] = << >>
  /\ Connect(l)
  /\ UNCHANGED <<server, log, wire, writer, authored, faults>>

\* to_ndjson: the whole log is sent off to be adopted.
Offer(l) ==
  /\ ~bound[l]
  /\ log[l] # << >>
  /\ offer[l] = << >>
  /\ offer' = [offer EXCEPT ![l] = log[l]]
  /\ UNCHANGED <<server, log, bound, status, page, reply, writer,
                 authored, faults>>

Adopted(l) ==
  /\ offer[l] # << >>
  /\ server' = offer[l]
  /\ reply' = [reply EXCEPT ![l] = [head |-> Len(offer[l]),
                                    hash |-> offer[l][Len(offer[l])]]]
  /\ offer' = [offer EXCEPT ![l] = << >>]
  /\ UNCHANGED <<log, bound, status, page, writer, authored, faults>>

\* The server has no events: the log becomes its own, ids and hashes kept.
Adopt(l) ==
  /\ server = << >>
  /\ Adopted(l)

\* 409: this group already has books.
RefuseOffer(l) ==
  /\ offer[l] # << >>
  /\ server # << >>
  /\ offer' = [offer EXCEPT ![l] = << >>]
  /\ UNCHANGED <<server, log, bound, status, page, reply, writer,
                 authored, faults>>

\* This file ends at the head the server reported, with the event it named.
HandedOver(l) ==
  /\ Len(log[l]) = reply[l].head
  /\ log[l][Len(log[l])] = reply[l].hash

\* bind_adopted.
BindAdopted(l) ==
  /\ reply[l] # NoReply
  /\ HandedOver(l)
  /\ Connect(l)
  /\ reply' = [reply EXCEPT ![l] = NoReply]
  /\ UNCHANGED <<server, log, page, offer, writer, authored, faults>>

\* The file has moved on since it was handed over, or is bound already.
RefuseAdopted(l) ==
  /\ reply[l] # NoReply
  /\ ~(HandedOver(l) /\ ~bound[l])
  /\ reply' = [reply EXCEPT ![l] = NoReply]
  /\ UNCHANGED <<server, log, bound, status, page, offer, writer,
                 authored, faults>>

\* The request, or its answer, is lost.
LoseAdoption(l) ==
  /\ Fault
  /\ offer[l] # << >> \/ reply[l] # NoReply
  /\ offer' = [offer EXCEPT ![l] = << >>]
  /\ reply' = [reply EXCEPT ![l] = NoReply]
  /\ UNCHANGED <<server, log, bound, status, page, writer, authored>>

\* unbind: the row goes, the events stay.
Unbind(l) ==
  /\ bound[l]
  /\ bound' = [bound EXCEPT ![l] = FALSE]
  /\ status' = [status EXCEPT ![l] = "closed"]
  /\ page' = [page EXCEPT ![l] = [t \in Ticks |-> NoPage]]
  /\ UNCHANGED <<server, log, writer, offer, reply, authored, faults>>

-----------------------------------------------------------------------------
(* Following the server.                                                   *)

\* A business is opened: it is verified before it is followed.
Open(l) ==
  /\ bound[l]
  /\ status[l] = "closed"
  /\ status' = [status EXCEPT ![l] = "opening"]
  /\ UNCHANGED <<server, log, bound, wire, writer, authored, faults>>

\* verify_prefix: the event at the local head is the server's at that seq.
SamePrefix(l) ==
  log[l] # << >> =>
    /\ Len(log[l]) <= Len(server)
    /\ log[l][Len(log[l])] = server[Len(log[l])]

Follow(l) ==
  /\ status[l] = "opening"
  /\ status' = [status EXCEPT ![l] = "following"]
  /\ UNCHANGED <<server, log, bound, wire, writer, authored, faults>>

Verify(l) ==
  /\ SamePrefix(l)
  /\ Follow(l)

\* LocalAhead or HashMismatch: divergence, and syncing stops.
VerifyFails(l) ==
  /\ status[l] = "opening"
  /\ ~SamePrefix(l)
  /\ status' = [status EXCEPT ![l] = "diverged"]
  /\ UNCHANGED <<server, log, bound, wire, writer, authored, faults>>

Sent(seq) == [seq |-> seq, ev |-> server[seq], hash |-> server[seq]]

PageLength(since) == Min({PageSize, Len(server) - since})

NewestEvents(since) ==
  [i \in 1..PageLength(since) |-> Sent(Len(server) - PageLength(since) + i)]

\* get_events since a cursor: the rows in id order, up to the page's limit.
EventsAfter(since) == [i \in 1..PageLength(since) |-> Sent(since + i)]

\* A tick asks for the events after local_cursor, and there are some.
Fetch(l, t) ==
  /\ status[l] = "following"
  /\ page[l][t] = NoPage
  /\ Len(server) > Len(log[l])
  /\ page' = [page EXCEPT ![l][t] = EventsAfter(Len(log[l]))]
  /\ UNCHANGED <<server, log, bound, status, writer, offer, reply,
                 authored, faults>>

\* A proxy or a bug drops, repeats or reorders events of a page, or alters one.
Distorted(p) ==
  (UNION {[1..n -> Range(p)] : n \in 0..Len(p)})
    \cup {[p EXCEPT ![i].ev = Garbage] : i \in DOMAIN p}

Distort(l, t) ==
  /\ Fault
  /\ page[l][t] # NoPage
  /\ \E p \in Distorted(page[l][t]) : page' = [page EXCEPT ![l][t] = p]
  /\ UNCHANGED <<server, log, bound, status, writer, offer, reply, authored>>

\* Item i of a page continues a log of n events and matches its checksum.
InSequence(p, n, i) == p[i].seq = n + i
Checksummed(p, i) == p[i].hash \in Event
Genuine(p, i) == p[i].ev = p[i].hash
Accepts(p, n, i) == InSequence(p, n, i) /\ Genuine(p, i)

Consume(l, t) == page' = [page EXCEPT ![l][t] = NoPage]

Mirror(l, t) ==
  /\ page[l][t] # NoPage
  /\ status[l] = "following"
  /\ \A i \in DOMAIN page[l][t] : Genuine(page[l][t], i)
  /\ log' = [log EXCEPT ![l] = @ \o [i \in DOMAIN page[l][t] |-> page[l][t][i].ev]]
  /\ Consume(l, t)
  /\ UNCHANGED <<server, bound, status, writer, offer, reply, authored, faults>>

\* append_mirrored: the page continues the log, and lands whole.
Apply(l, t) ==
  /\ \A i \in DOMAIN page[l][t] : InSequence(page[l][t], Len(log[l]), i)
  /\ Mirror(l, t)

\* The first bad item of the page decides the error; nothing is applied.
Refused(l, t, i) ==
  /\ status[l] = "following"
  /\ \A j \in 1..(i-1) : Accepts(page[l][t], Len(log[l]), j)
  /\ Consume(l, t)
  /\ UNCHANGED <<server, log, bound, writer, offer, reply, authored, faults>>

IsGap(l, t) ==
  \E i \in DOMAIN page[l][t] :
    /\ ~InSequence(page[l][t], Len(log[l]), i)
    /\ Refused(l, t, i)

StopSyncing(l) == status' = [status EXCEPT ![l] = "diverged"]
FatalGap(l, t) == IsGap(l, t) /\ StopSyncing(l)

\* Gap: the next tick asks again from the real cursor.
ApplyGap(l, t) == IsGap(l, t) /\ UNCHANGED status

\* HashMismatch: the copy cannot be trusted, and syncing stops.
ApplyMismatch(l, t) ==
  \E i \in DOMAIN page[l][t] :
    /\ InSequence(page[l][t], Len(log[l]), i)
    /\ ~Genuine(page[l][t], i)
    /\ Refused(l, t, i)
    /\ StopSyncing(l)

\* The business is closed; answers still on the wire reach nobody.
Close(l) ==
  /\ status[l] # "closed"
  /\ status' = [status EXCEPT ![l] = "closed"]
  /\ page' = [page EXCEPT ![l] = [t \in Ticks |-> NoPage]]
  /\ UNCHANGED <<server, log, bound, writer, offer, reply, authored, faults>>

\* A row of a table that rebuild leaves alone still points at its event.
Referenced(l) == \E i \in DOMAIN log[l] : log[l][i].n \in Settings

\* reset, offered on divergence.  DELETE FROM events fails on a foreign key
\* while a row points at one, and then nothing is changed.
Reset(l) ==
  /\ bound[l]
  /\ status[l] = "diverged"
  /\ ~Referenced(l)
  /\ log' = [log EXCEPT ![l] = << >>]
  /\ status' = [status EXCEPT ![l] = "opening"]
  /\ UNCHANGED <<server, bound, page, writer, offer, reply, authored, faults>>

-----------------------------------------------------------------------------

Next ==
  \/ ServerAppend
  \/ \E n \in 0..(Len(server) - 1) : ServerRestore(n)
  \/ \E l \in Ledgers :
       \/ Attach(l) \/ Detach(l) \/ LocalAppend(l)
       \/ Bind(l) \/ Offer(l) \/ Adopt(l) \/ RefuseOffer(l) \/ BindAdopted(l)
       \/ RefuseAdopted(l) \/ LoseAdoption(l) \/ Unbind(l)
       \/ Open(l) \/ Verify(l) \/ VerifyFails(l) \/ Close(l) \/ Reset(l)
       \/ \E t \in Ticks : \/ Fetch(l, t) \/ Distort(l, t) \/ Apply(l, t)
                           \/ ApplyGap(l, t) \/ ApplyMismatch(l, t)

Spec == Init /\ [][Next]_vars

Handle(l, t) == Apply(l, t) \/ ApplyGap(l, t) \/ ApplyMismatch(l, t)

(***************************************************************************)
(* The driver ticks while a ledger is followed, every answer arrives and   *)
(* is handled, and the file that is opened is verified.                    *)
(***************************************************************************)
FairSpec ==
  /\ Spec
  /\ \A l \in Ledgers :
       /\ WF_vars(Verify(l) \/ VerifyFails(l))
       /\ \A t \in Ticks : WF_vars(Fetch(l, t)) /\ WF_vars(Handle(l, t))

-----------------------------------------------------------------------------

\* Two files, or a file and the server, that hold the same event at the same
\* number hold the same events before it: what makes the comparison of one
\* event at the head, when a file is opened or bound, a comparison of logs.
SameUpTo(s, t, i) == \A j \in 1..i : s[j] = t[j]

Agree(s, t) ==
  \A i \in DOMAIN s \cap DOMAIN t : s[i] = t[i] => SameUpTo(s, t, i)

LogsAgree ==
  \A l \in Ledgers :
    /\ Agree(log[l], server)
    /\ \A m \in Ledgers : Agree(log[l], log[m])

\* A followed file is a prefix of the server's log, whatever pages the wire
\* lost, repeated, reordered or altered, and whatever the file and the server
\* went through while it was closed.
FollowedIsPrefix ==
  \A l \in Ledgers : status[l] = "following" => IsPrefix(log[l], server)

\* A destructive reset is offered only for a copy that did diverge or a page
\* that was altered on the wire, never for a page that does not fit.
NoFalseAlarm ==
  [][\A l \in Ledgers :
       status[l] # "diverged" /\ status'[l] = "diverged" =>
         \/ ~IsPrefix(log[l], server)
         \/ \E t \in Ticks : \E i \in DOMAIN page[l][t] : ~Genuine(page[l][t], i)]_vars

\* A followed file reaches the server's head, through stale and distorted
\* pages, unless it is closed or found to have diverged.
CatchesUp ==
  \A l \in Ledgers :
    status[l] = "following" ~> status[l] # "following" \/ log[l] = server

=============================================================================
