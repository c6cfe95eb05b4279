----------------------------- MODULE SyncClient -----------------------------
(***************************************************************************)
(* src/sync/client.rs and sync/commands/entries.rs: members of a group     *)
(* post batches of entries to its server over HTTP.                        *)
(*                                                                         *)
(* A batch goes in chunks, one request after the other, each with the head *)
(* the client believes in.  A request that found another head is sent      *)
(* again with the right one, a few times; any other failure stops the run, *)
(* and somebody runs the rest again.  A request whose sender gave up may   *)
(* still reach the server.  post_entry is a batch of one.                  *)
(***************************************************************************)
EXTENDS Integers, Sequences, SequencesExt, FiniteSets

CONSTANTS
  Clients,
  Batch,       \* the rows each client imports, in order
  Rows,
  Ref,         \* a row's reference; rows of overlapping feeds share one
  NoRef,       \* a row without a reference
  Dated,       \* the rows dated in the year that members close and reopen
  Malformed,   \* rows that do not balance
  Chunk,       \* entries in one request
  MaxRetries,  \* attempts after the first
  MaxOthers,   \* bound: other members' commands
  MaxFaults,   \* bound: requests that fail or that a client gives up on
  MaxRuns      \* bound: times an import is run, more than the faults can cause

ASSUME SyncClientAssumption ==
  /\ Batch \in [Clients -> Seq(Rows)]
  /\ \A c, d \in Clients : ToSet(Batch[c]) \cap ToSet(Batch[d]) # {} => c = d
  /\ \A c \in Clients : IsInjective(Batch[c]) /\ Batch[c] # << >>
  /\ Dated \subseteq Rows
  /\ Malformed \subseteq Rows
  /\ {Chunk, MaxRuns} \subseteq Nat \ {0}
  /\ {MaxRetries, MaxOthers, MaxFaults} \subseteq Nat

VARIABLES
  \* the server
  entries,  \* the entries posted, with the row and the run they came from
  others,   \* how many other events the log holds
  fenced,   \* whether the rows in Dated are in a closed year
  \* the network
  wire,     \* requests that have not reached the server
  faults,
  \* the clients
  known,    \* the head each believes in
  pc,       \* of its import: sending, waiting, stopped or done
  run,      \* how often it was started
  todo,     \* the rows of this run
  offset,   \* how many of them were answered for
  tries,    \* conflicts met by the request at hand
  answer,   \* the answer to it, once there is one
  mark      \* what each row was reported to be

serverVars == <<entries, others, fenced>>
clientVars == <<known, pc, run, todo, offset, tries, answer, mark>>
vars == <<serverVars, wire, faults, clientVars>>

\* The rows at some positions, in their order.
Ascending(I) ==
  CHOOSE s \in [1..Cardinality(I) -> I] : \A j, k \in DOMAIN s : j < k => s[j] < s[k]

At(rows, I) == LET places == Ascending(I) IN [k \in DOMAIN places |-> rows[places[k]]]

None == [code |-> "none"]

TypeOK ==
  /\ entries \in Seq([row : Rows, run : 1..MaxRuns, void : BOOLEAN])
  /\ others \in 0..MaxOthers
  /\ fenced \in BOOLEAN
  /\ \A q \in wire : q.client \in Clients /\ q.rows \in Seq(Rows) /\ Len(q.rows) \in 1..Chunk
  /\ faults \in 0..MaxFaults
  /\ \A c \in Clients : known[c] <= Len(entries) + others
  /\ pc \in [Clients -> {"sending", "waiting", "stopped", "done"}]
  /\ run \in [Clients -> 1..MaxRuns]
  /\ \A c \in Clients : /\ todo[c] \in Seq(Rows)
                        /\ offset[c] \in 0..Len(todo[c])
                        /\ pc[c] = "done" <=> offset[c] = Len(todo[c])
  /\ tries \in [Clients -> 0..MaxRetries]
  /\ mark \in [Rows -> {"pending", "posted", "exists", "refused"}]

Init ==
  /\ entries = << >> /\ others = 0 /\ fenced = FALSE
  /\ wire = {} /\ faults = 0
  /\ known = [c \in Clients |-> 0]
  /\ pc = [c \in Clients |-> "sending"]
  /\ run = [c \in Clients |-> 1]
  /\ todo = Batch
  /\ offset = [c \in Clients |-> 0]
  /\ tries = [c \in Clients |-> 0]
  /\ answer = [c \in Clients |-> None]
  /\ mark = [r \in Rows |-> "pending"]

-----------------------------------------------------------------------------
(* The server.                                                             *)

ServerHead == Len(entries) + others

Booked(ref) ==
  \E i \in DOMAIN entries : Ref[entries[i].row] = ref /\ ~entries[i].void

NoneClaimed(rows, i) == FALSE

\* A reference an earlier candidate of the batch claimed, accepted or not.
Claimed(rows, i) ==
  /\ Ref[rows[i]] # NoRef
  /\ \E j \in 1..(i-1) : rows[j] \notin Malformed /\ Ref[rows[j]] = Ref[rows[i]]

\* The first check that fails decides.
Verdict(rows, i) ==
  IF rows[i] \in Malformed THEN "refused"
  ELSE IF Claimed(rows, i) \/ (Ref[rows[i]] # NoRef /\ Booked(Ref[rows[i]])) THEN "exists"
  ELSE IF fenced /\ rows[i] \in Dated THEN "refused"
  ELSE "posted"

Accepted(rows) == {i \in DOMAIN rows : Verdict(rows, i) = "posted"}

\* idx_journal_entries_reference_unique.
IndexHolds(rows) ==
  \A i \in Accepted(rows) : Ref[rows[i]] # NoRef =>
    /\ ~Booked(Ref[rows[i]])
    /\ \A j \in Accepted(rows) : Ref[rows[j]] = Ref[rows[i]] => j = i

\* The answer goes to the request the client is still waiting for, or nowhere.
Reply(q, a) ==
  answer' = IF pc[q.client] = "waiting" /\ run[q.client] = q.run
            THEN [answer EXCEPT ![q.client] = a] ELSE answer

Posts(q) ==
  LET rows == At(q.rows, Accepted(q.rows))
  IN  [k \in DOMAIN rows |-> [row |-> rows[k], run |-> q.run, void |-> FALSE]]

Verdicts(rows) == [i \in DOMAIN rows |-> Verdict(rows, i)]

\* A batch without a single well-formed entry is answered without a look at the
\* books; one the unique index refuses is rolled back whole.
Unasked(q) == ToSet(q.rows) \subseteq Malformed
Lands(q) == ~Unasked(q) /\ q.head = ServerHead /\ IndexHolds(q.rows)

AnswerTo(q) ==
  CASE Unasked(q) -> [code |-> "ok", head |-> q.head, verdicts |-> Verdicts(q.rows)]
    [] ~Unasked(q) /\ q.head # ServerHead -> [code |-> "conflict", head |-> ServerHead]
    [] Lands(q) -> [code |-> "ok", head |-> ServerHead + Cardinality(Accepted(q.rows)),
                    verdicts |-> Verdicts(q.rows)]
    [] OTHER -> [code |-> "error"]

\* submit_post_entries.
Serve(q) ==
  /\ wire' = wire \ {q}
  /\ entries' = IF Lands(q) THEN entries \o Posts(q) ELSE entries
  /\ Reply(q, AnswerTo(q))
  /\ UNCHANGED <<others, fenced, faults, known, pc, run, todo, offset, tries, mark>>

\* The store fails, on a full disk or a busy file: 500, and nothing is written.
ServeFails(q) ==
  /\ faults < MaxFaults
  /\ faults' = faults + 1
  /\ wire' = wire \ {q}
  /\ Reply(q, [code |-> "error"])
  /\ UNCHANGED <<serverVars, known, pc, run, todo, offset, tries, mark>>

\* Another member closes or reopens the year, or voids an entry.
OtherCommand ==
  /\ others < MaxOthers
  /\ others' = others + 1
  /\ \/ fenced' = ~fenced /\ UNCHANGED entries
     \/ /\ \E i \in DOMAIN entries : ~entries[i].void /\ entries' = [entries EXCEPT ![i].void = TRUE]
        /\ UNCHANGED fenced
  /\ UNCHANGED <<wire, faults, clientVars>>

-----------------------------------------------------------------------------
(* A client.                                                               *)

ChunkOf(c) == SubSeq(todo[c], offset[c] + 1, IF offset[c] + Chunk < Len(todo[c])
                                              THEN offset[c] + Chunk ELSE Len(todo[c]))

Send(c) ==
  /\ pc[c] = "sending"
  /\ pc' = [pc EXCEPT ![c] = "waiting"]
  /\ wire' = wire \cup {[client |-> c, run |-> run[c], rows |-> ChunkOf(c),
                         head |-> known[c], attempt |-> tries[c]]}
  /\ UNCHANGED <<serverVars, faults, known, run, todo, offset, tries, answer, mark>>

Answered(c, code) ==
  /\ pc[c] = "waiting"
  /\ answer[c].code = code
  /\ answer' = [answer EXCEPT ![c] = None]

\* 409: adopt the server's head and try again, or give up.
OnConflict(c) ==
  /\ Answered(c, "conflict")
  /\ known' = [known EXCEPT ![c] = answer[c].head]
  /\ IF tries[c] < MaxRetries
     THEN /\ tries' = [tries EXCEPT ![c] = @ + 1]
          /\ pc' = [pc EXCEPT ![c] = "sending"]
     ELSE /\ pc' = [pc EXCEPT ![c] = "stopped"]
          /\ UNCHANGED tries
  /\ UNCHANGED <<serverVars, wire, faults, run, todo, offset, mark>>

\* Where the i-th answer of a chunk is in the caller's numbering.
ChunkLocal(c, i) == i
Position(c, i) == offset[c] + i

WholeChunk(c) == Chunk
Covered(c) == Len(ChunkOf(c))

\* 200: every row of the chunk is accounted for.
OnAnswer(c) ==
  /\ Answered(c, "ok")
  /\ known' = [known EXCEPT ![c] = answer[c].head]
  /\ mark' = [r \in Rows |->
       IF \E i \in DOMAIN answer[c].verdicts : todo[c][Position(c, i)] = r
       THEN answer[c].verdicts[CHOOSE i \in DOMAIN answer[c].verdicts : todo[c][Position(c, i)] = r]
       ELSE mark[r]]
  /\ offset' = [offset EXCEPT ![c] = @ + Covered(c)]
  /\ tries' = [tries EXCEPT ![c] = 0]
  /\ pc' = [pc EXCEPT ![c] = IF offset'[c] = Len(todo[c]) THEN "done" ELSE "sending"]
  /\ UNCHANGED <<serverVars, wire, faults, run, todo>>

OnError(c) ==
  /\ Answered(c, "error")
  /\ pc' = [pc EXCEPT ![c] = "stopped"]
  /\ UNCHANGED <<serverVars, wire, faults, known, run, todo, offset, tries, mark>>

FailedRetry(c) == [pc EXCEPT ![c] = "sending"]
Failed(c) == [pc EXCEPT ![c] = "stopped"]

\* The connection is lost, before or after the server acted on the request.
GiveUp(c) ==
  /\ pc[c] = "waiting"
  /\ faults < MaxFaults
  /\ faults' = faults + 1
  /\ pc' = Failed(c)
  /\ answer' = [answer EXCEPT ![c] = None]
  /\ UNCHANGED <<serverVars, wire, known, run, todo, offset, tries, mark>>

\* A request nobody waits for may never arrive.
Vanish(q) ==
  /\ pc[q.client] # "waiting" \/ run[q.client] # q.run
  /\ wire' = wire \ {q}
  /\ UNCHANGED <<serverVars, faults, clientVars>>

\* Somebody runs what is left of a stopped import again.
Rerun(c) ==
  /\ pc[c] = "stopped"
  /\ run[c] < MaxRuns
  /\ run' = [run EXCEPT ![c] = @ + 1]
  /\ todo' = [todo EXCEPT ![c] = At(Batch[c], {i \in DOMAIN Batch[c] : mark[Batch[c][i]] = "pending"})]
  /\ offset' = [offset EXCEPT ![c] = 0]
  /\ tries' = [tries EXCEPT ![c] = 0]
  /\ pc' = [pc EXCEPT ![c] = "sending"]
  /\ UNCHANGED <<serverVars, wire, faults, known, answer, mark>>

ClientStep(c) == Send(c) \/ OnConflict(c) \/ OnAnswer(c) \/ OnError(c) \/ Rerun(c)

Finished == \A c \in Clients : pc[c] = "done"

\* Nothing is left to do, or the bound on runs is reached.
Over ==
  /\ \A c \in Clients : pc[c] = "done" \/ (pc[c] = "stopped" /\ run[c] = MaxRuns)
  /\ UNCHANGED vars

Next ==
  \/ \E q \in wire : Serve(q) \/ ServeFails(q) \/ Vanish(q)
  \/ OtherCommand
  \/ \E c \in Clients : ClientStep(c) \/ GiveUp(c)
  \/ Over

Spec == Init /\ [][Next]_vars

ServeFor(c) == \E q \in wire : q.client = c /\ Serve(q)

\* The client's loop runs on, the server answers, and the import is run again
\* after it stopped.
FairSpec == Spec /\ \A c \in Clients : WF_vars(ClientStep(c)) /\ WF_vars(ServeFor(c))

-----------------------------------------------------------------------------

\* A row reported as posted has an entry that came from that row: the answers of
\* a later chunk are not taken for rows of an earlier one, nor a late request's
\* for the one at hand.
PostedIsBooked ==
  \A r \in Rows : mark[r] = "posted" => \E i \in DOMAIN entries : entries[i].row = r

\* One run posts a row once, with a reference or without one: a conflict means
\* nothing was written, and after any other failure a run sends nothing more.
OncePerRun ==
  \A i, j \in DOMAIN entries :
    entries[i].row = entries[j].row /\ entries[i].run = entries[j].run => i = j

\* Every import ends with each of its rows posted, found to exist or refused,
\* once members' commands and lost connections become rare enough.
ImportsEnd == <>[]Finished

=============================================================================
