-------------------------- MODULE EventStore_proofs --------------------------
(***************************************************************************)
(* Proofs about the event store, for any number of connections, any keys   *)
(* and any commands: the type invariant, the two invariants of the log,    *)
(* where a commit may extend it, and that the store implements LedgerLog.  *)
(***************************************************************************)
EXTENDS EventStore, SequenceTheorems, TLAPS

(***************************************************************************)
(* Folding a log.                                                          *)
(***************************************************************************)

\* The first n events alone decide what is held after n events.
LEMMA AfterPrefix ==
  ASSUME NEW s \in Seq(Event), NEW t \in Seq(Event), NEW h,
         NEW n \in Nat, \A i \in 1..n : s[i] = t[i]
  PROVE  After(s, n, h) = After(t, n, h)
BY SMT DEF After

\* One more event is one more fold.
LEMMA AfterStep ==
  ASSUME NEW s \in Seq(Event), NEW h \in SUBSET Keys, NEW n \in 0..(Len(s)-1)
  PROVE  After(s, n + 1, h) = Fold(s[n + 1], After(s, n, h))
<1> DEFINE e == s[n + 1]
<1>1. e \in Event
  OBVIOUS
<1>2. CASE e.op = "take"
  <2>1. ASSUME NEW k \in Keys
        PROVE  k \in After(s, n + 1, h) <=> k = e.key \/ k \in After(s, n, h)
    BY <1>2, SMT DEF After, Event
  <2> QED
    BY <1>1, <1>2, <2>1 DEF Fold, Hold, Event, After
<1>3. CASE e.op = "free"
  <2>1. ASSUME NEW k \in Keys
        PROVE  k \in After(s, n + 1, h) <=> k # e.key /\ k \in After(s, n, h)
    BY <1>3, SMT DEF After, Event
  <2> QED
    BY <1>1, <1>3, <2>1 DEF Fold, Hold, Event, After
<1> QED
  BY <1>1, <1>2, <1>3 DEF Event

\* Nothing is held by an empty log that was not held before it.
LEMMA AfterNothing ==
  ASSUME NEW s, NEW h \in SUBSET Keys
  PROVE  After(s, 0, h) = h
BY DEF After

LEMMA AfterAppend ==
  ASSUME NEW s \in Seq(Event), NEW e \in Event
  PROVE  /\ After(Append(s, e), Len(s), {}) = After(s, Len(s), {})
         /\ After(Append(s, e), Len(s) + 1, {}) = Fold(e, After(s, Len(s), {}))
<1> DEFINE t == Append(s, e)
<1>1. t \in Seq(Event) /\ Len(t) = Len(s) + 1 /\ t[Len(s) + 1] = e
      /\ \A i \in 1..Len(s) : t[i] = s[i]
  BY AppendProperties
<1>2. After(t, Len(s), {}) = After(s, Len(s), {})
  BY <1>1, AfterPrefix, LenProperties
<1>3. Len(s) \in 0..(Len(t) - 1)
  BY <1>1, LenProperties
<1>4. After(t, Len(s) + 1, {}) = Fold(t[Len(s) + 1], After(t, Len(s), {}))
  BY <1>1, <1>3, AfterStep
<1> QED
  BY <1>1, <1>2, <1>4

(***************************************************************************)
(* A log whose replay never fails, and one more event that projects.       *)
(***************************************************************************)
Replays(s) == \A n \in DOMAIN s : Projects(s[n], After(s, n - 1, {}))

LEMMA ReplaysAppend ==
  ASSUME NEW s \in Seq(Event), NEW e \in Event,
         Replays(s), Projects(e, After(s, Len(s), {}))
  PROVE  Replays(Append(s, e))
<1> DEFINE t == Append(s, e)
<1>1. t \in Seq(Event) /\ Len(t) = Len(s) + 1 /\ t[Len(s) + 1] = e
      /\ \A i \in 1..Len(s) : t[i] = s[i]
  BY AppendProperties
<1> SUFFICES ASSUME NEW n \in 1..(Len(s) + 1)
             PROVE  Projects(t[n], After(t, n - 1, {}))
  BY <1>1, LenProperties DEF Replays
<1>2. After(t, n - 1, {}) = After(s, n - 1, {})
  <2>1. n - 1 \in Nat /\ \A i \in 1..(n - 1) : t[i] = s[i]
    BY <1>1, LenProperties
  <2> QED
    BY <1>1, <2>1, AfterPrefix
<1>3. CASE n = Len(s) + 1
  BY <1>1, <1>2, <1>3, LenProperties
<1>4. CASE n # Len(s) + 1
  BY <1>1, <1>2, <1>4, LenProperties DEF Replays
<1> QED
  BY <1>3, <1>4

\* A batch written event by event is the batch appended as a whole.
LEMMA WriteNext ==
  ASSUME NEW s \in Seq(Event), NEW b \in Seq(Event), NEW n \in 0..(Len(b) - 1)
  PROVE  Append(s \o SubSeq(b, 1, n), b[n + 1]) = s \o SubSeq(b, 1, n + 1)
<1>1. b[n + 1] \in Event /\ SubSeq(b, 1, n) \in Seq(Event)
  <2>1. \A i \in 1..n : b[i] \in Event
    OBVIOUS
  <2> QED
    BY <2>1, SubSeqProperties, ElementOfSeq
<1>2. SubSeq(b, 1, n + 1) = SubSeq(b, 1, n) \o <<b[n + 1]>>
  BY SubSeqRecursiveSecond, n + 1 \in 1..Len(b)
<1>3. Append(s \o SubSeq(b, 1, n), b[n + 1])
        = (s \o SubSeq(b, 1, n)) \o <<b[n + 1]>>
  BY <1>1, AppendIsConcat, ConcatProperties
<1>4. (s \o SubSeq(b, 1, n)) \o <<b[n + 1]>>
        = s \o (SubSeq(b, 1, n) \o <<b[n + 1]>>)
  <2> DEFINE t == SubSeq(b, 1, n)
             u == <<b[n + 1]>>
  <2>1. t \in Seq(Event) /\ u \in Seq(Event)
    BY <1>1
  <2> HIDE DEF t, u
  <2>2. (s \o t) \o u = s \o (t \o u)
    BY <2>1, ConcatAssociative
  <2> QED
    BY <2>2 DEF t, u
<1> QED
  BY <1>2, <1>3, <1>4

-----------------------------------------------------------------------------

(***************************************************************************)
(* The inductive invariant.  The two log invariants speak of committed     *)
(* rows alone; a commit preserves them because of what the open            *)
(* transaction has established on its own view.                            *)
(***************************************************************************)

\* The holder of the write lock is the one connection inside a transaction.
Locking == \A w \in Writers : lock = w <=> pc[w] \in {"check", "write"}

\* Before its check a transaction sees what is committed.
Viewing ==
  \A w \in Writers : pc[w] = "check" => wevents = events /\ wheld = held /\ done = 0

\* After it, the committed log followed by what it has written of its batch.
Batching ==
  \A w \in Writers : pc[w] = "write" =>
    /\ head[w] = LatestId(events)
    /\ Check(cmd[w], held)
    /\ done \in 0..Len(cmd[w])
    /\ wevents = events \o SubSeq(cmd[w], 1, done)
    /\ wheld = After(wevents, Len(wevents), {})
    /\ wheld = After(cmd[w], done, held)
    /\ Replays(wevents)
    /\ \A i \in 1..done : Projects(cmd[w][i], After(cmd[w], i - 1, held))

IInv ==
  /\ TypeOK /\ Locking /\ Viewing /\ Batching
  /\ ProjectionsMatchLog /\ LogReplays

-----------------------------------------------------------------------------

\* A command is a finite sequence of events.
LEMMA CommandIsSeq ==
  ASSUME TypeOK, NEW w \in Writers
  PROVE  cmd[w] \in Seq(Event)
<1>1. NoCommand \in Seq(Event)
  BY EmptySeq DEF NoCommand
<1> QED
  BY <1>1, BatchesAssumption DEF TypeOK

LEMMA InitInv == Init => IInv
<1> SUFFICES ASSUME Init PROVE IInv
  OBVIOUS
<1>1. TypeOK
  BY EmptySeq DEF Init, TypeOK
<1>2. Locking
  BY WritersAssumption DEF Init, Locking
<1>3. Viewing /\ Batching
  BY DEF Init, Viewing, Batching
<1>4. ProjectionsMatchLog
  BY DEF Init, ProjectionsMatchLog, After
<1>5. LogReplays
  BY DEF Init, LogReplays
<1> QED
  BY <1>1, <1>2, <1>3, <1>4, <1>5 DEF IInv

\* The end of a transaction and the answer to a caller keep the types.
LEMMA CloseType ==
  ASSUME CloseTxn
  PROVE  /\ lock' \in Writers \cup {NoWriter} /\ wevents' \in Seq(Event)
         /\ wheld' \in SUBSET Keys /\ done' \in Nat
BY EmptySeq DEF CloseTxn

LEMMA AnswerType ==
  ASSUME TypeOK, NEW w \in Writers, Answer(w)
  PROVE  /\ pc' \in [Writers -> {"idle", "head", "begin", "check", "write"}]
         /\ cmd' \in [Writers -> Batches \cup {NoCommand}]
         /\ head' \in [Writers -> Nat]
BY DEF TypeOK, Answer

LEMMA TypeStep == TypeOK /\ [Next]_vars => TypeOK'
<1> SUFFICES ASSUME TypeOK, [Next]_vars PROVE TypeOK'
  OBVIOUS
<1>1. ASSUME NEW w \in Local, NEW b \in Batches, StartLocal(w, b) PROVE TypeOK'
  BY <1>1 DEF StartLocal, TypeOK, Writers
<1>2. ASSUME NEW w \in Remote, NEW b \in Batches, NEW n \in 0..Len(events),
             StartRemote(w, b, n)
      PROVE  TypeOK'
  BY <1>2 DEF StartRemote, TypeOK, Writers
<1>3. ASSUME NEW w \in Writers, ReadHead(w) PROVE TypeOK'
  BY <1>3, LenProperties DEF ReadHead, LatestId, TypeOK
<1>4. ASSUME NEW w \in Writers, Begin(w) PROVE TypeOK'
  BY <1>4 DEF Begin, OpenTxn, TypeOK
<1>5. ASSUME NEW w \in Writers, Busy(w) PROVE TypeOK'
  BY <1>5, AnswerType DEF Busy, TypeOK
<1>6. ASSUME NEW w \in Writers, Retry(w) PROVE TypeOK'
  BY <1>6, CloseType DEF Retry, TypeOK
<1>7. ASSUME NEW w \in Writers, Conflict(w) \/ Reject(w) \/ WriteFails(w) PROVE TypeOK'
  BY <1>7, CloseType, AnswerType DEF Conflict, Reject, WriteFails, Rollback, TypeOK
<1>8. ASSUME NEW w \in Writers, Admit(w) PROVE TypeOK'
  BY <1>8 DEF Admit, Accept, TypeOK
<1>9. ASSUME NEW w \in Writers, WriteOne(w) PROVE TypeOK'
  <2>1. cmd[w][done + 1] \in Event
    <3>1. done + 1 \in 1..Len(cmd[w])
      BY <1>9, CommandIsSeq, LenProperties DEF WriteOne, Writing, TypeOK
    <3> QED
      BY <3>1, CommandIsSeq, ElementOfSeq
  <2>2. wevents' \in Seq(Event)
    BY <1>9, <2>1, AppendProperties DEF WriteOne, Write, TypeOK
  <2>3. wheld' \in SUBSET Keys
    BY <1>9, <2>1 DEF WriteOne, Write, Fold, Hold, Event, TypeOK
  <2> QED
    BY <1>9, <2>2, <2>3 DEF WriteOne, Write, TypeOK
<1>10. ASSUME NEW w \in Writers, Commit(w) PROVE TypeOK'
  BY <1>10, CloseType, AnswerType DEF Commit, Publish, TypeOK
<1>11. ASSUME NEW w \in Writers, Abort(w) PROVE TypeOK'
  BY <1>11, CloseType, AnswerType DEF Abort, TypeOK
<1>12. CASE UNCHANGED vars
  BY <1>12 DEF vars, TypeOK
<1> QED
  BY <1>1, <1>2, <1>3, <1>4, <1>5, <1>6, <1>7, <1>8, <1>9, <1>10, <1>11, <1>12
     DEF Next, Proceed, AppendChecked

\* Type correctness.
THEOREM TypeCorrect == Spec => []TypeOK
<1>1. Init => TypeOK
  BY InitInv DEF IInv
<1> QED
  BY <1>1, TypeStep, PTL DEF Spec

-----------------------------------------------------------------------------

\* One event written into the open transaction's view.
LEMMA WriteStep ==
  ASSUME IInv, NEW w \in Writers, WriteOne(w)
  PROVE  /\ done' \in 0..Len(cmd'[w])
         /\ wevents' = events' \o SubSeq(cmd'[w], 1, done')
         /\ wheld' = After(wevents', Len(wevents'), {})
         /\ wheld' = After(cmd'[w], done', held')
         /\ Replays(wevents')
         /\ \A i \in 1..done' : Projects(cmd'[w][i], After(cmd'[w], i - 1, held'))
<1> DEFINE b == cmd[w]
           e == b[done + 1]
<1>1. /\ b \in Seq(Event) /\ events \in Seq(Event) /\ wevents \in Seq(Event)
      /\ held \in SUBSET Keys
  BY CommandIsSeq DEF IInv, TypeOK
<1>2. pc[w] = "write" /\ done < Len(b) /\ Projects(e, wheld)
  BY DEF WriteOne, Writing
<1>3. /\ done \in 0..Len(b)
      /\ wevents = events \o SubSeq(b, 1, done)
      /\ wheld = After(wevents, Len(wevents), {})
      /\ wheld = After(b, done, held)
      /\ Replays(wevents)
      /\ \A i \in 1..done : Projects(b[i], After(b, i - 1, held))
  BY <1>2 DEF IInv, Batching
<1>4. done \in 0..(Len(b) - 1) /\ e \in Event
  <2>1. done \in 0..(Len(b) - 1)
    BY <1>1, <1>2, <1>3, LenProperties
  <2> QED
    BY <1>1, <2>1, ElementOfSeq
<1>5. /\ wevents' = Append(wevents, e) /\ wheld' = Fold(e, wheld) /\ done' = done + 1
      /\ cmd' = cmd /\ events' = events /\ held' = held
  BY DEF WriteOne, Write
<1> HIDE DEF b, e
<1>6. done' \in 0..Len(b)
  BY <1>1, <1>4, <1>5, LenProperties
<1>7. wevents' = events \o SubSeq(b, 1, done')
  BY <1>1, <1>3, <1>4, <1>5, WriteNext DEF e
<1>8. wheld' = After(wevents', Len(wevents'), {})
  <2>1. Len(wevents') = Len(wevents) + 1
    BY <1>1, <1>4, <1>5, AppendProperties
  <2> QED
    BY <1>1, <1>3, <1>4, <1>5, <2>1, AfterAppend
<1>9. wheld' = After(b, done', held)
  BY <1>1, <1>3, <1>4, <1>5, AfterStep DEF e
<1>10. Replays(wevents')
  BY <1>1, <1>2, <1>3, <1>4, <1>5, ReplaysAppend DEF e
<1>11. \A i \in 1..done' : Projects(b[i], After(b, i - 1, held))
  <2> SUFFICES ASSUME NEW i \in 1..(done + 1)
               PROVE  Projects(b[i], After(b, i - 1, held))
    BY <1>5
  <2>1. CASE i \in 1..done
    BY <1>3, <2>1
  <2>2. CASE i = done + 1
    BY <1>2, <1>3, <1>4, <2>2 DEF b, e
  <2> QED
    BY <1>4, <2>1, <2>2
<1> QED
  BY <1>5, <1>6, <1>7, <1>8, <1>9, <1>10, <1>11 DEF b

\* What a commit makes visible: the committed log and the whole batch.
LEMMA CommitStep ==
  ASSUME IInv, NEW w \in Writers, Commit(w)
  PROVE  /\ events' = events \o cmd[w]
         /\ held' = After(cmd[w], Len(cmd[w]), held)
         /\ held' = After(events', Len(events'), {})
         /\ Replays(events')
         /\ head[w] = LatestId(events)
         /\ Check(cmd[w], held)
         /\ \A i \in DOMAIN cmd[w] : Projects(cmd[w][i], After(cmd[w], i - 1, held))
<1>1. cmd[w] \in Seq(Event)
  BY CommandIsSeq DEF IInv
<1>2. pc[w] = "write" /\ done = Len(cmd[w]) /\ events' = wevents /\ held' = wheld
  BY DEF Commit, Publish
<1>3. SubSeq(cmd[w], 1, done) = cmd[w]
  BY <1>1, <1>2, SubSeqFull
<1>4. DOMAIN cmd[w] = 1..done
  BY <1>1, <1>2, LenProperties
<1> QED
  BY <1>2, <1>3, <1>4 DEF IInv, Batching

\* A step outside transactions leaves the others and the tables alone.
LEMMA OutsideStep ==
  ASSUME IInv, TypeOK', NEW w \in Writers,
         lock # w,
         UNCHANGED <<events, held, lock, wevents, wheld, done>>,
         pc'[w] \notin {"check", "write"},
         \A v \in Writers \ {w} : pc'[v] = pc[v] /\ cmd'[v] = cmd[v] /\ head'[v] = head[v]
  PROVE  IInv'
<1>1. pc[w] \notin {"check", "write"}
  BY DEF IInv, Locking
<1>2. Locking'
  BY <1>1 DEF IInv, Locking
<1>3. Viewing'
  BY <1>1 DEF IInv, Viewing
<1>4. Batching'
  BY <1>1 DEF IInv, Batching
<1> QED
  BY <1>2, <1>3, <1>4 DEF IInv, ProjectionsMatchLog, LogReplays

\* When a transaction ends nobody is inside one.
LEMMA CloseStep ==
  ASSUME IInv, TypeOK', NEW w \in Writers,
         lock = w,
         CloseTxn,
         pc'[w] \notin {"check", "write"},
         \A v \in Writers \ {w} : pc'[v] = pc[v],
         ProjectionsMatchLog', LogReplays'
  PROVE  IInv'
<1>1. \A v \in Writers : pc'[v] \notin {"check", "write"}
  BY DEF IInv, Locking
<1>2. Locking'
  BY <1>1, WritersAssumption DEF Locking, CloseTxn
<1>3. Viewing' /\ Batching'
  BY <1>1 DEF Viewing, Batching
<1> QED
  BY <1>2, <1>3 DEF IInv

LEMMA InvStep == IInv /\ [Next]_vars => IInv'
<1> SUFFICES ASSUME IInv, [Next]_vars PROVE IInv'
  OBVIOUS
<1>0. TypeOK /\ TypeOK'
  BY TypeStep DEF IInv
<1>1. ASSUME NEW w \in Local, NEW b \in Batches, StartLocal(w, b) PROVE IInv'
  <2>1. w \in Writers /\ lock # w
    BY <1>1 DEF StartLocal, IInv, Locking, Writers
  <2> QED
    BY <1>0, <1>1, <2>1, OutsideStep DEF StartLocal, TypeOK
<1>2. ASSUME NEW w \in Remote, NEW b \in Batches, NEW n \in 0..Len(events),
             StartRemote(w, b, n)
      PROVE  IInv'
  <2>1. w \in Writers /\ lock # w
    BY <1>2 DEF StartRemote, IInv, Locking, Writers
  <2> QED
    BY <1>0, <1>2, <2>1, OutsideStep DEF StartRemote, TypeOK
<1>3. ASSUME NEW w \in Writers, ReadHead(w) PROVE IInv'
  <2>1. lock # w
    BY <1>3 DEF ReadHead, IInv, Locking
  <2> QED
    BY <1>0, <1>3, <2>1, OutsideStep DEF ReadHead, TypeOK
<1>4. ASSUME NEW w \in Writers, Begin(w) PROVE IInv'
  <2>1. \A v \in Writers : pc[v] \notin {"check", "write"}
    BY <1>4, WritersAssumption DEF Begin, IInv, Locking
  <2>2. \A v \in Writers : pc'[v] \in {"check", "write"} <=> v = w
    BY <1>0, <1>4, <2>1 DEF Begin, OpenTxn, TypeOK
  <2>3. Locking'
    BY <1>4, <2>2 DEF Begin, OpenTxn, Locking
  <2>4. Viewing'
    BY <1>0, <1>4, <2>2 DEF Begin, OpenTxn, Viewing, TypeOK
  <2>5. Batching'
    BY <1>0, <1>4, <2>2 DEF Begin, OpenTxn, Batching, TypeOK
  <2> QED
    BY <1>0, <1>4, <2>3, <2>4, <2>5
       DEF Begin, OpenTxn, IInv, ProjectionsMatchLog, LogReplays
<1>5. ASSUME NEW w \in Writers, Busy(w) PROVE IInv'
  <2>1. lock # w
    BY <1>5 DEF Busy, IInv, Locking
  <2> QED
    BY <1>0, <1>5, <2>1, OutsideStep DEF Busy, Answer, TypeOK
<1>6. ASSUME NEW w \in Writers, Retry(w) PROVE IInv'
  <2>1. lock = w
    BY <1>6 DEF Retry, IInv, Locking
  <2>2. ProjectionsMatchLog' /\ LogReplays'
    BY <1>6 DEF Retry, IInv, ProjectionsMatchLog, LogReplays
  <2> QED
    BY <1>0, <1>6, <2>1, <2>2, CloseStep DEF Retry, TypeOK
<1>7. ASSUME NEW w \in Writers, Conflict(w) \/ Reject(w) \/ WriteFails(w) PROVE IInv'
  <2>1. lock = w /\ Rollback(w)
    BY <1>7 DEF Conflict, Reject, WriteFails, Writing, IInv, Locking
  <2>2. ProjectionsMatchLog' /\ LogReplays'
    BY <2>1 DEF Rollback, IInv, ProjectionsMatchLog, LogReplays
  <2> QED
    BY <1>0, <2>1, <2>2, CloseStep DEF Rollback, Answer, TypeOK
<1>8. ASSUME NEW w \in Writers, Admit(w) PROVE IInv'
  <2>1. lock = w /\ pc[w] = "check" /\ pc' = [pc EXCEPT ![w] = "write"]
    BY <1>8 DEF Admit, Accept, IInv, Locking
  <2>2. \A v \in Writers \ {w} : pc'[v] = pc[v] /\ pc[v] \notin {"check", "write"}
    BY <1>0, <2>1 DEF TypeOK, IInv, Locking
  <2>3. Locking'
    BY <1>0, <1>8, <2>1, <2>2 DEF Admit, Accept, Locking, IInv, TypeOK
  <2>4. Viewing'
    BY <1>0, <2>1, <2>2 DEF Viewing, TypeOK
  <2>5. Batching'
    <3>1. wevents = events /\ wheld = held /\ done = 0
      BY <2>1 DEF IInv, Viewing
    <3>2. head[w] = LatestId(events) /\ Check(cmd[w], held)
      BY <1>8, <3>1 DEF Admit, Accept
    <3>3. cmd[w] \in Seq(Event) /\ Len(cmd[w]) \in Nat
      BY <1>0, CommandIsSeq, LenProperties
    <3>4. wevents = events \o SubSeq(cmd[w], 1, done)
      BY <1>0, <3>1, <3>3, SubSeqEmpty, ConcatEmptySeq DEF TypeOK
    <3>5. wheld = After(wevents, Len(wevents), {}) /\ wheld = After(cmd[w], done, held)
      BY <1>0, <3>1, AfterNothing DEF IInv, ProjectionsMatchLog, TypeOK
    <3>6. Replays(wevents)
      BY <3>1 DEF Replays, IInv, LogReplays
    <3> QED
      BY <1>8, <2>1, <2>2, <3>1, <3>2, <3>3, <3>4, <3>5, <3>6
         DEF Admit, Accept, Batching
  <2> QED
    BY <1>0, <1>8, <2>3, <2>4, <2>5
       DEF Admit, Accept, IInv, ProjectionsMatchLog, LogReplays
<1>9. ASSUME NEW w \in Writers, WriteOne(w) PROVE IInv'
  <2>1. lock = w /\ pc[w] = "write"
    BY <1>9 DEF WriteOne, Writing, IInv, Locking
  <2>2. \A v \in Writers \ {w} : pc[v] \notin {"check", "write"}
    BY <2>1 DEF IInv, Locking
  <2>3. UNCHANGED <<events, held, pc, cmd, head, lock>>
    BY <1>9 DEF WriteOne, Write
  <2>4. Batching'
    BY <1>9, <2>1, <2>2, <2>3, WriteStep DEF IInv, Batching
  <2>5. Locking' /\ Viewing'
    BY <2>1, <2>2, <2>3 DEF IInv, Locking, Viewing
  <2> QED
    BY <1>0, <2>3, <2>4, <2>5 DEF IInv, ProjectionsMatchLog, LogReplays
<1>10. ASSUME NEW w \in Writers, Commit(w) PROVE IInv'
  <2>1. lock = w /\ CloseTxn /\ Answer(w)
    BY <1>10 DEF Commit, Publish, IInv, Locking
  <2>2. ProjectionsMatchLog' /\ LogReplays'
    BY <1>10, CommitStep DEF ProjectionsMatchLog, LogReplays, Replays
  <2> QED
    BY <1>0, <2>1, <2>2, CloseStep DEF Answer, TypeOK
<1>11. ASSUME NEW w \in Writers, Abort(w) PROVE IInv'
  <2>1. CASE lock = w
    <3>1. ProjectionsMatchLog' /\ LogReplays'
      BY <1>11 DEF Abort, IInv, ProjectionsMatchLog, LogReplays
    <3> QED
      BY <1>0, <1>11, <2>1, <3>1, CloseStep DEF Abort, Answer, TypeOK
  <2>2. CASE lock # w
    BY <1>0, <1>11, <2>2, OutsideStep DEF Abort, Answer, TypeOK
  <2> QED
    BY <2>1, <2>2
<1>12. CASE UNCHANGED vars
  BY <1>0, <1>12
     DEF vars, IInv, Locking, Viewing, Batching, ProjectionsMatchLog, LogReplays
<1> QED
  BY <1>1, <1>2, <1>3, <1>4, <1>5, <1>6, <1>7, <1>8, <1>9, <1>10, <1>11, <1>12
     DEF Next, Proceed, AppendChecked

-----------------------------------------------------------------------------

\* The projections every connection reads are the fold of the committed log.
THEOREM ProjectionsCorrect == Spec => []ProjectionsMatchLog
<1>1. IInv => ProjectionsMatchLog
  BY DEF IInv
<1> QED
  BY <1>1, InitInv, InvStep, PTL DEF Spec

\* The committed log replays from nothing without a failing projection.
THEOREM ReplaySucceeds == Spec => []LogReplays
<1>1. IInv => LogReplays
  BY DEF IInv
<1> QED
  BY <1>1, InitInv, InvStep, PTL DEF Spec

\* Only a commit moves the log.
LEMMA OnlyCommits ==
  ASSUME [Next]_vars, \A w \in Writers : ~Commit(w)
  PROVE  UNCHANGED <<events, held>>
BY DEF Next, vars, Proceed, AppendChecked, StartLocal, StartRemote, ReadHead, Begin,
       OpenTxn, Busy, Retry, Conflict, Reject, Rollback, Admit, Accept, WriteOne,
       Write, WriteFails, Abort

\* A commit extends the log its caller had in hand by the caller's batch.
THEOREM HeadCompared == Spec => CommitsAtExpectedHead
<1>1. IInv /\ [Next]_vars =>
        [events' # events =>
           \E w \in Writers : head[w] = LatestId(events) /\ events' = events \o cmd[w]]_vars
  BY CommitStep, OnlyCommits
<1> QED
  BY <1>1, InitInv, InvStep, PTL DEF Spec, CommitsAtExpectedHead

\* The two modules read the same events: these operators are the same.
LEMMA SameOperators ==
  /\ \A b, h : Ledger!Check(b, h) <=> Check(b, h)
  /\ \A e, h : Ledger!Projects(e, h) <=> Projects(e, h)
  /\ \A s, n, h : Ledger!After(s, n, h) = After(s, n, h)
BY DEF Ledger!Check, Check, Ledger!Projects, Projects, Ledger!After, After

\* The event store implements the atomic ledger: a commit executes its whole
\* command, and every other step leaves the ledger as it is.
THEOREM Implements == Spec => ImplementsLedgerLog
<1>1. Init => Ledger!Init
  BY DEF Init, Ledger!Init
<1>2. IInv /\ [Next]_vars => [Ledger!Next]_<<events, held>>
  <2> SUFFICES ASSUME IInv, [Next]_vars, NEW w \in Writers, Commit(w)
               PROVE  [Ledger!Next]_<<events, held>>
    BY OnlyCommits
  <2>1. CASE cmd[w] \in Batches
    <3>1. Ledger!Execute(cmd[w])
      BY CommitStep, SameOperators DEF Ledger!Execute
    <3> QED
      BY <2>1, <3>1 DEF Ledger!Next
  <2>2. CASE cmd[w] = NoCommand
    <3>1. events \in Seq(Event) /\ held \in SUBSET Keys
      BY DEF IInv, TypeOK
    <3>2. events' = events
      BY <2>2, <3>1, CommitStep, ConcatEmptySeq DEF NoCommand
    <3>3. held' = held
      BY <2>2, <3>1, CommitStep, EmptySeq, AfterNothing DEF NoCommand
    <3> QED
      BY <3>2, <3>3
  <2> QED
    BY <2>1, <2>2 DEF IInv, TypeOK
<1> QED
  BY <1>1, <1>2, InitInv, InvStep, PTL DEF Spec, ImplementsLedgerLog, Ledger!Spec
=============================================================================
