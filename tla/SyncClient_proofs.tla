-------------------------- MODULE SyncClient_proofs --------------------------
(***************************************************************************)
(* Proofs about batches of entries posted to a server, for any members,    *)
(* any batches, any size of a chunk and any bounds.                        *)
(***************************************************************************)
EXTENDS SyncClient, FiniteSetTheorems, SequenceTheorems, NaturalsInduction, WellFoundedInduction, TLAPS

(***************************************************************************)
(* The invariant.  A run has one request under way at most, for the rows   *)
(* after those it was answered for; the rows it has not asked for, and the *)
(* rows on the wire, have no entry of that run.  They are known to be      *)
(* unwritten again when the answer is a conflict.                          *)
(***************************************************************************)
EntryRecord == [row : Rows, run : 1..MaxRuns, void : BOOLEAN]
Verdicted == {"posted", "exists", "refused"}
Mine(c) == ToSet(Batch[c])

Shape ==
  /\ entries \in Seq(EntryRecord)
  /\ others \in 0..MaxOthers
  /\ fenced \in BOOLEAN
  /\ faults \in 0..MaxFaults
  /\ known \in [Clients -> Nat]
  /\ pc \in [Clients -> {"sending", "waiting", "stopped", "done"}]
  /\ run \in [Clients -> 1..MaxRuns]
  /\ todo \in [Clients -> Seq(Rows)]
  /\ offset \in [Clients -> Nat]
  /\ tries \in [Clients -> 0..MaxRetries]
  /\ DOMAIN answer = Clients
  /\ mark \in [Rows -> {"pending"} \cup Verdicted]

\* A request of the client's run at hand, and what such a request means.
Current(q) == q.run = run[q.client]

Awaited(q) ==
  /\ pc[q.client] \in {"waiting", "stopped"}
  /\ answer[q.client] = None
  /\ q.rows = ChunkOf(q.client)

Request(q) ==
  /\ q.client \in Clients
  /\ q.run \in 1..run[q.client]
  /\ q.rows \in Seq(Rows) /\ Len(q.rows) \in 1..Chunk
  /\ IsInjective(q.rows)
  /\ ToSet(q.rows) \subseteq Mine(q.client)
  /\ q.head \in 0..ServerHead
  /\ \A i \in DOMAIN entries : entries[i].run = q.run => entries[i].row \notin ToSet(q.rows)
  /\ Current(q) => Awaited(q)

OneEach == \A p, q \in wire : p.client = q.client /\ p.run = q.run => p = q

\* What a run may have written of the rows it was not answered for.
Asked(c) ==
  IF pc[c] \in {"waiting", "stopped"} /\ answer[c].code # "conflict"
  THEN offset[c] + Len(ChunkOf(c)) ELSE offset[c]

Unsaid(c) == {todo[c][j] : j \in (Asked(c) + 1)..Len(todo[c])}

AnswerFits(c) ==
  \/ answer[c] = None
  \/ /\ pc[c] = "waiting"
     /\ \/ answer[c].code = "error"
        \/ answer[c].code = "conflict" /\ answer[c].head \in 0..ServerHead
        \/ /\ answer[c].code = "ok" /\ answer[c].head \in 0..ServerHead
           /\ answer[c].verdicts \in [1..Len(ChunkOf(c)) -> Verdicted]
           /\ \A i \in 1..Len(ChunkOf(c)) : answer[c].verdicts[i] = "posted" =>
                \E k \in DOMAIN entries : entries[k].row = ChunkOf(c)[i]

Sender(c) ==
  /\ known[c] <= ServerHead
  /\ IsInjective(todo[c]) /\ ToSet(todo[c]) \subseteq Mine(c)
  /\ offset[c] <= Len(todo[c])
  /\ pc[c] = "done" <=> offset[c] = Len(todo[c])
  /\ \A j \in (offset[c] + 1)..Len(todo[c]) : mark[todo[c][j]] = "pending"
  /\ AnswerFits(c)
  /\ \A i \in DOMAIN entries : entries[i].run = run[c] => entries[i].row \notin Unsaid(c)

\* Whose a row is, ran as often as its entries say.
Sources ==
  \A i \in DOMAIN entries : \A c \in Clients :
    entries[i].row \in Mine(c) => entries[i].run <= run[c]

IInv ==
  /\ Shape
  /\ \A q \in wire : Request(q)
  /\ OneEach
  /\ \A c \in Clients : Sender(c)
  /\ Sources
  /\ OncePerRun
  /\ PostedIsBooked

-----------------------------------------------------------------------------
(***************************************************************************)
(* Rows in their order.                                                    *)
(***************************************************************************)

Increasing(s, I) ==
  s \in [1..Cardinality(I) -> I] /\ \A j, k \in DOMAIN s : j < k => s[j] < s[k]

\* Any positions can be put in order: take away the last.
LEMMA IncreasingExists ==
  ASSUME NEW n \in Nat, NEW I \in SUBSET (1..n)
  PROVE  \E s : Increasing(s, I)
<1> DEFINE R == OpToRel(<, Nat)
           W == {m \in Nat : \E J \in SUBSET (1..m) : ~ \E s : Increasing(s, J)}
<1> SUFFICES ASSUME n \in W PROVE FALSE
  OBVIOUS
<1>1. PICK m \in W : \A k \in W : ~(<<k, m>> \in R)
  <2>1. IsWellFoundedOn(R, Nat)
    BY NatLessThanWellFounded
  <2>2. W \subseteq Nat /\ W # {}
    OBVIOUS
  <2> HIDE DEF R, W
  <2> QED
    BY <2>1, <2>2, WFMin
<1>2. m \in Nat
  OBVIOUS
<1>3. PICK J \in SUBSET (1..m) : ~ \E s : Increasing(s, J)
  OBVIOUS
<1>4. IsFiniteSet(J) /\ Cardinality(J) \in Nat
  <2>1. IsFiniteSet(1..m)
    BY <1>2, FS_Interval
  <2> QED
    BY <2>1, FS_Subset, FS_CardinalityType
<1>5. m # 0
  <2> SUFFICES ASSUME m = 0 PROVE FALSE
    OBVIOUS
  <2>1. J = {}
    OBVIOUS
  <2>2. Cardinality({}) = 0
    BY FS_EmptySet
  <2>3. Increasing([k \in 1..Cardinality({}) |-> k], {})
    BY <2>2 DEF Increasing
  <2> QED
    BY <1>3, <2>1, <2>3
<1>6. m - 1 \in Nat /\ m - 1 < m
  BY <1>2, <1>5
<1>7. \A K \in SUBSET (1..(m - 1)) : \E s : Increasing(s, K)
  BY <1>1, <1>6 DEF OpToRel
<1>8. J \ {m} \in SUBSET (1..(m - 1))
  BY <1>2
<1>9. PICK s : Increasing(s, J \ {m})
  BY <1>7, <1>8
<1>10. m \in J
  BY <1>3, <1>9, <1>7, <1>8, J \ {m} = J \/ m \in J
<1> DEFINE l == Cardinality(J \ {m})
           t == [k \in 1..(l + 1) |-> IF k <= l THEN s[k] ELSE m]
<1>11. l \in Nat /\ Cardinality(J) = l + 1
  <2>1. l = Cardinality(J) - 1 /\ IsFiniteSet(J \ {m})
    BY <1>4, <1>10, FS_RemoveElement
  <2>2. l \in Nat
    BY <2>1, FS_CardinalityType
  <2> HIDE DEF l
  <2> QED
    BY <1>4, <2>1, <2>2
<1>12. /\ \A k \in 1..l : s[k] \in J /\ s[k] < m
       /\ \A j, k \in 1..l : j < k => s[j] < s[k]
  <2>1. s \in [1..l -> J \ {m}] /\ \A j, k \in 1..l : j < k => s[j] < s[k]
    BY <1>9 DEF Increasing
  <2>2. \A i \in J \ {m} : i \in J /\ i < m
    BY <1>2, <1>8
  <2> HIDE DEF l, W
  <2> QED
    BY <2>1, <2>2
<1> HIDE DEF l
<1>13. t \in [1..(l + 1) -> J]
  BY <1>10, <1>11, <1>12
<1>14. \A j, k \in 1..(l + 1) : j < k => t[j] < t[k]
  BY <1>11, <1>12
<1>15. Increasing(t, J)
  BY <1>11, <1>13, <1>14 DEF Increasing
<1> QED
  BY <1>3, <1>15

LEMMA AscendingIs ==
  ASSUME NEW n \in Nat, NEW I \in SUBSET (1..n)
  PROVE  /\ Cardinality(I) \in Nat
         /\ Ascending(I) \in [1..Cardinality(I) -> I]
         /\ \A j, k \in 1..Cardinality(I) : Ascending(I)[j] = Ascending(I)[k] => j = k
         /\ \A i \in I : \E k \in 1..Cardinality(I) : Ascending(I)[k] = i
<1>1. IsFiniteSet(I) /\ Cardinality(I) \in Nat
  <2>1. IsFiniteSet(1..n)
    BY FS_Interval
  <2> QED
    BY <2>1, FS_Subset, FS_CardinalityType
<1> DEFINE N == 1..Cardinality(I)
           s == Ascending(I)
<1>2. s \in [N -> I] /\ \A j, k \in DOMAIN s : j < k => s[j] < s[k]
  <2>1. \E u \in [N -> I] : \A j, k \in DOMAIN u : j < k => u[j] < u[k]
    BY IncreasingExists DEF Increasing
  <2> QED
    BY <2>1 DEF Ascending
<1>3. \A j, k \in N : s[j] = s[k] => j = k
  <2> SUFFICES ASSUME NEW j \in N, NEW k \in N, s[j] = s[k], j # k
               PROVE  FALSE
    OBVIOUS
  <2>1. j \in Nat /\ k \in Nat /\ (j < k \/ k < j)
    BY <1>1
  <2>2. s[j] < s[k] \/ s[k] < s[j]
    BY <1>2, <2>1
  <2>3. \A i \in I : i \in Nat
    OBVIOUS
  <2>4. s[j] \in I /\ s[k] \in I
    BY <1>2
  <2>5. \A x \in Nat : ~(x < x)
    OBVIOUS
  <2>6. s[j] < s[j]
    BY <2>2
  <2> HIDE DEF s
  <2> QED
    BY <2>3, <2>4, <2>5, <2>6
<1>4. s \in Injection(N, I)
  BY <1>2, <1>3 DEF Injection, IsInjective
<1>5. Cardinality(N) = Cardinality(I)
  BY <1>1, FS_Interval
<1>6. s \in Surjection(N, I)
  <2> HIDE DEF N, s
  <2> QED
    BY <1>1, <1>4, <1>5, FS_Injection
<1> QED
  BY <1>1, <1>2, <1>3, <1>6 DEF Surjection

\* The rows at some positions of a batch without repetitions are those rows,
\* without repetitions.
LEMMA AtRows ==
  ASSUME NEW S, NEW rows \in Seq(S), IsInjective(rows), NEW I \in SUBSET DOMAIN rows
  PROVE  /\ At(rows, I) \in Seq(S)
         /\ IsInjective(At(rows, I))
         /\ ToSet(At(rows, I)) = {rows[i] : i \in I}
         /\ Len(At(rows, I)) = Cardinality(I)
<1>1. /\ Len(rows) \in Nat /\ DOMAIN rows = 1..Len(rows)
      /\ \A i \in DOMAIN rows : rows[i] \in S
  BY LenProperties, ElementOfSeq
<1> DEFINE n == Cardinality(I)
           s == Ascending(I)
           t == At(rows, I)
<1>2. /\ n \in Nat /\ s \in [1..n -> I]
      /\ \A j, k \in 1..n : s[j] = s[k] => j = k
      /\ \A i \in I : \E k \in 1..n : s[k] = i
  BY <1>1, AscendingIs
<1>3. t = [k \in 1..n |-> rows[s[k]]]
  BY <1>2 DEF At
<1> HIDE DEF n, s, t
<1>4. t \in [1..n -> S]
  BY <1>1, <1>2, <1>3
<1>5. t \in Seq(S)
  BY <1>2, <1>4, SeqDef
<1>6. IsInjective(t)
  BY <1>1, <1>2, <1>3 DEF IsInjective
<1>7. ToSet(t) = {rows[i] : i \in I}
  BY <1>2, <1>3 DEF ToSet
<1>8. Len(t) = n
  BY <1>2, <1>4, <1>5, LenProperties
<1> QED
  BY <1>5, <1>6, <1>7, <1>8 DEF t, n

-----------------------------------------------------------------------------
(***************************************************************************)
(* Chunks and batches.                                                     *)
(***************************************************************************)

LEMMA ChunkIs ==
  ASSUME Shape, NEW c \in Clients, Sender(c)
  PROVE  /\ todo[c] \in Seq(Rows) /\ Len(todo[c]) \in Nat /\ offset[c] \in Nat
         /\ ChunkOf(c) \in Seq(Rows) /\ Len(ChunkOf(c)) \in 0..Chunk
         /\ DOMAIN ChunkOf(c) = 1..Len(ChunkOf(c))
         /\ offset[c] + Len(ChunkOf(c)) <= Len(todo[c])
         /\ offset[c] < Len(todo[c]) => Len(ChunkOf(c)) # 0
         /\ \A i \in DOMAIN ChunkOf(c) : /\ ChunkOf(c)[i] = todo[c][offset[c] + i]
                                         /\ offset[c] + i \in DOMAIN todo[c]
         /\ ToSet(ChunkOf(c)) \subseteq ToSet(todo[c])
         /\ IsInjective(ChunkOf(c))
<1> DEFINE s == todo[c]
           o == offset[c]
           last == IF o + Chunk < Len(s) THEN o + Chunk ELSE Len(s)
           t == ChunkOf(c)
<1>1. s \in Seq(Rows) /\ o \in Nat /\ o <= Len(s) /\ Chunk \in Nat \ {0} /\ IsInjective(s)
  BY SyncClientAssumption DEF Shape, Sender
<1>2. Len(s) \in Nat /\ DOMAIN s = 1..Len(s) /\ \A i \in 1..Len(s) : s[i] \in Rows
  BY <1>1, LenProperties, ElementOfSeq
<1>3. t = SubSeq(s, o + 1, last)
  BY DEF ChunkOf
<1> HIDE DEF s, o, t
<1>4. /\ last \in Nat /\ last >= o /\ last <= Len(s) /\ last - o <= Chunk
      /\ o < Len(s) => last > o
  BY <1>1, <1>2
<1> HIDE DEF last
<1>5. \A i \in (o + 1)..last : s[i] \in Rows
  BY <1>1, <1>2, <1>4
<1>6. o + 1 \in Int /\ last \in Int
  BY <1>1, <1>4
<1>7. /\ t \in Seq(Rows)
      /\ Len(t) = IF o + 1 <= last THEN last - (o + 1) + 1 ELSE 0
      /\ \A i \in 1..(last - (o + 1) + 1) : t[i] = s[(o + 1) + i - 1]
  BY <1>3, <1>5, <1>6, SubSeqProperties
<1>8. Len(t) = last - o /\ DOMAIN t = 1..(last - o)
  BY <1>1, <1>4, <1>7, LenProperties
<1>9. \A i \in 1..(last - o) : t[i] = s[o + i] /\ o + i \in DOMAIN s
  BY <1>1, <1>2, <1>4, <1>7
<1>10. ToSet(t) \subseteq ToSet(s)
  BY <1>8, <1>9 DEF ToSet
<1>11. IsInjective(t)
  <2> SUFFICES ASSUME NEW i \in 1..(last - o), NEW j \in 1..(last - o), t[i] = t[j]
               PROVE  i = j
    BY <1>8 DEF IsInjective
  <2>1. o + i = o + j
    BY <1>1, <1>9 DEF IsInjective
  <2> QED
    BY <1>1, <1>4, <2>1
<1>12. Len(t) \in 0..Chunk /\ o + Len(t) <= Len(s) /\ (o < Len(s) => Len(t) # 0)
  BY <1>1, <1>2, <1>4, <1>8
<1>13. DOMAIN t = 1..Len(t)
  BY <1>8
<1>14. \A i \in DOMAIN t : t[i] = s[o + i] /\ o + i \in DOMAIN s
  BY <1>8, <1>9
<1> QED
  BY <1>1, <1>2, <1>7, <1>10, <1>11, <1>12, <1>13, <1>14 DEF s, o, t

\* A row is one member's.
LEMMA RowsApart ==
  ASSUME NEW c \in Clients, NEW d \in Clients, NEW r, r \in Mine(c), r \in Mine(d)
  PROVE  c = d
BY SyncClientAssumption DEF Mine

LEMMA HeadIs == Shape => ServerHead \in Nat /\ Len(entries) \in Nat
<1> SUFFICES ASSUME Shape PROVE ServerHead \in Nat /\ Len(entries) \in Nat
  OBVIOUS
<1>1. Len(entries) \in Nat /\ others \in Nat
  BY LenProperties, SyncClientAssumption DEF Shape
<1> QED
  BY <1>1 DEF ServerHead

LEMMA HeadNext == Shape' => (ServerHead \in Nat /\ Len(entries) \in Nat)'
BY HeadIs, PTL

LEMMA Numbers ==
  Shape => /\ \A c \in Clients : run[c] \in Nat /\ run[c] \in 1..MaxRuns /\ known[c] \in Nat
           /\ \A i \in DOMAIN entries : /\ entries[i].run \in Nat /\ entries[i].row \in Rows
                                        /\ entries[i].run \in 1..MaxRuns
<1> SUFFICES ASSUME Shape
             PROVE  /\ \A c \in Clients : run[c] \in Nat /\ run[c] \in 1..MaxRuns /\ known[c] \in Nat
                    /\ \A i \in DOMAIN entries : /\ entries[i].run \in Nat /\ entries[i].row \in Rows
                                                 /\ entries[i].run \in 1..MaxRuns
  OBVIOUS
<1>1. \A n \in 1..MaxRuns : n \in Nat
  BY SyncClientAssumption
<1>2. \A c \in Clients : run[c] \in 1..MaxRuns /\ known[c] \in Nat
  BY DEF Shape
<1>3. \A i \in DOMAIN entries : entries[i] \in EntryRecord
  BY ElementOfSeq, LenProperties DEF Shape
<1>4. \A i \in DOMAIN entries : entries[i].run \in 1..MaxRuns /\ entries[i].row \in Rows
  BY <1>3 DEF EntryRecord
<1> QED
  BY <1>1, <1>2, <1>4

LEMMA NumbersNext ==
  Shape' => (\A c \in Clients : run[c] \in Nat /\ run[c] \in 1..MaxRuns /\ known[c] \in Nat)'
BY Numbers, PTL

\* What a run has not asked for yet comes after its chunk.
LEMMA UnsaidIs ==
  ASSUME Shape, NEW c \in Clients, Sender(c)
  PROVE  /\ Unsaid(c) \subseteq ToSet(todo[c])
         /\ ToSet(todo[c]) \subseteq Mine(c)
         /\ Asked(c) \in Nat
         /\ Asked(c) = offset[c] + Len(ChunkOf(c)) => Unsaid(c) \cap ToSet(ChunkOf(c)) = {}
<1> DEFINE n == Len(ChunkOf(c))
<1>1. /\ todo[c] \in Seq(Rows) /\ offset[c] \in Nat /\ n \in Nat
      /\ DOMAIN todo[c] = 1..Len(todo[c]) /\ Len(todo[c]) \in Nat
  <2>1. Chunk \in Nat
    BY SyncClientAssumption
  <2> QED
    BY <2>1, ChunkIs, LenProperties
<1>2. Asked(c) \in Nat
  BY <1>1 DEF Asked
<1>3. Unsaid(c) \subseteq ToSet(todo[c])
  BY <1>1, <1>2 DEF Unsaid, ToSet
<1>4. ASSUME Asked(c) = offset[c] + n, NEW j \in (Asked(c) + 1)..Len(todo[c]),
             NEW i \in 1..n, todo[c][j] = ChunkOf(c)[i]
      PROVE  FALSE
  <2>1. /\ DOMAIN ChunkOf(c) = 1..n
        /\ ChunkOf(c)[i] = todo[c][offset[c] + i] /\ offset[c] + i \in DOMAIN todo[c]
    BY ChunkIs
  <2>2. j \in DOMAIN todo[c]
    BY <1>1, <1>2
  <2>3. j = offset[c] + i
    BY <1>4, <2>1, <2>2 DEF Sender, IsInjective
  <2> HIDE DEF n
  <2> QED
    BY <1>1, <1>4, <2>3
<1>5. ToSet(ChunkOf(c)) = {ChunkOf(c)[i] : i \in 1..n}
  BY ChunkIs DEF ToSet
<1>6. Asked(c) = offset[c] + n => Unsaid(c) \cap ToSet(ChunkOf(c)) = {}
  BY <1>4, <1>5 DEF Unsaid
<1> QED
  BY <1>2, <1>3, <1>6 DEF Sender

-----------------------------------------------------------------------------
(***************************************************************************)
(* What a step leaves alone.                                               *)
(***************************************************************************)

\* The server's log and entries only grow.
Grows ==
  /\ ServerHead <= ServerHead'
  /\ \A i \in DOMAIN entries : i \in DOMAIN entries' /\ entries'[i].row = entries[i].row

Undisturbed(c) ==
  /\ known'[c] = known[c] /\ pc'[c] = pc[c] /\ run'[c] = run[c] /\ todo'[c] = todo[c]
  /\ offset'[c] = offset[c] /\ answer'[c] = answer[c]

LEMMA SenderKept ==
  ASSUME NEW c \in Clients, Shape, Shape', Sender(c), Grows, Undisturbed(c),
         \A i \in DOMAIN entries' : entries'[i].run = run[c] => entries'[i].row \notin Unsaid(c),
         \A r \in Mine(c) : mark'[r] = mark[r]
  PROVE  Sender(c)'
<1>0. Mine(c)' = Mine(c)
  BY DEF Mine
<1>1. ChunkOf(c)' = ChunkOf(c)
  BY DEF ChunkOf, Undisturbed
<1>2. Asked(c)' = Asked(c)
  BY <1>1 DEF Asked, Undisturbed
<1>3. Unsaid(c)' = Unsaid(c)
  BY <1>2 DEF Unsaid, Undisturbed
<1>4. known[c] \in Nat /\ ServerHead \in Nat /\ ServerHead' \in Nat
  BY HeadIs, HeadNext DEF Shape
<1>5. known'[c] <= ServerHead'
  BY <1>4 DEF Sender, Grows, Undisturbed
<1>6. \A j \in (offset[c] + 1)..Len(todo[c]) : mark'[todo[c][j]] = "pending"
  <2>1. ASSUME NEW j \in (offset[c] + 1)..Len(todo[c])
        PROVE  todo[c][j] \in Mine(c)
    <3>1. j \in DOMAIN todo[c]
      BY ChunkIs, LenProperties
    <3> QED
      BY <3>1 DEF Sender, ToSet
  <2> QED
    BY <2>1 DEF Sender
<1>7. \A n \in 0..ServerHead : n \in 0..ServerHead'
  BY <1>4 DEF Grows
<1>8. AnswerFits(c)'
  <2>1. AnswerFits(c)
    BY DEF Sender
  <2>2. CASE answer[c] = None
    BY <2>2 DEF AnswerFits, Undisturbed
  <2>3. CASE answer[c].code = "error" /\ pc[c] = "waiting"
    BY <2>3 DEF AnswerFits, Undisturbed
  <2>4. CASE pc[c] = "waiting" /\ answer[c].code = "conflict" /\ answer[c].head \in 0..ServerHead
    BY <1>7, <2>4 DEF AnswerFits, Undisturbed
  <2>5. ASSUME pc[c] = "waiting",
               answer[c].code = "ok", answer[c].head \in 0..ServerHead,
               answer[c].verdicts \in [1..Len(ChunkOf(c)) -> Verdicted],
               \A i \in 1..Len(ChunkOf(c)) : answer[c].verdicts[i] = "posted" =>
                 \E k \in DOMAIN entries : entries[k].row = ChunkOf(c)[i]
        PROVE  AnswerFits(c)'
    <3>1. ASSUME NEW i \in 1..Len(ChunkOf(c)), answer[c].verdicts[i] = "posted"
          PROVE  \E k \in DOMAIN entries' : entries'[k].row = ChunkOf(c)[i]
      <4>1. PICK k \in DOMAIN entries : entries[k].row = ChunkOf(c)[i]
        BY <2>5, <3>1
      <4>2. k \in DOMAIN entries' /\ entries'[k].row = ChunkOf(c)[i]
        BY <4>1 DEF Grows
      <4> QED
        BY <4>2
    <3>2. answer[c].head \in 0..ServerHead'
      BY <1>7, <2>5
    <3> QED
      BY <1>1, <2>5, <3>1, <3>2 DEF AnswerFits, Undisturbed, Verdicted
  <2> QED
    BY <2>1, <2>2, <2>3, <2>4, <2>5 DEF AnswerFits
<1> QED
  BY <1>0, <1>3, <1>5, <1>6, <1>8 DEF Sender, Undisturbed

LEMMA RequestKept ==
  ASSUME NEW q, Request(q), Shape, Shape', Grows, NEW c, c = q.client,
         run[c] <= run'[c], Current(q)' => Awaited(q)',
         \A i \in DOMAIN entries' : entries'[i].run = q.run => entries'[i].row \notin ToSet(q.rows)
  PROVE  Request(q)'
<1>1. /\ c \in Clients
      /\ run[c] \in Nat /\ run'[c] \in Nat
      /\ q.run \in 1..run[c]
      /\ ServerHead \in Nat /\ ServerHead' \in Nat
      /\ q.head \in 0..ServerHead
  <2>1. c \in Clients /\ q.run \in 1..run[c] /\ q.head \in 0..ServerHead
    BY DEF Request
  <2>2. MaxRuns \in Int
    BY SyncClientAssumption
  <2>3. run[c] \in 1..MaxRuns /\ run'[c] \in 1..MaxRuns
    BY <2>1 DEF Shape
  <2> QED
    BY <2>1, <2>2, <2>3, HeadIs, HeadNext
<1>3. q.run \in 1..run'[c]
  BY <1>1
<1>4. q.head \in 0..ServerHead'
  BY <1>1 DEF Grows
<1>5. Mine(c)' = Mine(c)
  BY DEF Mine
<1>7. /\ q.rows \in Seq(Rows) /\ Len(q.rows) \in 1..Chunk
      /\ IsInjective(q.rows) /\ ToSet(q.rows) \subseteq Mine(c)
  BY DEF Request
<1> QED
  BY <1>1, <1>3, <1>4, <1>5, <1>7 DEF Request

LEMMA RequestStands ==
  ASSUME NEW q, Request(q), NEW c, c = q.client, Undisturbed(c), Shape
  PROVE  run[c] <= run'[c] /\ (Current(q)' => Awaited(q)')
<1>1. run[c] \in Int
  BY SyncClientAssumption DEF Request, Shape
<1>2. Current(q)' => Awaited(q)'
  BY DEF Request, Current, Awaited, Undisturbed, ChunkOf
<1> QED
  BY <1>1, <1>2 DEF Undisturbed

\* A step of one client, which reaches the server at most through the wire.
LEMMA ClientFrame ==
  ASSUME IInv, NEW c \in Clients, UNCHANGED serverVars, Shape', Sender(c)', run[c] <= run'[c],
         \A d \in Clients : d # c => Undisturbed(d),
         \A d \in Clients : d # c => \A r \in Mine(d) : mark'[r] = mark[r],
         PostedIsBooked', OneEach',
         \A q \in wire' : q \in wire \/ q.client = c,
         \A q \in wire' : q.client = c => Request(q)'
  PROVE  IInv'
<1>1. entries' = entries /\ ServerHead' = ServerHead /\ ServerHead \in Nat
  BY HeadIs DEF IInv, serverVars, ServerHead
<1>2. Grows
  BY <1>1 DEF Grows
<1>3. ASSUME NEW d \in Clients
      PROVE  Sender(d)'
  <2>1. CASE d # c
    BY <1>1, <1>2, <2>1, SenderKept DEF IInv, Sender
  <2> QED
    BY <2>1
<1>4. ASSUME NEW q \in wire'
      PROVE  Request(q)'
  <2>1. CASE q.client = c
    BY <2>1
  <2>2. CASE q.client # c
    <3>1. Request(q) /\ Shape
      BY <2>2 DEF IInv
    <3>2. PICK d : d = q.client
      OBVIOUS
    <3>3. d \in Clients
      BY <3>1, <3>2 DEF Request
    <3>4. Undisturbed(d)
      BY <2>2, <3>2, <3>3
    <3>5. \A i \in DOMAIN entries' : entries'[i].run = q.run => entries'[i].row \notin ToSet(q.rows)
      BY <1>1, <3>1 DEF Request
    <3>6. run[d] <= run'[d] /\ (Current(q)' => Awaited(q)')
      BY <3>1, <3>2, <3>4, RequestStands
    <3> QED
      BY <1>2, <3>1, <3>2, <3>5, <3>6, RequestKept
  <2> QED
    BY <2>1, <2>2
<1>5. Sources'
  <2> SUFFICES ASSUME NEW i \in DOMAIN entries', NEW d \in Clients, entries'[i].row \in Mine(d)'
               PROVE  entries'[i].run <= run'[d]
    BY DEF Sources
  <2>1. entries[i].run <= run[d]
    BY <1>1 DEF IInv, Sources, Mine
  <2>2. run[d] <= run'[d]
    <3>1. run[d] \in Int
      BY SyncClientAssumption DEF IInv, Shape
    <3> QED
      BY <3>1 DEF Undisturbed
  <2>3. entries[i].run \in Nat /\ run[d] \in Nat /\ run'[d] \in Nat
    BY <1>1, Numbers, NumbersNext DEF IInv
  <2> QED
    BY <1>1, <2>1, <2>2, <2>3
<1>6. OncePerRun'
  BY <1>1 DEF IInv, OncePerRun
<1> QED
  BY <1>3, <1>4, <1>5, <1>6 DEF IInv

-----------------------------------------------------------------------------
(***************************************************************************)
(* The client.                                                             *)
(***************************************************************************)

\* A client that is not waiting for an answer, or has it, has no request of its
\* run on the wire.
LEMMA NoneCurrent ==
  ASSUME IInv, NEW q \in wire, pc[q.client] \notin {"waiting", "stopped"} \/ answer[q.client] # None
  PROVE  ~Current(q)
BY DEF IInv, Request, Awaited

\* A step of a client within a run.
LEMMA SenderMoves ==
  ASSUME IInv, NEW c \in Clients, UNCHANGED serverVars, Shape',
         run'[c] = run[c], todo'[c] = todo[c],
         known'[c] <= ServerHead, offset'[c] <= Len(todo[c]),
         pc'[c] = "done" <=> offset'[c] = Len(todo[c]),
         \A j \in (offset'[c] + 1)..Len(todo[c]) : mark'[todo[c][j]] = "pending",
         AnswerFits(c)', Asked(c) <= Asked(c)', Asked(c)' \in Nat
  PROVE  Sender(c)'
<1>1. entries' = entries /\ ServerHead' = ServerHead /\ Mine(c)' = Mine(c)
  BY DEF serverVars, ServerHead, Mine
<1>2. Asked(c) \in Nat
  BY UnsaidIs DEF IInv
<1>3. Unsaid(c)' \subseteq Unsaid(c)
  BY <1>2 DEF Unsaid
<1>4. \A i \in DOMAIN entries' : entries'[i].run = run'[c] => entries'[i].row \notin Unsaid(c)'
  BY <1>1, <1>3 DEF IInv, Sender
<1> QED
  BY <1>1, <1>4 DEF IInv, Sender

LEMMA SendStep ==
  ASSUME IInv, NEW c \in Clients, Send(c),
         NEW q, q = [client |-> c, run |-> run[c], rows |-> ChunkOf(c), head |-> known[c],
                     attempt |-> tries[c]]
  PROVE  IInv'
<1>1. /\ pc[c] = "sending" /\ pc' = [pc EXCEPT ![c] = "waiting"]
      /\ wire' = wire \cup {q}
      /\ UNCHANGED <<entries, others, fenced, faults, known, run, todo, offset, tries, answer, mark>>
  BY DEF Send, serverVars
<1>2. Shape /\ Sender(c) /\ OneEach
  BY DEF IInv
<1>3. pc'[c] = "waiting" /\ \A d \in Clients : d # c => pc'[d] = pc[d]
  BY <1>1, <1>2 DEF Shape
<1>4. Shape'
  BY <1>1, <1>2 DEF Shape
<1>5. answer[c] = None /\ answer[c].code # "conflict"
  BY <1>1, <1>2 DEF Sender, AnswerFits, None
<1>6. /\ ChunkOf(c)' = ChunkOf(c)
      /\ offset[c] \in Nat /\ Len(todo[c]) \in Nat /\ offset[c] < Len(todo[c])
      /\ Len(ChunkOf(c)) \in 1..Chunk /\ Len(ChunkOf(c)) \in Nat
  <2>1. ChunkOf(c)' = ChunkOf(c)
    BY <1>1 DEF ChunkOf
  <2>2. offset[c] \in Nat /\ Len(todo[c]) \in Nat /\ offset[c] < Len(todo[c])
    BY <1>1, <1>2, ChunkIs DEF Sender
  <2>3. Len(ChunkOf(c)) \in 0..Chunk /\ Len(ChunkOf(c)) # 0 /\ Chunk \in Nat
    BY <1>2, <2>2, ChunkIs, SyncClientAssumption
  <2> QED
    BY <2>1, <2>2, <2>3
<1>7. Asked(c) = offset[c] /\ Asked(c)' = offset[c] + Len(ChunkOf(c))
  BY <1>1, <1>3, <1>5, <1>6 DEF Asked
<1>8. Sender(c)'
  <2>1. AnswerFits(c)'
    BY <1>1, <1>5 DEF AnswerFits
  <2>2. Asked(c) <= Asked(c)' /\ Asked(c)' \in Nat
    BY <1>6, <1>7
  <2> QED
    BY <1>1, <1>2, <1>3, <1>4, <1>6, <2>1, <2>2, SenderMoves DEF serverVars, Sender
<1>9. OneEach'
  <2>1. \A p \in wire : p.client = c => p.run # run[c]
    BY <1>1, NoneCurrent DEF Current
  <2>2. q.client = c /\ q.run = run[c]
    OBVIOUS
  <2> QED
    BY <1>1, <1>2, <2>1, <2>2 DEF OneEach
<1>10. Request(q)'
  <2>1. /\ q.client = c /\ q.run = run[c] /\ q.rows = ChunkOf(c) /\ q.head = known[c]
    OBVIOUS
  <2>2. run[c] \in 1..run[c] /\ known[c] \in 0..ServerHead
    BY <1>2, HeadIs, Numbers DEF Sender
  <2>3. /\ ChunkOf(c) \in Seq(Rows) /\ IsInjective(ChunkOf(c))
        /\ ToSet(ChunkOf(c)) \subseteq Mine(c)
    BY <1>2, ChunkIs DEF Sender
  <2>4. \A i \in DOMAIN entries : entries[i].run = run[c] => entries[i].row \notin ToSet(ChunkOf(c))
    <3>1. ToSet(ChunkOf(c)) \subseteq Unsaid(c)
      <4>1. \A i \in DOMAIN ChunkOf(c) : /\ i \in Nat /\ i >= 1
                                         /\ ChunkOf(c)[i] = todo[c][offset[c] + i]
                                         /\ offset[c] + i \in DOMAIN todo[c]
                                         /\ DOMAIN todo[c] = 1..Len(todo[c])
        BY <1>2, <1>6, ChunkIs, LenProperties
      <4>2. \A i \in DOMAIN ChunkOf(c) : offset[c] + i \in (offset[c] + 1)..Len(todo[c])
        BY <1>6, <4>1
      <4> QED
        BY <1>7, <4>1, <4>2 DEF Unsaid, ToSet
    <3> QED
      BY <1>2, <3>1 DEF Sender
  <2>5. ServerHead' = ServerHead /\ Mine(c)' = Mine(c)
    BY <1>1 DEF ServerHead, Mine
  <2>6. Awaited(q)'
    BY <1>1, <1>3, <1>5, <1>6, <2>1 DEF Awaited
  <2>7. /\ q.client \in Clients /\ q.run \in 1..run'[c]
        /\ q.rows \in Seq(Rows) /\ Len(q.rows) \in 1..Chunk
        /\ IsInjective(q.rows) /\ ToSet(q.rows) \subseteq Mine(c)' /\ q.head \in 0..ServerHead'
    BY <1>1, <1>6, <2>1, <2>2, <2>3, <2>5
  <2> QED
    BY ONLY <1>1, <2>1, <2>4, <2>6, <2>7 DEF Request
<1>11. ASSUME NEW p \in wire', p.client = c
       PROVE  Request(p)'
  <2>1. CASE p \in wire
    <3>1. ~Current(p)'
      BY <1>1, <1>11, <2>1, NoneCurrent DEF Current
    <3>2. Request(p) /\ Grows /\ run[c] <= run'[c]
      BY <1>1, <1>2, <2>1, HeadIs, Numbers DEF IInv, Grows, ServerHead
    <3>3. \A i \in DOMAIN entries' : entries'[i].run = p.run => entries'[i].row \notin ToSet(p.rows)
      BY <1>1, <3>2 DEF Request
    <3> QED
      BY <1>2, <1>4, <1>11, <3>1, <3>2, <3>3, RequestKept
  <2> QED
    BY <1>1, <1>10, <2>1
<1>12. /\ \A d \in Clients : d # c => Undisturbed(d)
       /\ run[c] <= run'[c]
       /\ \A p \in wire' : p \in wire \/ p.client = c
       /\ PostedIsBooked'
  <2>1. \A d \in Clients : d # c => Undisturbed(d)
    BY <1>1, <1>3 DEF Undisturbed
  <2>2. run[c] <= run'[c]
    BY <1>1, <1>2, Numbers
  <2>3. PostedIsBooked'
    BY <1>1 DEF IInv, PostedIsBooked
  <2> QED
    BY <1>1, <2>1, <2>2, <2>3
<1> QED
  BY <1>1, <1>4, <1>8, <1>9, <1>11, <1>12, ClientFrame DEF serverVars

\* A step of a client that sends nothing.
LEMMA SettleFrame ==
  ASSUME IInv, NEW c \in Clients, UNCHANGED <<serverVars, wire>>, Shape', Sender(c)',
         run[c] <= run'[c],
         \A d \in Clients : d # c => Undisturbed(d),
         \A d \in Clients : d # c => \A r \in Mine(d) : mark'[r] = mark[r],
         PostedIsBooked',
         \A p \in wire : p.client = c /\ Current(p)' => Awaited(p)'
  PROVE  IInv'
<1>1. OneEach'
  BY DEF IInv, OneEach
<1>2. ASSUME NEW p \in wire', p.client = c
      PROVE  Request(p)'
  <2>1. Request(p) /\ Shape /\ (Current(p)' => Awaited(p)')
    BY <1>2 DEF IInv
  <2>2. Grows /\ entries' = entries
    BY <2>1, HeadIs DEF Grows, serverVars, ServerHead
  <2>3. \A i \in DOMAIN entries' : entries'[i].run = p.run => entries'[i].row \notin ToSet(p.rows)
    BY <2>1, <2>2 DEF Request
  <2> QED
    BY <1>2, <2>1, <2>2, <2>3, RequestKept
<1> QED
  BY <1>1, <1>2, ClientFrame

LEMMA OnConflictStep ==
  ASSUME IInv, NEW c \in Clients, OnConflict(c)
  PROVE  IInv'
<1>0. Shape /\ Sender(c)
  BY DEF IInv
<1>1. /\ pc[c] = "waiting" /\ answer[c].code = "conflict"
      /\ answer' = [answer EXCEPT ![c] = None]
      /\ known' = [known EXCEPT ![c] = answer[c].head]
      /\ \/ pc' = [pc EXCEPT ![c] = "sending"] /\ tries[c] < MaxRetries
            /\ tries' = [tries EXCEPT ![c] = @ + 1]
         \/ pc' = [pc EXCEPT ![c] = "stopped"] /\ tries' = tries
      /\ UNCHANGED <<entries, others, fenced, wire, faults, run, todo, offset, mark>>
  BY DEF OnConflict, Answered, serverVars
<1>2. answer[c] # None /\ answer[c].head \in 0..ServerHead /\ ServerHead \in Nat
  BY <1>0, <1>1, HeadIs DEF Sender, AnswerFits, None
<1>3. /\ answer'[c] = None /\ pc'[c] \in {"sending", "stopped"} /\ known'[c] = answer[c].head
      /\ \A d \in Clients : d # c => Undisturbed(d)
  BY <1>0, <1>1 DEF Shape, Undisturbed
<1>4. tries' \in [Clients -> 0..MaxRetries]
  <2>1. MaxRetries \in Nat
    BY SyncClientAssumption
  <2>2. tries \in [Clients -> 0..MaxRetries] /\ tries[c] \in 0..MaxRetries
    BY <1>0 DEF Shape
  <2>3. tries[c] < MaxRetries => tries[c] + 1 \in 0..MaxRetries
    BY <2>1, <2>2
  <2> QED
    BY <1>1, <2>2, <2>3
<1>5. Shape'
  <2>1. known \in [Clients -> Nat] /\ pc \in [Clients -> {"sending", "waiting", "stopped", "done"}]
    BY <1>0 DEF Shape
  <2>2. answer[c].head \in Nat
    BY <1>2
  <2>3. known' \in [Clients -> Nat]
    BY <1>1, <2>1, <2>2
  <2>4. pc' \in [Clients -> {"sending", "waiting", "stopped", "done"}]
    BY <1>1, <2>1
  <2> QED
    BY <1>0, <1>1, <1>4, <2>3, <2>4 DEF Shape
<1>6. Sender(c)'
  <2>1. AnswerFits(c)'
    BY <1>3 DEF AnswerFits
  <2>2. Asked(c) = offset[c]
    BY <1>1 DEF Asked
  <2>3. Asked(c)' = offset[c] \/ Asked(c)' = offset[c] + Len(ChunkOf(c))
    BY <1>1 DEF Asked, ChunkOf
  <2>4. offset[c] \in Nat /\ Len(ChunkOf(c)) \in Nat
    BY <1>0, ChunkIs, SyncClientAssumption
  <2>5. Asked(c) <= Asked(c)' /\ Asked(c)' \in Nat
    BY <2>2, <2>3, <2>4
  <2>6. known'[c] <= ServerHead
    BY <1>2, <1>3
  <2>7. /\ offset'[c] <= Len(todo[c])
        /\ pc'[c] = "done" <=> offset'[c] = Len(todo[c])
        /\ \A j \in (offset'[c] + 1)..Len(todo[c]) : mark'[todo[c][j]] = "pending"
    BY <1>0, <1>1, <1>3 DEF Sender
  <2> QED
    BY <1>1, <1>5, <2>1, <2>5, <2>6, <2>7, SenderMoves DEF serverVars
<1>7. \A p \in wire : p.client = c => ~Current(p)'
  BY <1>1, <1>2, NoneCurrent DEF Current
<1>8. PostedIsBooked' /\ run[c] <= run'[c]
  <2>1. PostedIsBooked'
    BY <1>1 DEF IInv, PostedIsBooked
  <2> QED
    BY <1>0, <1>1, <2>1, Numbers
<1> QED
  BY <1>1, <1>3, <1>5, <1>6, <1>7, <1>8, SettleFrame DEF serverVars

LEMMA OnErrorStep ==
  ASSUME IInv, NEW c \in Clients,
         OnError(c) \/ GiveUp(c)
  PROVE  IInv'
<1>0. Shape /\ Sender(c)
  BY DEF IInv
<1>1. /\ pc[c] = "waiting" /\ answer' = [answer EXCEPT ![c] = None]
      /\ pc' = [pc EXCEPT ![c] = "stopped"] /\ faults' \in 0..MaxFaults
      /\ UNCHANGED <<entries, others, fenced, wire, known, run, todo, offset, tries, mark>>
  <2>1. MaxFaults \in Nat
    BY SyncClientAssumption
  <2> QED
    BY <1>0, <2>1 DEF OnError, GiveUp, Answered, Failed, serverVars, Shape
<1>2. /\ answer'[c] = None /\ answer'[c].code # "conflict" /\ pc'[c] = "stopped"
      /\ \A d \in Clients : d # c => Undisturbed(d)
  BY <1>0, <1>1 DEF Shape, Undisturbed, None
<1>3. Shape'
  BY <1>0, <1>1 DEF Shape
<1>4. Sender(c)'
  <2>1. AnswerFits(c)'
    BY <1>2 DEF AnswerFits
  <2>2. Asked(c) = offset[c] \/ Asked(c) = offset[c] + Len(ChunkOf(c))
    BY DEF Asked
  <2>3. Asked(c)' = offset[c] + Len(ChunkOf(c))
    BY <1>1, <1>2 DEF Asked, ChunkOf
  <2>4. offset[c] \in Nat /\ Len(ChunkOf(c)) \in Nat
    BY <1>0, ChunkIs, SyncClientAssumption
  <2>5. Asked(c) <= Asked(c)' /\ Asked(c)' \in Nat
    BY <2>2, <2>3, <2>4
  <2>6. /\ known'[c] <= ServerHead
        /\ offset'[c] <= Len(todo[c])
        /\ pc'[c] = "done" <=> offset'[c] = Len(todo[c])
        /\ \A j \in (offset'[c] + 1)..Len(todo[c]) : mark'[todo[c][j]] = "pending"
    BY <1>0, <1>1, <1>2 DEF Sender
  <2> QED
    BY <1>1, <1>3, <2>1, <2>5, <2>6, SenderMoves DEF serverVars
<1>5. ASSUME NEW p \in wire, p.client = c, Current(p)'
      PROVE  Awaited(p)'
  <2>1. Awaited(p)
    BY <1>1, <1>5 DEF IInv, Request, Current
  <2>2. p.rows = ChunkOf(c)'
    BY <1>1, <1>5, <2>1 DEF Awaited, ChunkOf
  <2> QED
    BY <1>2, <1>5, <2>2 DEF Awaited
<1>6. PostedIsBooked' /\ run[c] <= run'[c]
  <2>1. PostedIsBooked'
    BY <1>1 DEF IInv, PostedIsBooked
  <2> QED
    BY <1>0, <1>1, <2>1, Numbers
<1> QED
  BY <1>1, <1>2, <1>3, <1>4, <1>5, <1>6, SettleFrame DEF serverVars

\* What an answer says of the rows of its chunk, and of no others.
LEMMA Marks ==
  ASSUME Shape, NEW c \in Clients, Sender(c), OnAnswer(c)
  PROVE  /\ answer[c] # None /\ answer[c].head \in 0..ServerHead
         /\ mark' \in [Rows -> {"pending"} \cup Verdicted]
         /\ \A r \in Rows : r \notin ToSet(ChunkOf(c)) => mark'[r] = mark[r]
         /\ \A r \in Rows : mark'[r] = "posted" =>
              mark[r] = "posted" \/ \E k \in DOMAIN entries : entries[k].row = r
<1> DEFINE v == answer[c].verdicts
           t == ChunkOf(c)
           n == Len(t)
<1>1. /\ answer[c].code = "ok"
      /\ mark' = [r \in Rows |->
           IF \E i \in DOMAIN v : todo[c][Position(c, i)] = r
           THEN v[CHOOSE i \in DOMAIN v : todo[c][Position(c, i)] = r]
           ELSE mark[r]]
  BY DEF OnAnswer, Answered
<1>2. /\ answer[c] # None /\ answer[c].head \in 0..ServerHead
      /\ v \in [1..n -> Verdicted]
      /\ \A i \in 1..n : v[i] = "posted" => \E k \in DOMAIN entries : entries[k].row = t[i]
  BY <1>1 DEF Sender, AnswerFits, None
<1>3. DOMAIN t = 1..n /\ \A i \in 1..n : todo[c][Position(c, i)] = t[i]
  BY ChunkIs DEF Position
<1>4. \A r \in Rows : mark[r] \in {"pending"} \cup Verdicted
  BY DEF Shape
<1> HIDE DEF v, t, n
<1>5. ASSUME NEW r \in Rows
      PROVE  \/ mark'[r] = mark[r] /\ \A i \in 1..n : t[i] # r
             \/ \E i \in 1..n : t[i] = r /\ mark'[r] = v[i]
  <2>1. CASE \E i \in DOMAIN v : todo[c][Position(c, i)] = r
    <3>1. mark'[r] = v[CHOOSE i \in DOMAIN v : todo[c][Position(c, i)] = r]
      BY <1>1, <2>1
    <3>2. PICK k : k = CHOOSE i \in DOMAIN v : todo[c][Position(c, i)] = r
      OBVIOUS
    <3>3. k \in DOMAIN v /\ todo[c][Position(c, k)] = r
      BY <2>1, <3>2
    <3>4. k \in 1..n /\ t[k] = r
      BY <1>2, <1>3, <3>3
    <3> QED
      BY <3>1, <3>2, <3>4
  <2>2. CASE ~ \E i \in DOMAIN v : todo[c][Position(c, i)] = r
    <3>1. mark'[r] = mark[r]
      BY <1>1, <2>2
    <3> QED
      BY <1>2, <1>3, <2>2, <3>1
  <2> QED
    BY <2>1, <2>2
<1>6. DOMAIN mark' = Rows /\ mark' = [r \in Rows |-> mark'[r]]
  BY <1>1
<1>7. \A r \in Rows : mark'[r] \in {"pending"} \cup Verdicted
  BY <1>2, <1>4, <1>5
<1>8. mark' \in [Rows -> {"pending"} \cup Verdicted]
  BY <1>6, <1>7
<1>9. \A r \in Rows : r \notin ToSet(t) => mark'[r] = mark[r]
  BY <1>3, <1>5 DEF ToSet
<1>10. \A r \in Rows : mark'[r] = "posted" =>
         mark[r] = "posted" \/ \E k \in DOMAIN entries : entries[k].row = r
  BY <1>2, <1>5
<1> QED
  BY <1>2, <1>8, <1>9, <1>10 DEF t

LEMMA OnAnswerStep ==
  ASSUME IInv, NEW c \in Clients, OnAnswer(c)
  PROVE  IInv'
<1> DEFINE n == Len(ChunkOf(c))
<1>0. Shape /\ Sender(c)
  BY DEF IInv
<1>1. /\ pc[c] = "waiting" /\ answer[c].code = "ok"
      /\ answer' = [answer EXCEPT ![c] = None]
      /\ known' = [known EXCEPT ![c] = answer[c].head]
      /\ offset' = [offset EXCEPT ![c] = @ + n]
      /\ tries' = [tries EXCEPT ![c] = 0]
      /\ pc' = [pc EXCEPT ![c] = IF offset'[c] = Len(todo[c]) THEN "done" ELSE "sending"]
      /\ UNCHANGED <<entries, others, fenced, wire, faults, run, todo>>
  BY DEF OnAnswer, Answered, Covered, serverVars
<1>2. /\ answer[c] # None /\ answer[c].head \in 0..ServerHead
      /\ mark' \in [Rows -> {"pending"} \cup Verdicted]
      /\ \A r \in Rows : r \notin ToSet(ChunkOf(c)) => mark'[r] = mark[r]
      /\ \A r \in Rows : mark'[r] = "posted" =>
           mark[r] = "posted" \/ \E k \in DOMAIN entries : entries[k].row = r
  BY <1>0, Marks
<1>3. ServerHead \in Nat /\ answer[c].head \in Nat
  BY <1>0, <1>2, HeadIs
<1>4. /\ offset[c] \in Nat /\ n \in Nat /\ Len(todo[c]) \in Nat
      /\ offset[c] + n <= Len(todo[c])
      /\ todo[c] \in Seq(Rows)
      /\ ToSet(ChunkOf(c)) \subseteq ToSet(todo[c]) /\ ToSet(todo[c]) \subseteq Mine(c)
  BY <1>0, ChunkIs, SyncClientAssumption DEF Sender
<1> HIDE DEF n
<1>5. Shape'
  <2>1. /\ known \in [Clients -> Nat] /\ offset \in [Clients -> Nat]
        /\ tries \in [Clients -> 0..MaxRetries]
        /\ pc \in [Clients -> {"sending", "waiting", "stopped", "done"}]
        /\ 0 \in 0..MaxRetries
    BY <1>0, SyncClientAssumption DEF Shape
  <2>2. known' \in [Clients -> Nat] /\ pc' \in [Clients -> {"sending", "waiting", "stopped", "done"}]
    BY <1>1, <1>3, <2>1
  <2>3. offset' \in [Clients -> Nat] /\ tries' \in [Clients -> 0..MaxRetries]
    BY <1>1, <1>4, <2>1
  <2> QED
    BY <1>0, <1>1, <1>2, <2>2, <2>3 DEF Shape
<1>6. /\ answer'[c] = None /\ known'[c] = answer[c].head /\ offset'[c] = offset[c] + n
      /\ pc'[c] = IF offset'[c] = Len(todo[c]) THEN "done" ELSE "sending"
      /\ \A d \in Clients : d # c => Undisturbed(d)
  BY <1>0, <1>1 DEF Shape, Undisturbed
<1>7. Sender(c)'
  <2>1. AnswerFits(c)'
    BY <1>6 DEF AnswerFits
  <2>2. Asked(c) = offset[c] + n
    BY <1>1 DEF Asked, n
  <2>3. Asked(c)' = offset[c] + n
    BY <1>6 DEF Asked
  <2>4. Asked(c) <= Asked(c)' /\ Asked(c)' \in Nat
    BY <1>4, <2>2, <2>3
  <2>5. known'[c] <= ServerHead
    BY <1>2, <1>3, <1>6
  <2>6. ASSUME NEW j \in (offset'[c] + 1)..Len(todo[c])
        PROVE  mark'[todo[c][j]] = "pending"
    <3>1. todo[c][j] \notin ToSet(ChunkOf(c))
      <4>1. todo[c][j] \in Unsaid(c)
        BY <1>6, <2>2 DEF Unsaid
      <4> QED
        BY <1>0, <2>2, <4>1, UnsaidIs DEF n
    <3>2. todo[c][j] \in Rows
      <4>1. j \in 1..Len(todo[c])
        BY <1>4, <1>6
      <4> QED
        BY <1>4, <4>1, ElementOfSeq
    <3>3. j \in (offset[c] + 1)..Len(todo[c])
      BY <1>4, <1>6
    <3>4. mark[todo[c][j]] = "pending"
      BY <1>0, <3>3 DEF Sender
    <3> QED
      BY <1>2, <3>1, <3>2, <3>4
  <2>7. offset'[c] <= Len(todo[c]) /\ (pc'[c] = "done" <=> offset'[c] = Len(todo[c]))
    BY <1>4, <1>6
  <2> QED
    BY <1>1, <1>5, <2>1, <2>4, <2>5, <2>6, <2>7, SenderMoves DEF serverVars
<1>8. \A p \in wire : p.client = c => ~Current(p)'
  BY <1>1, <1>2, NoneCurrent DEF Current
<1>9. PostedIsBooked' /\ run[c] <= run'[c]
  <2>1. PostedIsBooked'
    BY <1>1, <1>2 DEF IInv, PostedIsBooked
  <2> QED
    BY <1>0, <1>1, <2>1, Numbers
<1>10. \A d \in Clients : d # c => \A r \in Mine(d) : mark'[r] = mark[r]
  <2> SUFFICES ASSUME NEW d \in Clients, d # c, NEW r \in Mine(d)
               PROVE  mark'[r] = mark[r]
    OBVIOUS
  <2>1. r \notin ToSet(ChunkOf(c))
    BY <1>4, RowsApart
  <2>2. r \in Rows
    BY ElementOfSeq, LenProperties, SyncClientAssumption DEF Mine, ToSet
  <2> QED
    BY <1>2, <2>1, <2>2
<1> QED
  BY <1>1, <1>5, <1>6, <1>7, <1>8, <1>9, <1>10, SettleFrame DEF serverVars

LEMMA RerunStep ==
  ASSUME IInv, NEW c \in Clients, Rerun(c)
  PROVE  IInv'
<1> DEFINE I == {i \in DOMAIN Batch[c] : mark[Batch[c][i]] = "pending"}
           left == At(Batch[c], I)
<1>0. Shape /\ Sender(c) /\ Sources
  BY DEF IInv
<1>1. /\ pc[c] = "stopped" /\ run[c] < MaxRuns
      /\ run' = [run EXCEPT ![c] = @ + 1]
      /\ todo' = [todo EXCEPT ![c] = left]
      /\ offset' = [offset EXCEPT ![c] = 0]
      /\ tries' = [tries EXCEPT ![c] = 0]
      /\ pc' = [pc EXCEPT ![c] = "sending"]
      /\ UNCHANGED <<entries, others, fenced, wire, faults, known, answer, mark>>
  BY DEF Rerun, serverVars
<1>2. /\ left \in Seq(Rows) /\ IsInjective(left)
      /\ ToSet(left) = {Batch[c][i] : i \in I}
  <2>1. Batch[c] \in Seq(Rows) /\ IsInjective(Batch[c]) /\ I \in SUBSET DOMAIN Batch[c]
    BY SyncClientAssumption
  <2> HIDE DEF I
  <2> QED
    BY <2>1, AtRows
<1>3. \A r \in ToSet(left) : r \in Mine(c) /\ mark[r] = "pending"
  BY <1>2 DEF Mine, ToSet
<1>4. \E r : r \in ToSet(left)
  <2>1. offset[c] \in Nat /\ Len(todo[c]) \in Nat /\ offset[c] < Len(todo[c])
    BY <1>0, <1>1, ChunkIs DEF Sender
  <2>2. offset[c] + 1 \in DOMAIN todo[c] /\ offset[c] + 1 \in (offset[c] + 1)..Len(todo[c])
    BY <1>0, <2>1, ChunkIs, LenProperties
  <2>3. mark[todo[c][offset[c] + 1]] = "pending" /\ todo[c][offset[c] + 1] \in Mine(c)
    BY <1>0, <2>2 DEF Sender, ToSet
  <2>4. todo[c][offset[c] + 1] \in {Batch[c][i] : i \in I}
    BY <2>3 DEF Mine, ToSet
  <2> QED
    BY <1>2, <2>4
<1> HIDE DEF I, left
<1>5. Len(left) \in Nat /\ Len(left) # 0 /\ DOMAIN left = 1..Len(left)
  BY <1>2, <1>4, LenProperties DEF ToSet
<1>6. run[c] \in Nat /\ run[c] + 1 \in 1..MaxRuns
  BY <1>0, <1>1, Numbers, SyncClientAssumption
<1>7. Shape'
  <2>1. /\ run \in [Clients -> 1..MaxRuns] /\ todo \in [Clients -> Seq(Rows)]
        /\ offset \in [Clients -> Nat] /\ tries \in [Clients -> 0..MaxRetries]
        /\ pc \in [Clients -> {"sending", "waiting", "stopped", "done"}]
        /\ 0 \in 0..MaxRetries
    BY <1>0, SyncClientAssumption DEF Shape
  <2>2. run' \in [Clients -> 1..MaxRuns] /\ todo' \in [Clients -> Seq(Rows)]
    BY <1>1, <1>2, <1>6, <2>1
  <2>3. /\ offset' \in [Clients -> Nat] /\ tries' \in [Clients -> 0..MaxRetries]
        /\ pc' \in [Clients -> {"sending", "waiting", "stopped", "done"}]
    BY <1>1, <2>1
  <2> QED
    BY <1>0, <1>1, <2>2, <2>3 DEF Shape
<1>8. /\ run'[c] = run[c] + 1 /\ todo'[c] = left /\ offset'[c] = 0 /\ pc'[c] = "sending"
      /\ answer'[c] = None /\ known'[c] = known[c]
      /\ \A d \in Clients : d # c => Undisturbed(d)
  <2>1. answer[c] = None
    BY <1>0, <1>1 DEF Sender, AnswerFits
  <2> QED
    BY <1>0, <1>1, <2>1 DEF Shape, Undisturbed
<1>9. Sender(c)'
  <2>1. AnswerFits(c)'
    BY <1>8 DEF AnswerFits
  <2>2. Unsaid(c)' \subseteq ToSet(left)
    <3>1. Asked(c)' = 0
      BY <1>8 DEF Asked
    <3> QED
      BY <1>5, <1>8, <3>1 DEF Unsaid, ToSet
  <2>3. ASSUME NEW i \in DOMAIN entries', entries'[i].run = run'[c], entries'[i].row \in Unsaid(c)'
        PROVE  FALSE
    <3>1. entries[i].row \in Mine(c)
      BY <1>1, <1>3, <2>2, <2>3
    <3>2. entries[i].run <= run[c] /\ entries[i].run = run[c] + 1
      BY <1>0, <1>1, <1>8, <2>3, <3>1 DEF Sources
    <3> QED
      BY <1>6, <3>2
  <2>4. \A j \in 1..Len(left) : mark'[left[j]] = "pending"
    BY <1>1, <1>3, <1>5 DEF ToSet
  <2>5. ServerHead' = ServerHead /\ Mine(c)' = Mine(c)
    BY <1>1 DEF ServerHead, Mine
  <2>6. known'[c] <= ServerHead' /\ IsInjective(todo'[c]) /\ ToSet(todo'[c]) \subseteq Mine(c)'
    BY <1>0, <1>2, <1>3, <1>8, <2>5 DEF Sender
  <2>7. /\ offset'[c] <= Len(todo'[c])
        /\ pc'[c] = "done" <=> offset'[c] = Len(todo'[c])
        /\ \A j \in (offset'[c] + 1)..Len(todo'[c]) : mark'[todo'[c][j]] = "pending"
    BY <1>5, <1>8, <2>4
  <2> QED
    BY <2>1, <2>3, <2>6, <2>7 DEF Sender
<1>10. ASSUME NEW p \in wire, p.client = c, Current(p)'
       PROVE  FALSE
  <2>1. p.run \in 1..run[c] /\ p.run = run[c] + 1
    BY <1>8, <1>10 DEF IInv, Request, Current
  <2> QED
    BY <1>6, <2>1
<1>11. PostedIsBooked' /\ run[c] <= run'[c]
  <2>1. PostedIsBooked'
    BY <1>1 DEF IInv, PostedIsBooked
  <2> QED
    BY <1>6, <1>8, <2>1
<1> QED
  BY <1>1, <1>7, <1>8, <1>9, <1>10, <1>11, SettleFrame DEF serverVars

-----------------------------------------------------------------------------
(***************************************************************************)
(* The server.                                                             *)
(***************************************************************************)

\* A verdict of every row, and an entry of every row it accepts.
LEMMA PostsAre ==
  ASSUME NEW q, Request(q), Shape
  PROVE  /\ Verdicts(q.rows) \in [DOMAIN q.rows -> Verdicted]
         /\ Posts(q) \in Seq(EntryRecord)
         /\ Len(Posts(q)) = Cardinality(Accepted(q.rows))
         /\ \A k \in DOMAIN Posts(q) : Posts(q)[k].run = q.run /\ Posts(q)[k].row \in ToSet(q.rows)
         /\ \A j, k \in DOMAIN Posts(q) : Posts(q)[j].row = Posts(q)[k].row => j = k
         /\ \A i \in DOMAIN q.rows : Verdict(q.rows, i) = "posted" =>
              \E k \in DOMAIN Posts(q) : Posts(q)[k].row = q.rows[i]
<1> DEFINE I == Accepted(q.rows)
           t == At(q.rows, I)
           n == Len(t)
           P == Posts(q)
<1>1. Verdicts(q.rows) \in [DOMAIN q.rows -> Verdicted]
  BY DEF Verdicts, Verdict, Verdicted
<1>2. /\ t \in Seq(Rows) /\ IsInjective(t)
      /\ ToSet(t) = {q.rows[i] : i \in I}
      /\ n = Cardinality(I)
  <2>1. q.rows \in Seq(Rows) /\ IsInjective(q.rows) /\ I \in SUBSET DOMAIN q.rows
    BY DEF Request, Accepted
  <2> HIDE DEF I
  <2> QED
    BY <2>1, AtRows
<1>3. P = [k \in DOMAIN t |-> [row |-> t[k], run |-> q.run, void |-> FALSE]]
  BY DEF Posts
<1>4. q.run \in 1..MaxRuns
  BY Numbers, SyncClientAssumption DEF Request
<1> HIDE DEF t, P
<1>5. /\ DOMAIN t = 1..n /\ n \in Nat
      /\ \A k \in 1..n : t[k] \in Rows
  BY <1>2, LenProperties, ElementOfSeq
<1>6. P \in [1..n -> EntryRecord]
  BY <1>3, <1>4, <1>5 DEF EntryRecord
<1>7. P \in Seq(EntryRecord) /\ Len(P) = n /\ DOMAIN P = 1..n
  <2> HIDE DEF n
  <2> QED
    BY <1>5, <1>6, SeqDef, LenProperties
<1>8. \A k \in 1..n : P[k].run = q.run /\ P[k].row = t[k]
  BY <1>3, <1>5
<1>9. \A k \in 1..n : t[k] \in ToSet(q.rows)
  <2>1. \A k \in 1..n : t[k] \in ToSet(t)
    BY <1>5 DEF ToSet
  <2> QED
    BY <1>2, <2>1 DEF ToSet, Accepted
<1>10. \A j, k \in 1..n : t[j] = t[k] => j = k
  BY <1>2, <1>5 DEF IsInjective
<1>11. ASSUME NEW i \in DOMAIN q.rows, Verdict(q.rows, i) = "posted"
       PROVE  \E k \in 1..n : t[k] = q.rows[i]
  <2>1. q.rows[i] \in ToSet(t)
    BY <1>2, <1>11 DEF Accepted
  <2> QED
    BY <1>5, <2>1 DEF ToSet
<1>12. \A k \in 1..n : P[k].run = q.run /\ P[k].row \in ToSet(q.rows)
  BY <1>8, <1>9
<1>13. \A j, k \in 1..n : P[j].row = P[k].row => j = k
  BY <1>8, <1>10
<1>14. \A i \in DOMAIN q.rows : Verdict(q.rows, i) = "posted" => \E k \in 1..n : P[k].row = q.rows[i]
  BY <1>8, <1>11
<1> HIDE DEF n
<1> QED
  BY <1>1, <1>2, <1>7, <1>12, <1>13, <1>14 DEF P

\* What the answer to a request may say.
Tells(a, q) ==
  \/ a.code = "error"
  \/ a.code = "conflict" /\ a.head \in 0..ServerHead' /\ entries' = entries
  \/ /\ a.code = "ok" /\ a.head \in 0..ServerHead'
     /\ a.verdicts \in [1..Len(q.rows) -> Verdicted]
     /\ \A i \in 1..Len(q.rows) : a.verdicts[i] = "posted" =>
          \E k \in DOMAIN entries' : entries'[k].row = q.rows[i]

\* The entries there are came from where they did, or from this request.
Wrote(q) ==
  \A i \in DOMAIN entries' :
    \/ i \in DOMAIN entries /\ entries'[i].run = entries[i].run /\ entries'[i].row = entries[i].row
    \/ entries'[i].run = q.run /\ entries'[i].row \in ToSet(q.rows)

\* The client the answer is for.
LEMMA AnsweredSender ==
  ASSUME IInv, Shape', NEW q \in wire, NEW c, c = q.client, NEW a,
         Current(q), pc[c] = "waiting", answer'[c] = a,
         known'[c] = known[c], pc'[c] = pc[c], run'[c] = run[c], todo'[c] = todo[c],
         offset'[c] = offset[c], mark' = mark, Grows, Wrote(q), Tells(a, q)
  PROVE  Sender(c)'
<1>1. Shape /\ c \in Clients /\ Sender(c) /\ Request(q)
  BY DEF IInv, Request
<1>2. q.rows = ChunkOf(c) /\ answer[c] = None
  BY <1>1 DEF Request, Awaited
<1> DEFINE n == Len(ChunkOf(c))
<1>3. /\ offset[c] \in Nat /\ n \in Nat /\ Len(todo[c]) \in Nat
      /\ DOMAIN ChunkOf(c) = 1..n
      /\ \A i \in 1..n : ChunkOf(c)[i] = todo[c][offset[c] + i]
  BY <1>1, ChunkIs, SyncClientAssumption
<1>4. Mine(c)' = Mine(c) /\ ChunkOf(c)' = ChunkOf(c)
  BY DEF Mine, ChunkOf
<1>5. known'[c] <= ServerHead'
  <2>1. known[c] \in Nat /\ ServerHead \in Nat /\ ServerHead' \in Nat
    BY <1>1, HeadIs, HeadNext, Numbers
  <2> QED
    BY <1>1, <2>1 DEF Sender, Grows
<1>6. AnswerFits(c)'
  <2>1. CASE a.code = "error"
    BY <2>1 DEF AnswerFits
  <2>2. CASE a.code = "conflict" /\ a.head \in 0..ServerHead'
    BY <2>2 DEF AnswerFits
  <2>3. CASE /\ a.code = "ok" /\ a.head \in 0..ServerHead'
             /\ a.verdicts \in [1..Len(q.rows) -> Verdicted]
             /\ \A i \in 1..Len(q.rows) : a.verdicts[i] = "posted" =>
                  \E k \in DOMAIN entries' : entries'[k].row = q.rows[i]
    BY <1>2, <1>4, <2>3 DEF AnswerFits, Verdicted
  <2> QED
    BY <2>1, <2>2, <2>3 DEF Tells
<1>7. Asked(c) = offset[c] + n
  BY <1>2 DEF Asked, None
<1>8. Unsaid(c) \cap ToSet(q.rows) = {}
  BY <1>1, <1>2, <1>7, UnsaidIs
<1>9. ASSUME NEW i \in DOMAIN entries', entries'[i].run = run'[c], entries'[i].row \in Unsaid(c)'
      PROVE  FALSE
  <2>1. CASE a.code # "conflict"
    <3>1. Asked(c)' = offset[c] + n
      BY <1>4, <2>1 DEF Asked
    <3>2. Unsaid(c)' = Unsaid(c)
      BY <1>7, <3>1 DEF Unsaid
    <3> QED
      BY <1>1, <1>8, <1>9, <3>2 DEF Wrote, Sender
  <2>2. CASE a.code = "conflict"
    <3>1. entries' = entries
      BY <2>2 DEF Tells
    <3>2. Asked(c)' = offset[c]
      BY <2>2 DEF Asked
    <3>3. PICK j \in (offset[c] + 1)..Len(todo[c]) : entries[i].row = todo[c][j]
      BY <1>9, <3>1, <3>2 DEF Unsaid
    <3>4. CASE j <= offset[c] + n
      <4>1. j - offset[c] \in 1..n /\ offset[c] + (j - offset[c]) = j
        BY <1>3, <3>4
      <4>2. todo[c][j] = ChunkOf(c)[j - offset[c]]
        BY <1>3, <4>1
      <4>3. todo[c][j] \in ToSet(q.rows)
        BY <1>2, <1>3, <4>1, <4>2 DEF ToSet
      <4> QED
        BY <1>1, <1>9, <3>1, <3>3, <4>3 DEF Request, Current
    <3>5. CASE ~(j <= offset[c] + n)
      <4>1. j \in (Asked(c) + 1)..Len(todo[c])
        BY <1>3, <1>7, <3>5
      <4>2. entries[i].row \in Unsaid(c)
        BY <3>3, <4>1 DEF Unsaid
      <4> QED
        BY <1>1, <1>9, <3>1, <4>2 DEF Sender
    <3> QED
      BY <3>4, <3>5
  <2> QED
    BY <2>1, <2>2
<1>10. /\ offset'[c] <= Len(todo'[c])
       /\ pc'[c] = "done" <=> offset'[c] = Len(todo'[c])
       /\ \A j \in (offset'[c] + 1)..Len(todo'[c]) : mark'[todo'[c][j]] = "pending"
       /\ IsInjective(todo'[c]) /\ ToSet(todo'[c]) \subseteq Mine(c)'
  BY <1>1, <1>4 DEF Sender
<1> QED
  BY <1>5, <1>6, <1>9, <1>10 DEF Sender

LEMMA ShapeAnswered ==
  ASSUME Shape, NEW q, NEW a, Reply(q, a), entries' \in Seq(EntryRecord), faults' \in 0..MaxFaults,
         UNCHANGED <<others, fenced, known, pc, run, todo, offset, tries, mark>>
  PROVE  Shape'
<1>1. DOMAIN answer' = Clients
  BY DEF Reply, Shape
<1> QED
  BY <1>1 DEF Shape

\* A request that was served, by its entries and an answer or by an error.
LEMMA ReplyFrame ==
  ASSUME IInv, NEW q \in wire, NEW c, c = q.client, wire' = wire \ {q}, NEW a, Reply(q, a),
         UNCHANGED <<known, pc, run, todo, offset, tries, mark>>,
         Shape', Grows, Wrote(q), Tells(a, q), OncePerRun'
  PROVE  IInv'
<1>1. Shape /\ Request(q) /\ c \in Clients /\ Sender(c) /\ OneEach /\ Sources
  BY DEF IInv, Request
<1>2. /\ \A d \in Clients : d # c => Undisturbed(d)
      /\ \/ ~(Current(q) /\ pc[c] = "waiting") /\ Undisturbed(c)
         \/ Current(q) /\ pc[c] = "waiting" /\ answer'[c] = a
  BY <1>1 DEF Reply, Shape, Undisturbed, Current
<1>3. ToSet(q.rows) \subseteq Mine(c) /\ \A r \in ToSet(q.rows) : \A d \in Clients : r \in Mine(d) => d = c
  BY <1>1, RowsApart DEF Request
<1>4. ASSUME NEW d \in Clients
      PROVE  Sender(d)'
  <2>1. Sender(d) /\ Unsaid(d) \subseteq Mine(d)
    BY <1>1, <1>4, UnsaidIs DEF IInv
  <2>2. CASE d = c /\ Current(q) /\ pc[c] = "waiting"
    <3>1. Sender(c)'
      BY <1>1, <1>2, <2>2, AnsweredSender
    <3> QED
      BY <2>2, <3>1
  <2>3. CASE ~(d = c /\ Current(q) /\ pc[c] = "waiting")
    <3>1. Undisturbed(d)
      BY <1>2, <2>3
    <3>2. ASSUME NEW i \in DOMAIN entries', entries'[i].run = run[d], entries'[i].row \in Unsaid(d)
          PROVE  FALSE
      <4>1. CASE i \in DOMAIN entries /\ entries'[i].run = entries[i].run /\ entries'[i].row = entries[i].row
        BY <2>1, <3>2, <4>1 DEF Sender
      <4>2. CASE entries'[i].run = q.run /\ entries'[i].row \in ToSet(q.rows)
        <5>1. d = c
          BY <1>3, <2>1, <3>2, <4>2
        <5>2. Current(q)
          BY <3>2, <4>2, <5>1 DEF Current
        <5>3. pc[c] = "stopped" /\ answer[c] = None /\ q.rows = ChunkOf(c)
          BY <1>1, <2>3, <5>1, <5>2 DEF Request, Awaited
        <5>4. Asked(c) = offset[c] + Len(ChunkOf(c))
          BY <5>3 DEF Asked, None
        <5>5. Unsaid(c) \cap ToSet(ChunkOf(c)) = {}
          BY <1>1, <5>4, UnsaidIs
        <5> QED
          BY <3>2, <4>2, <5>1, <5>3, <5>5
      <4> QED
        BY <4>1, <4>2 DEF Wrote
    <3> QED
      BY <1>1, <2>1, <3>1, <3>2, SenderKept
  <2> QED
    BY <2>2, <2>3
<1>5. ASSUME NEW p \in wire'
      PROVE  Request(p)'
  <2>1. p \in wire /\ p # q /\ Request(p)
    BY DEF IInv
  <2>2. PICK d : d = p.client
    OBVIOUS
  <2>3. d \in Clients
    BY <2>1, <2>2 DEF Request
  <2>4. d = c => p.run # q.run
    BY <1>1, <2>1, <2>2 DEF OneEach
  <2>5. run[d] <= run'[d] /\ (Current(p)' => Awaited(p)')
    <3>1. CASE Undisturbed(d)
      BY <1>1, <2>1, <2>2, <3>1, RequestStands
    <3>2. CASE ~Undisturbed(d)
      <4>1. d = c /\ Current(q)
        BY <1>2, <2>3, <3>2
      <4>2. ~Current(p)'
        BY <2>2, <2>4, <4>1 DEF Current
      <4> QED
        BY <1>1, <2>3, <4>2, Numbers
    <3> QED
      BY <3>1, <3>2
  <2>6. ASSUME NEW i \in DOMAIN entries', entries'[i].run = p.run, entries'[i].row \in ToSet(p.rows)
        PROVE  FALSE
    <3>1. CASE i \in DOMAIN entries /\ entries'[i].run = entries[i].run /\ entries'[i].row = entries[i].row
      BY <2>1, <2>6, <3>1 DEF Request
    <3>2. CASE entries'[i].run = q.run /\ entries'[i].row \in ToSet(q.rows)
      <4>1. entries'[i].row \in Mine(d)
        BY <2>1, <2>2, <2>6 DEF Request
      <4> QED
        BY <1>3, <2>3, <2>4, <2>6, <3>2, <4>1
    <3> QED
      BY <3>1, <3>2 DEF Wrote
  <2> QED
    BY <1>1, <2>1, <2>2, <2>5, <2>6, RequestKept
<1>6. OneEach'
  BY <1>1 DEF OneEach
<1>7. Sources'
  <2> SUFFICES ASSUME NEW i \in DOMAIN entries', NEW d \in Clients, entries'[i].row \in Mine(d)'
               PROVE  entries'[i].run <= run'[d]
    BY DEF Sources
  <2>1. entries'[i].row \in Mine(d)
    BY DEF Mine
  <2>2. CASE i \in DOMAIN entries /\ entries'[i].run = entries[i].run /\ entries'[i].row = entries[i].row
    BY <1>1, <2>1, <2>2 DEF Sources
  <2>3. CASE entries'[i].run = q.run /\ entries'[i].row \in ToSet(q.rows)
    <3>1. d = c
      BY <1>3, <2>1, <2>3
    <3>2. q.run \in 1..run[c] /\ run[c] \in Nat
      BY <1>1, Numbers DEF Request
    <3> QED
      BY <2>3, <3>1, <3>2
  <2> QED
    BY <2>2, <2>3 DEF Wrote
<1>8. PostedIsBooked'
  BY DEF IInv, PostedIsBooked, Grows
<1> QED
  BY <1>4, <1>5, <1>6, <1>7, <1>8 DEF IInv

LEMMA AnswerTells ==
  ASSUME Shape, NEW q, Request(q), Shape',
         others' = others, entries' = IF Lands(q) THEN entries \o Posts(q) ELSE entries,
         Len(entries') = Len(entries) + IF Lands(q) THEN Cardinality(Accepted(q.rows)) ELSE 0,
         Lands(q) => \A k \in DOMAIN Posts(q) : \E i \in DOMAIN entries' : entries'[i] = Posts(q)[k]
  PROVE  Tells(AnswerTo(q), q)
<1> DEFINE a == AnswerTo(q)
<1>1. ServerHead \in Nat /\ ServerHead' \in Nat /\ q.head \in 0..ServerHead
  BY HeadIs, HeadNext DEF Request
<1>2. DOMAIN q.rows = 1..Len(q.rows)
  BY LenProperties DEF Request
<1>3. Verdicts(q.rows) \in [1..Len(q.rows) -> Verdicted]
  BY <1>2, PostsAre
<1>4. CASE Unasked(q)
  <2>1. a = [code |-> "ok", head |-> q.head, verdicts |-> Verdicts(q.rows)]
    BY <1>4 DEF AnswerTo, Lands
  <2>2. ~Lands(q)
    BY <1>4 DEF Lands
  <2>3. q.head \in 0..ServerHead'
    BY <1>1, <2>2 DEF ServerHead
  <2>4. \A i \in 1..Len(q.rows) : Verdicts(q.rows)[i] = "refused"
    <3>1. \A i \in DOMAIN q.rows : q.rows[i] \in Malformed
      BY <1>4 DEF Unasked, ToSet
    <3>2. ASSUME NEW i \in DOMAIN q.rows, q.rows[i] \in Malformed
          PROVE  Verdict(q.rows, i) = "refused"
      BY ONLY <3>2 DEF Verdict
    <3> QED
      BY ONLY <1>2, <3>1, <3>2 DEF Verdicts
  <2>5. \A i \in 1..Len(q.rows) : Verdicts(q.rows)[i] # "posted"
    BY <2>4
  <2> QED
    BY <1>3, <2>1, <2>3, <2>5 DEF Tells
<1>5. CASE ~Unasked(q) /\ q.head # ServerHead
  <2>1. a = [code |-> "conflict", head |-> ServerHead]
    BY <1>5 DEF AnswerTo, Lands
  <2>2. entries' = entries
    BY <1>5 DEF Lands
  <2>3. ServerHead' = ServerHead
    BY <2>2 DEF ServerHead
  <2>4. ServerHead \in 0..ServerHead'
    BY <1>1, <2>3
  <2> QED
    BY <2>1, <2>2, <2>4 DEF Tells
<1>6. CASE Lands(q)
  <2>1. a = [code |-> "ok", head |-> ServerHead + Cardinality(Accepted(q.rows)),
             verdicts |-> Verdicts(q.rows)]
    BY <1>6 DEF AnswerTo, Lands
  <2>2. ServerHead' = ServerHead + Cardinality(Accepted(q.rows))
    <3>1. Len(entries') = Len(entries) + Cardinality(Accepted(q.rows))
      BY <1>6
    <3>2. Len(entries) \in Nat /\ others \in Nat
      BY HeadIs, SyncClientAssumption DEF Shape
    <3>3. Len(Posts(q)) = Cardinality(Accepted(q.rows)) /\ Posts(q) \in Seq(EntryRecord)
      BY PostsAre
    <3>4. Cardinality(Accepted(q.rows)) \in Nat
      BY <3>3, LenProperties
    <3> QED
      BY <3>1, <3>2, <3>4 DEF ServerHead
  <2>3. ServerHead + Cardinality(Accepted(q.rows)) \in 0..ServerHead'
    BY <1>1, <2>2
  <2>4. ASSUME NEW i \in 1..Len(q.rows), Verdicts(q.rows)[i] = "posted"
        PROVE  \E k \in DOMAIN entries' : entries'[k].row = q.rows[i]
    <3>1. Verdict(q.rows, i) = "posted"
      BY <1>2, <2>4 DEF Verdicts
    <3>2. PICK k \in DOMAIN Posts(q) : Posts(q)[k].row = q.rows[i]
      BY <1>2, <3>1, PostsAre
    <3> QED
      BY <1>6, <3>2
  <2> QED
    BY <1>3, <2>1, <2>3, <2>4 DEF Tells
<1>7. CASE ~Unasked(q) /\ q.head = ServerHead /\ ~Lands(q)
  BY <1>7 DEF AnswerTo, Tells
<1> QED
  BY <1>4, <1>5, <1>6, <1>7

LEMMA ServeStep ==
  ASSUME IInv, NEW q \in wire, Serve(q)
  PROVE  IInv'
<1> DEFINE P == Posts(q)
           n == Len(entries)
<1>1. /\ wire' = wire \ {q} /\ Reply(q, AnswerTo(q))
      /\ entries' = IF Lands(q) THEN entries \o P ELSE entries
      /\ UNCHANGED <<others, fenced, faults, known, pc, run, todo, offset, tries, mark>>
  BY DEF Serve
<1>2. Shape /\ Request(q) /\ OncePerRun
  BY DEF IInv
<1>3. /\ P \in Seq(EntryRecord) /\ Len(P) = Cardinality(Accepted(q.rows))
      /\ \A k \in DOMAIN P : P[k].run = q.run /\ P[k].row \in ToSet(q.rows)
      /\ \A j, k \in DOMAIN P : P[j].row = P[k].row => j = k
  BY <1>2, PostsAre
<1>4. /\ entries \in Seq(EntryRecord) /\ n \in Nat /\ DOMAIN entries = 1..n
      /\ DOMAIN P = 1..Len(P) /\ Len(P) \in Nat
  BY <1>2, <1>3, LenProperties DEF Shape
<1> HIDE DEF P, n
<1>5. CASE Lands(q)
  <2>1. entries' = entries \o P
    BY <1>1, <1>5
  <2>2. /\ entries' \in Seq(EntryRecord) /\ Len(entries') = n + Len(P)
        /\ \A i \in 1..(n + Len(P)) : entries'[i] = IF i <= n THEN entries[i] ELSE P[i - n]
    <3>1. /\ entries \o P \in Seq(EntryRecord) /\ Len(entries \o P) = Len(entries) + Len(P)
          /\ \A i \in 1..(Len(entries) + Len(P)) :
               (entries \o P)[i] = IF i <= Len(entries) THEN entries[i] ELSE P[i - Len(entries)]
      <4>1. entries \in Seq(EntryRecord) /\ P \in Seq(EntryRecord)
        BY <1>3, <1>4
      <4> QED
        BY ONLY <4>1, ConcatProperties
    <3> QED
      BY ONLY <2>1, <3>1 DEF n
  <2>3. DOMAIN entries' = 1..(n + Len(P))
    BY <2>2, LenProperties
  <2>4. /\ \A i \in 1..n : i \in DOMAIN entries' /\ entries'[i] = entries[i]
        /\ \A k \in 1..Len(P) : n + k \in DOMAIN entries' /\ entries'[n + k] = P[k]
    <3>1. \A i \in 1..n : i \in 1..(n + Len(P)) /\ i <= n
      BY <1>4
    <3>2. \A k \in 1..Len(P) : n + k \in 1..(n + Len(P)) /\ ~(n + k <= n) /\ (n + k) - n = k
      BY <1>4
    <3> QED
      BY <2>2, <2>3, <3>1, <3>2
  <2>5. \A i \in DOMAIN entries' :
          \/ i \in 1..n /\ entries'[i] = entries[i]
          \/ ~(i \in 1..n) /\ i - n \in DOMAIN P /\ entries'[i] = P[i - n]
    <3>1. ASSUME NEW i \in DOMAIN entries', ~(i \in 1..n)
          PROVE  i - n \in 1..Len(P) /\ ~(i <= n) /\ i \in 1..(n + Len(P))
      BY ONLY <1>4, <2>3, <3>1
    <3>2. \A i \in 1..n : i <= n /\ i \in 1..(n + Len(P))
      BY ONLY <1>4
    <3> QED
      BY ONLY <1>4, <2>2, <3>1, <3>2
  <2>6. Shape'
    <3>1. faults' \in 0..MaxFaults
      BY <1>1, <1>2 DEF Shape
    <3> QED
      BY ONLY <1>1, <1>2, <2>2, <3>1, ShapeAnswered
  <2>7. Grows
    <3>1. ServerHead <= ServerHead'
      <4>1. others \in Nat
        BY <1>2, SyncClientAssumption DEF Shape
      <4> QED
        BY <1>1, <1>4, <2>2, <4>1 DEF ServerHead, n
    <3> QED
      BY <1>4, <2>4, <3>1 DEF Grows
  <2>8. Wrote(q)
    BY <1>3, <1>4, <2>5 DEF Wrote
  <2>9. OncePerRun'
    <3> SUFFICES ASSUME NEW i \in DOMAIN entries', NEW j \in DOMAIN entries',
                        entries'[i].row = entries'[j].row, entries'[i].run = entries'[j].run
                 PROVE  i = j
      BY DEF OncePerRun
    <3>1. CASE i \in 1..n /\ j \in 1..n
      BY <1>2, <1>4, <2>4, <3>1 DEF OncePerRun
    <3>2. CASE ~(i \in 1..n) /\ ~(j \in 1..n)
      <4>1. i - n = j - n
        BY <1>3, <2>5, <3>2
      <4> QED
        BY <1>4, <2>3, <4>1
    <3>3. \A k \in 1..n : entries[k].run = q.run => entries[k].row \notin ToSet(q.rows)
      BY <1>2, <1>4 DEF Request
    <3>4. CASE i \in 1..n /\ ~(j \in 1..n)
      BY <1>3, <2>5, <3>3, <3>4
    <3>5. CASE ~(i \in 1..n) /\ j \in 1..n
      BY <1>3, <2>5, <3>3, <3>5
    <3> QED
      BY <3>1, <3>2, <3>4, <3>5
  <2>10. Tells(AnswerTo(q), q)
    <3>1. \A k \in DOMAIN P : \E i \in DOMAIN entries' : entries'[i] = P[k]
      BY <1>4, <2>4
    <3>2. Len(entries') = Len(entries) + IF Lands(q) THEN Cardinality(Accepted(q.rows)) ELSE 0
      BY <1>3, <1>5, <2>2 DEF n
    <3> QED
      BY <1>1, <1>2, <2>6, <3>1, <3>2, AnswerTells DEF P
  <2> QED
    BY <1>1, <2>6, <2>7, <2>8, <2>9, <2>10, ReplyFrame
<1>6. CASE ~Lands(q)
  <2>1. entries' = entries
    BY <1>1, <1>6
  <2>2. Shape'
    BY <1>1, <1>2, <2>1, ShapeAnswered DEF Shape
  <2>3. Grows /\ Wrote(q)
    BY <1>1, <1>2, <2>1, HeadIs DEF Grows, Wrote, ServerHead
  <2>4. OncePerRun'
    BY <1>2, <2>1 DEF OncePerRun
  <2>5. Tells(AnswerTo(q), q)
    <3>1. Len(entries') = Len(entries) + IF Lands(q) THEN Cardinality(Accepted(q.rows)) ELSE 0
      BY <1>4, <1>6, <2>1 DEF n
    <3> QED
      BY <1>1, <1>2, <1>6, <2>2, <3>1, AnswerTells DEF P
  <2> QED
    BY <1>1, <2>2, <2>3, <2>4, <2>5, ReplyFrame
<1> QED
  BY <1>5, <1>6

LEMMA ServeFailsStep ==
  ASSUME IInv, NEW q \in wire, ServeFails(q)
  PROVE  IInv'
<1> DEFINE a == [code |-> "error"]
<1>1. /\ wire' = wire \ {q} /\ Reply(q, a) /\ faults' = faults + 1 /\ faults < MaxFaults
      /\ UNCHANGED <<entries, others, fenced, known, pc, run, todo, offset, tries, mark>>
  BY DEF ServeFails, serverVars
<1>2. Shape /\ Request(q) /\ OncePerRun
  BY DEF IInv
<1>3. faults' \in 0..MaxFaults
  BY <1>1, <1>2, SyncClientAssumption DEF Shape
<1>4. Shape'
  BY <1>1, <1>2, <1>3, ShapeAnswered DEF Shape
<1>5. Grows /\ Wrote(q)
  BY <1>1, <1>2, HeadIs DEF Grows, Wrote, ServerHead
<1>6. OncePerRun'
  BY <1>1, <1>2 DEF OncePerRun
<1>7. Tells(a, q)
  BY DEF Tells
<1> QED
  BY <1>1, <1>4, <1>5, <1>6, <1>7, ReplyFrame

-----------------------------------------------------------------------------
(***************************************************************************)
(* The steps that no client takes part in.                                 *)
(***************************************************************************)

LEMMA QuietFrame ==
  ASSUME IInv, Shape', wire' \subseteq wire, ServerHead <= ServerHead', UNCHANGED clientVars,
         DOMAIN entries' = DOMAIN entries,
         \A i \in DOMAIN entries : entries'[i].row = entries[i].row /\ entries'[i].run = entries[i].run
  PROVE  IInv'
<1>1. Grows /\ Shape /\ mark' = mark /\ \A c \in Clients : Undisturbed(c)
  BY DEF IInv, Grows, clientVars, Undisturbed
<1>2. ASSUME NEW c \in Clients
      PROVE  Sender(c)'
  <2>1. Sender(c)
    BY DEF IInv
  <2>2. \A i \in DOMAIN entries' : entries'[i].run = run[c] => entries'[i].row \notin Unsaid(c)
    BY <2>1 DEF Sender
  <2> QED
    BY <1>1, <2>1, <2>2, SenderKept
<1>3. ASSUME NEW q \in wire'
      PROVE  Request(q)'
  <2>1. Request(q)
    BY DEF IInv
  <2>2. PICK c : c = q.client
    OBVIOUS
  <2>3. c \in Clients
    BY <2>1, <2>2 DEF Request
  <2>4. run[c] <= run'[c] /\ (Current(q)' => Awaited(q)')
    BY <1>1, <2>1, <2>2, <2>3, RequestStands
  <2>5. \A i \in DOMAIN entries' : entries'[i].run = q.run => entries'[i].row \notin ToSet(q.rows)
    BY <2>1 DEF Request
  <2> QED
    BY <1>1, <2>1, <2>2, <2>4, <2>5, RequestKept
<1>4. OneEach'
  BY DEF IInv, OneEach
<1>5. Sources'
  BY DEF IInv, Sources, Mine, clientVars
<1>6. OncePerRun'
  BY DEF IInv, OncePerRun
<1>7. PostedIsBooked'
  BY <1>1 DEF IInv, PostedIsBooked, Grows
<1> QED
  BY <1>2, <1>3, <1>4, <1>5, <1>6, <1>7 DEF IInv

LEMMA VanishStep ==
  ASSUME IInv, wire' \subseteq wire, UNCHANGED <<serverVars, faults, clientVars>>
  PROVE  IInv'
<1>1. Shape /\ Shape'
  BY DEF IInv, Shape, serverVars, clientVars
<1>2. ServerHead <= ServerHead'
  BY <1>1, HeadIs DEF ServerHead, serverVars
<1> QED
  BY <1>1, <1>2, QuietFrame DEF serverVars

LEMMA OtherCommandStep ==
  ASSUME IInv, OtherCommand
  PROVE  IInv'
<1>1. Shape /\ others \in Nat /\ Len(entries) \in Nat
  BY HeadIs, SyncClientAssumption DEF IInv, Shape
<1>2. /\ others' = others + 1 /\ others < MaxOthers
      /\ UNCHANGED <<wire, faults, clientVars>>
  BY DEF OtherCommand
<1>3. /\ entries' \in Seq(EntryRecord) /\ Len(entries') = Len(entries)
      /\ \A i \in DOMAIN entries : entries'[i].row = entries[i].row /\ entries'[i].run = entries[i].run
      /\ fenced' \in BOOLEAN
  <2>1. CASE fenced' = ~fenced /\ UNCHANGED entries
    BY <1>1, <2>1 DEF Shape
  <2>2. CASE fenced' = fenced /\ ~(UNCHANGED entries /\ fenced' = ~fenced)
    <3>1. PICK k \in DOMAIN entries : entries' = [entries EXCEPT ![k].void = TRUE]
      BY <2>2 DEF OtherCommand
    <3>2. entries \in Seq(EntryRecord) /\ \A i \in DOMAIN entries : entries[i] \in EntryRecord
      BY <1>1, ElementOfSeq, LenProperties DEF Shape
    <3> DEFINE e == [entries[k] EXCEPT !.void = TRUE]
    <3>3. e \in EntryRecord /\ e.row = entries[k].row /\ e.run = entries[k].run
      BY <3>2 DEF EntryRecord
    <3>4. entries' = [entries EXCEPT ![k] = e]
      BY <3>1
    <3> HIDE DEF e
    <3>5. entries' \in Seq(EntryRecord) /\ Len(entries') = Len(entries)
      BY <3>2, <3>3, <3>4, ExceptSeq, LenProperties
    <3>6. \A i \in DOMAIN entries : entries'[i] = IF i = k THEN e ELSE entries[i]
      BY <3>4
    <3> QED
      BY <1>1, <2>2, <3>3, <3>5, <3>6 DEF Shape
  <2> QED
    BY <2>1, <2>2 DEF OtherCommand
<1>4. Shape'
  <2>1. others' \in 0..MaxOthers
    BY <1>1, <1>2, SyncClientAssumption
  <2> QED
    BY <1>1, <1>2, <1>3, <2>1 DEF Shape, clientVars
<1>5. ServerHead <= ServerHead' /\ DOMAIN entries' = DOMAIN entries
  <2>1. DOMAIN entries = 1..Len(entries) /\ DOMAIN entries' = 1..Len(entries')
    BY <1>1, <1>3, LenProperties DEF Shape
  <2> QED
    BY <1>1, <1>2, <1>3, <2>1 DEF ServerHead
<1> QED
  BY <1>2, <1>3, <1>4, <1>5, QuietFrame

-----------------------------------------------------------------------------
(***************************************************************************)
(* The invariant of every behaviour.                                       *)
(***************************************************************************)

LEMMA InitInv == Init => IInv
<1> SUFFICES ASSUME Init PROVE IInv
  OBVIOUS
<1>1. entries = << >> /\ Len(entries) = 0 /\ DOMAIN entries = {} /\ ServerHead = 0
  BY LenProperties DEF Init, ServerHead
<1>2. Shape
  <2>1. 1 \in 1..MaxRuns /\ 0 \in 0..MaxFaults /\ 0 \in 0..MaxOthers /\ 0 \in 0..MaxRetries
    BY SyncClientAssumption
  <2>2. entries \in Seq(EntryRecord)
    BY <1>1
  <2> QED
    BY <2>1, <2>2, SyncClientAssumption DEF Init, Shape
<1>3. ASSUME NEW c \in Clients
      PROVE  Sender(c)
  <2>1. /\ todo[c] = Batch[c] /\ offset[c] = 0 /\ known[c] = 0 /\ pc[c] = "sending" /\ answer[c] = None
        /\ \A r \in Rows : mark[r] = "pending"
    BY DEF Init
  <2>2. Batch[c] \in Seq(Rows) /\ IsInjective(Batch[c]) /\ Batch[c] # << >>
    BY SyncClientAssumption
  <2>3. Len(Batch[c]) \in Nat /\ Len(Batch[c]) # 0 /\ \A j \in 1..Len(Batch[c]) : Batch[c][j] \in Rows
    BY <2>2, LenProperties, ElementOfSeq, EmptySeq
  <2>4. AnswerFits(c)
    BY <2>1 DEF AnswerFits
  <2> QED
    BY <1>1, <2>1, <2>2, <2>3, <2>4 DEF Sender, Mine
<1>4. Sources /\ OncePerRun
  BY <1>1 DEF Sources, OncePerRun
<1>5. OneEach /\ (\A q \in wire : Request(q)) /\ PostedIsBooked
  BY DEF Init, OneEach, PostedIsBooked
<1> QED
  BY <1>2, <1>3, <1>4, <1>5 DEF IInv

LEMMA InvStep == IInv /\ [Next]_vars => IInv'
<1> SUFFICES ASSUME IInv, [Next]_vars PROVE IInv'
  OBVIOUS
<1>1. ASSUME NEW q \in wire, Serve(q) \/ ServeFails(q) \/ Vanish(q)
      PROVE  IInv'
  <2>1. CASE Serve(q)
    BY <2>1, ServeStep
  <2>2. CASE ServeFails(q)
    BY <2>2, ServeFailsStep
  <2>3. CASE Vanish(q)
    BY <2>3, VanishStep DEF Vanish
  <2> QED
    BY <1>1, <2>1, <2>2, <2>3
<1>2. CASE OtherCommand
  BY <1>2, OtherCommandStep
<1>3. ASSUME NEW c \in Clients, ClientStep(c) \/ GiveUp(c)
      PROVE  IInv'
  <2>1. CASE Send(c)
    <3>1. PICK q : q = [client |-> c, run |-> run[c], rows |-> ChunkOf(c), head |-> known[c],
                        attempt |-> tries[c]]
      OBVIOUS
    <3> QED
      BY <2>1, <3>1, SendStep
  <2>2. CASE OnConflict(c)
    BY <2>2, OnConflictStep
  <2>3. CASE OnAnswer(c)
    BY <2>3, OnAnswerStep
  <2>4. CASE OnError(c) \/ GiveUp(c)
    BY <2>4, OnErrorStep
  <2>5. CASE Rerun(c)
    BY <2>5, RerunStep
  <2> QED
    BY <1>3, <2>1, <2>2, <2>3, <2>4, <2>5 DEF ClientStep
<1>4. CASE UNCHANGED vars
  BY <1>4, VanishStep DEF vars
<1> QED
  BY <1>1, <1>2, <1>3, <1>4 DEF Next, Over

\* The invariant holds in every behaviour: one request of a run under way, and
\* what it asks for unwritten until it is served.
THEOREM SyncClientInvariant == Spec => []IInv
BY InitInv, InvStep, PTL DEF Spec

\* SyncClient.TypeOK: among it that a client never believes in a head past the
\* server's, that a request carries a chunk and never an empty one, and that an
\* import is done exactly when all its rows were answered for.
THEOREM SyncClientTypeCorrect == Spec => []TypeOK
<1>1. IInv => TypeOK
  <2> SUFFICES ASSUME IInv PROVE TypeOK
    OBVIOUS
  <2>1. Shape
    BY DEF IInv
  <2>2. ASSUME NEW c \in Clients
        PROVE  /\ known[c] <= Len(entries) + others
               /\ todo[c] \in Seq(Rows) /\ offset[c] \in 0..Len(todo[c])
               /\ pc[c] = "done" <=> offset[c] = Len(todo[c])
    <3>1. Sender(c) /\ Len(todo[c]) \in Nat
      BY <2>1, ChunkIs DEF IInv
    <3> QED
      BY <2>1, <3>1 DEF Sender, ServerHead, Shape
  <2>3. \A q \in wire : q.client \in Clients /\ q.rows \in Seq(Rows) /\ Len(q.rows) \in 1..Chunk
    BY DEF IInv, Request
  <2> QED
    BY <2>1, <2>2, <2>3 DEF TypeOK, Shape, EntryRecord, Verdicted
<1> QED
  BY <1>1, SyncClientInvariant, PTL

\* SyncClient.PostedIsBooked: what the caller is told was posted has an entry
\* that came from that very row, in whatever order requests, answers, lost
\* connections and further runs come.
THEOREM PostedMeansBooked == Spec => []PostedIsBooked
<1>1. IInv => PostedIsBooked
  BY DEF IInv
<1> QED
  BY <1>1, SyncClientInvariant, PTL

\* SyncClient.OncePerRun: no run posts a row twice, even rows without a reference
\* to tell them by and requests that arrive after their sender gave up.
THEOREM NoRunPostsTwice == Spec => []OncePerRun
<1>1. IInv => OncePerRun
  BY DEF IInv
<1> QED
  BY <1>1, SyncClientInvariant, PTL

=============================================================================
