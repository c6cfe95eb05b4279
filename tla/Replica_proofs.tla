--------------------------- MODULE Replica_proofs ----------------------------
(***************************************************************************)
(* Proofs about replicas, for any number of ledger files, overlapping      *)
(* requests and faults, and pages of any size.                             *)
(***************************************************************************)
EXTENDS Replica, SequenceTheorems, TLAPS

-----------------------------------------------------------------------------
(* Types.  Events are numbered as they are authored, and a log that grew   *)
(* by authoring and copying has its i-th event numbered i or more: that is *)
(* why no log is longer than the bound on events.                          *)

NumberedLog(s) == \A i \in DOMAIN s : i <= s[i].n /\ s[i].n <= authored

NumberedPage(p) == \A i \in DOMAIN p : p[i].seq <= p[i].hash.n /\ p[i].hash.n <= authored

Numbered ==
  /\ NumberedLog(server)
  /\ \A l \in Ledgers : NumberedLog(log[l]) /\ NumberedLog(offer[l])
  /\ \A l \in Ledgers, t \in Ticks : NumberedPage(page[l][t])

TypeInv == TypeOK /\ Numbered

\* A log's length is no more than the events authored.
LEMMA LogFits ==
  ASSUME NEW s \in Seq(Event), NumberedLog(s), authored \in 0..MaxEvents
  PROVE  /\ Len(s) \in 0..MaxEvents
         /\ Len(s) <= authored
         /\ DOMAIN s = 1..Len(s)
         /\ \A i \in 1..Len(s) : s[i] \in Event /\ s[i].n \in Nat
<1>1. /\ Len(s) \in Nat
      /\ DOMAIN s = 1..Len(s)
      /\ \A i \in 1..Len(s) : s[i] \in Event /\ s[i].n \in Nat
  <2>1. Len(s) \in Nat /\ DOMAIN s = 1..Len(s) /\ \A i \in 1..Len(s) : s[i] \in Event
    BY LenProperties, ElementOfSeq
  <2>2. \A e \in Event : e.n \in Nat
    BY ReplicaAssumption DEF Event
  <2> QED
    BY <2>1, <2>2
<1>2. CASE Len(s) = 0
  BY <1>1, <1>2, ReplicaAssumption
<1>3. CASE Len(s) # 0
  <2>1. Len(s) \in DOMAIN s
    BY <1>1, <1>3
  <2>2. Len(s) <= s[Len(s)].n /\ s[Len(s)].n <= authored
    BY <2>1 DEF NumberedLog
  <2> QED
    <3>1. s[Len(s)].n \in Nat /\ authored \in Nat /\ MaxEvents \in Nat /\ authored <= MaxEvents
      BY <1>1, <1>3, ReplicaAssumption
    <3> QED
      BY <1>1, <2>2, <3>1
<1> QED
  BY <1>1, <1>2, <1>3

\* What an author adds to a log keeps it numbered.
LEMMA AppendNumbered ==
  ASSUME NEW s \in Seq(Event), NumberedLog(s), authored \in 0..MaxEvents, Author,
         NEW a \in Ledgers \cup {Server}, NEW u, u = Append(s, New(a))
  PROVE  u \in Seq(Event) /\ NumberedLog(u)'
<1>1. /\ New(a) \in Event /\ New(a).n = authored + 1
      /\ authored' = authored + 1 /\ authored \in Int
  BY ReplicaAssumption DEF New, Event, Author
<1>2. /\ Len(s) <= authored /\ Len(s) \in Nat /\ DOMAIN s = 1..Len(s)
      /\ \A i \in 1..Len(s) : s[i].n \in Nat
  BY LogFits, ReplicaAssumption
<1>3. /\ u \in Seq(Event) /\ Len(u) = Len(s) + 1
      /\ \A i \in 1..Len(s) : u[i] = s[i]
      /\ u[Len(s) + 1] = New(a)
  BY <1>1, AppendProperties
<1>4. DOMAIN u = 1..(Len(s) + 1)
  BY <1>3, LenProperties
<1>5. ASSUME NEW i \in DOMAIN u
      PROVE  i <= u[i].n /\ u[i].n <= authored + 1
  <2>1. CASE i \in 1..Len(s)
    <3>1. i <= s[i].n /\ s[i].n <= authored /\ s[i].n \in Nat /\ u[i] = s[i]
      BY <1>2, <1>3, <2>1 DEF NumberedLog
    <3> QED
      BY <1>1, <3>1
  <2>2. CASE i = Len(s) + 1
    BY <1>1, <1>2, <1>3, <2>2
  <2> QED
    BY <1>2, <1>4, <2>1, <2>2
<1> QED
  BY <1>1, <1>3, <1>5 DEF NumberedLog

\* What was numbered stays so as more events are authored.
LEMMA StayNumbered ==
  ASSUME authored \in 0..MaxEvents, authored' \in authored..MaxEvents
  PROVE  /\ \A s \in Seq(Event) : NumberedLog(s) => NumberedLog(s)'
         /\ \A p \in Seq(Item) : NumberedPage(p) => NumberedPage(p)'
<1>1. authored \in Int /\ authored' \in Int /\ authored <= authored'
  BY ReplicaAssumption
<1>2. \A e \in Event : e.n \in Int
  BY ReplicaAssumption DEF Event
<1>3. ASSUME NEW s \in Seq(Event), NumberedLog(s)
      PROVE  NumberedLog(s)'
  <2>1. \A i \in DOMAIN s : s[i].n \in Int
    BY <1>2, LenProperties, ElementOfSeq
  <2> QED
    BY <1>1, <1>3, <2>1 DEF NumberedLog
<1>4. ASSUME NEW p \in Seq(Item), NumberedPage(p)
      PROVE  NumberedPage(p)'
  <2>1. \A i \in DOMAIN p : p[i].hash.n \in Int
    <3>1. \A x \in Item : x.hash \in Event
      BY DEF Item
    <3> QED
      BY <1>2, <3>1, LenProperties, ElementOfSeq
  <2> QED
    BY <1>1, <1>4, <2>1 DEF NumberedPage
<1> QED
  BY <1>3, <1>4

\* The beginning of a log.
LEMMA PrefixFacts ==
  ASSUME NEW S, NEW s \in Seq(S), NEW n \in 0..Len(s), NEW u, u = SubSeq(s, 1, n)
  PROVE  /\ u \in Seq(S)
         /\ Len(u) = n
         /\ DOMAIN u = 1..n
         /\ \A i \in 1..n : i \in 1..Len(s) /\ u[i] = s[i]
<1>1. Len(s) \in Nat /\ n \in Nat /\ \A i \in 1..n : i \in 1..Len(s) /\ s[i] \in S
  BY LenProperties, ElementOfSeq
<1>2. u \in Seq(S) /\ Len(u) = n /\ \A i \in 1..n : u[i] = s[i]
  BY <1>1, SubSeqProperties
<1> QED
  BY <1>1, <1>2, LenProperties

\* The smaller of two numbers.
LEMMA MinOfTwo ==
  ASSUME NEW a \in Int, NEW b \in Int
  PROVE  Min({a, b}) = IF a <= b THEN a ELSE b
<1>1. \E x \in {a, b} : \A y \in {a, b} : x <= y
  OBVIOUS
<1>2. Min({a, b}) \in {a, b} /\ \A y \in {a, b} : Min({a, b}) <= y
  BY <1>1 DEF Min
<1> QED
  BY <1>2

\* A page of the server's log.
LEMMA PageFacts ==
  ASSUME server \in Seq(Event), NumberedLog(server), authored \in 0..MaxEvents,
         NEW since \in Nat, since < Len(server)
  PROVE  /\ EventsAfter(since) \in Seq(Item)
         /\ NumberedPage(EventsAfter(since))
         /\ \A i \in DOMAIN EventsAfter(since) :
              /\ since + i \in 1..Len(server)
              /\ EventsAfter(since)[i] = Sent(since + i)
<1> DEFINE m == PageLength(since)
<1>1. /\ Len(server) \in 0..MaxEvents /\ DOMAIN server = 1..Len(server)
      /\ \A i \in 1..Len(server) : server[i] \in Event /\ server[i].n \in Nat
  BY LogFits
<1>2. m \in Nat /\ m <= Len(server) - since
  <2>1. PageSize \in Int /\ Len(server) - since \in Int
    BY <1>1, ReplicaAssumption
  <2>2. m = IF PageSize <= Len(server) - since THEN PageSize ELSE Len(server) - since
    BY <2>1, MinOfTwo DEF PageLength
  <2> QED
    BY <1>1, <2>1, <2>2, ReplicaAssumption
<1>3. \A i \in 1..m : since + i \in 1..Len(server) /\ since + i \in 1..MaxEvents
  BY <1>1, <1>2, ReplicaAssumption
<1>4. \A i \in 1..m : Sent(since + i) \in Item
  BY <1>1, <1>3 DEF Sent, Item
<1> HIDE DEF m
<1> DEFINE p == [i \in 1..m |-> Sent(since + i)]
<1>5. p \in Seq(Item) /\ DOMAIN p = 1..m
  BY <1>2, <1>4, SeqDef
<1>6. NumberedPage(p)
  BY <1>1, <1>3 DEF NumberedPage, NumberedLog, Sent
<1>7. EventsAfter(since) = p
  BY DEF EventsAfter, m
<1> QED
  BY <1>3, <1>5, <1>6, <1>7

\* A function on 1..n is a sequence.
LEMMA TupleIsSeq ==
  ASSUME NEW S, NEW n \in Nat, NEW q \in [1..n -> S]
  PROVE  q \in Seq(S) /\ Len(q) = n /\ DOMAIN q = 1..n
<1>1. q \in Seq(S)
  BY SeqDef
<1>2. Len(q) \in Nat /\ 1..Len(q) = 1..n
  BY <1>1, LenProperties
<1> QED
  BY <1>1, <1>2

\* Two sequences, one after the other.
Joined(u, s, q) ==
  /\ DOMAIN u = 1..(Len(s) + Len(q))
  /\ \A i \in 1..(Len(s) + Len(q)) : u[i] = IF i <= Len(s) THEN s[i] ELSE q[i - Len(s)]

LEMMA ConcatFacts ==
  ASSUME NEW S, NEW s \in Seq(S), NEW q \in Seq(S)
  PROVE  s \o q \in Seq(S) /\ Joined(s \o q, s, q)
<1> DEFINE u == s \o q
<1>1. /\ u \in Seq(S) /\ Len(u) = Len(s) + Len(q)
      /\ \A i \in 1..(Len(s) + Len(q)) : u[i] = IF i <= Len(s) THEN s[i] ELSE q[i - Len(s)]
  BY ConcatProperties
<1> HIDE DEF u
<1>2. DOMAIN u = 1..Len(u)
  BY <1>1, LenProperties
<1>3. u \in Seq(S) /\ Joined(u, s, q)
  BY <1>1, <1>2 DEF Joined
<1> QED
  BY <1>3 DEF u

\* The page continues a log, and what the log is with it.
Continues(p, s) == \A i \in DOMAIN p : InSequence(p, Len(s), i) /\ Genuine(p, i)

Events(p) == [i \in DOMAIN p |-> p[i].ev]

With(s, p) == s \o Events(p)

FromLogOrPage(u, s, p) ==
  \A i \in DOMAIN u : \/ i \in DOMAIN s /\ u[i] = s[i]
                      \/ \E j \in DOMAIN p : p[j].seq = i /\ u[i] = p[j].hash

LEMMA MirrorFacts ==
  ASSUME NEW s \in Seq(Event), NEW p \in Seq(Item), Continues(p, s)
  PROVE  With(s, p) \in Seq(Event) /\ FromLogOrPage(With(s, p), s, p)
<1> DEFINE q == Events(p)
           u == s \o q
<1>0. \A i \in DOMAIN p : /\ p[i].seq = Len(s) + i
                          /\ p[i].ev = p[i].hash /\ p[i].hash \in Event
  <2>1. \A i \in DOMAIN p : p[i] \in Item
    BY LenProperties, ElementOfSeq
  <2> QED
    BY <2>1 DEF Continues, InSequence, Genuine, Item
<1>2. q \in [DOMAIN p -> Event] /\ \A i \in DOMAIN p : q[i] = p[i].hash
  BY <1>0 DEF Events
<1> HIDE DEF q
<1>1. /\ Len(s) \in Nat /\ DOMAIN s = 1..Len(s)
      /\ Len(p) \in Nat /\ DOMAIN p = 1..Len(p)
  BY LenProperties
<1>3. q \in Seq(Event) /\ Len(q) = Len(p)
  <2>1. q \in [1..Len(p) -> Event]
    BY <1>1, <1>2
  <2> QED
    BY <1>1, <2>1, TupleIsSeq
<1>4. /\ u \in Seq(Event)
      /\ DOMAIN u = 1..(Len(s) + Len(p))
      /\ \A i \in 1..(Len(s) + Len(p)) : u[i] = IF i <= Len(s) THEN s[i] ELSE q[i - Len(s)]
  <2>1. u = s \o q
    BY DEF q
  <2> HIDE DEF u
  <2>2. u \in Seq(Event) /\ Joined(u, s, q)
    BY <1>3, <2>1, ConcatFacts
  <2> QED
    BY <1>3, <2>2 DEF Joined
<1> HIDE DEF u
<1>6. ASSUME NEW i \in DOMAIN u, i \notin DOMAIN s
      PROVE  \E j \in DOMAIN p : p[j].seq = i /\ u[i] = p[j].hash
  <2>1. i - Len(s) \in 1..Len(p) /\ ~(i <= Len(s)) /\ Len(s) + (i - Len(s)) = i
    BY <1>1, <1>4, <1>6
  <2>2. u[i] = q[i - Len(s)]
    BY <1>4, <2>1
  <2> QED
    BY <1>0, <1>1, <1>2, <2>1, <2>2
<1>7. FromLogOrPage(u, s, p)
  BY <1>1, <1>4, <1>6 DEF FromLogOrPage
<1> QED
  BY <1>4, <1>7 DEF u, q, With

\* A page whose items were dropped, repeated, moved or altered.
LEMMA DistortFacts ==
  ASSUME NEW p \in Seq(Item), NumberedPage(p), NEW d \in Distorted(p)
  PROVE  /\ d \in Seq(Item)
         /\ NumberedPage(d)
         /\ \A i \in DOMAIN d : \E j \in DOMAIN p : /\ d[i].seq = p[j].seq
                                                   /\ d[i].hash = p[j].hash
<1>1. /\ Len(p) \in Nat /\ DOMAIN p = 1..Len(p) /\ p \in [1..Len(p) -> Item]
      /\ \A i \in 1..Len(p) : p[i] \in Item
  BY LenProperties, ElementOfSeq
<1>2. ASSUME NEW n \in 0..Len(p), d \in [1..n -> Range(p)]
      PROVE  d \in Seq(Item) /\ \A i \in DOMAIN d : \E j \in DOMAIN p : d[i] = p[j]
  <2>1. n \in Nat /\ Range(p) \subseteq Item
    BY <1>1 DEF Range
  <2>2. d \in [1..n -> Item]
    BY <1>2, <2>1
  <2>3. d \in Seq(Item)
    BY <2>1, <2>2, SeqDef
  <2> QED
    BY <1>2, <2>3 DEF Range
<1>3. ASSUME NEW k \in DOMAIN p, d = [p EXCEPT ![k].ev = Garbage]
      PROVE  /\ d \in Seq(Item)
             /\ \A i \in DOMAIN d : /\ i \in DOMAIN p
                                    /\ d[i].seq = p[i].seq /\ d[i].hash = p[i].hash
  <2>1. [p[k] EXCEPT !.ev = Garbage] \in Item
    BY <1>1 DEF Item
  <2>2. d \in Seq(Item)
    BY <1>1, <1>3, <2>1, ExceptSeq
  <2> QED
    BY <1>1, <1>3, <2>2 DEF Item
<1>4. \/ \E n \in 0..Len(p) : d \in [1..n -> Range(p)]
      \/ \E k \in DOMAIN p : d = [p EXCEPT ![k].ev = Garbage]
  BY DEF Distorted
<1>5. /\ d \in Seq(Item)
      /\ \A i \in DOMAIN d : \E j \in DOMAIN p : d[i].seq = p[j].seq /\ d[i].hash = p[j].hash
  BY <1>2, <1>3, <1>4
<1> QED
  BY <1>5 DEF NumberedPage

LEMMA TypeInit == Init => TypeInv
<1> SUFFICES ASSUME Init PROVE TypeInv
  OBVIOUS
<1>1. /\ << >> \in Seq(Event) /\ << >> \in Seq(Item)
      /\ NumberedLog(<< >>) /\ NumberedPage(<< >>)
  BY EmptySeq DEF NumberedLog, NumberedPage
<1>2. TypeOK
  BY <1>1, ReplicaAssumption DEF Init, TypeOK, NoPage, NoReply
<1>3. Numbered
  BY <1>1 DEF Init, Numbered, NoPage
<1> QED
  BY <1>2, <1>3 DEF TypeInv

\* Every step keeps the types and the numbers.
LEMMA TypeStep == TypeInv /\ [Next]_vars => TypeInv'
<1> SUFFICES ASSUME TypeInv, [Next]_vars PROVE TypeInv'
  OBVIOUS
<1> USE DEF wire
<1>0. /\ TypeOK /\ Numbered
      /\ << >> \in Seq(Event) /\ << >> \in Seq(Item)
      /\ NumberedLog(<< >>)' /\ NumberedPage(<< >>)'
      /\ authored \in 0..MaxEvents
  BY EmptySeq DEF NumberedLog, NumberedPage, TypeInv, TypeOK
<1>1. CASE ServerAppend
  <2>1. /\ server' = Append(server, New(Server)) /\ Author
        /\ UNCHANGED <<log, bound, status, page, offer, reply, writer, faults>>
        /\ authored' \in authored..MaxEvents /\ authored' \in 0..MaxEvents
    BY <1>0, <1>1, ReplicaAssumption DEF ServerAppend, Author
  <2>2. server' \in Seq(Event) /\ NumberedLog(server)'
    BY <1>0, <2>1, AppendNumbered DEF TypeOK, Numbered
  <2>3. TypeOK'
    BY <1>0, <2>1, <2>2 DEF TypeOK
  <2>4. Numbered'
    BY <1>0, <2>1, <2>2, StayNumbered DEF TypeOK, Numbered
  <2> QED
    BY <2>3, <2>4 DEF TypeInv
<1>2. ASSUME NEW n \in 0..(Len(server) - 1), ServerRestore(n)
      PROVE  TypeInv'
  <2>1. /\ server' = SubSeq(server, 1, n)
        /\ UNCHANGED <<log, bound, status, page, offer, reply, writer, authored>>
        /\ faults' \in 0..MaxFaults
    BY <1>0, <1>2, ReplicaAssumption DEF ServerRestore, Fault, TypeOK
  <2>2. n \in 0..Len(server) /\ server \in Seq(Event) /\ DOMAIN server = 1..Len(server)
    BY <1>0, LenProperties DEF TypeOK
  <2>3. server' \in Seq(Event) /\ NumberedLog(server)'
    BY <1>0, <2>1, <2>2, PrefixFacts DEF Numbered, NumberedLog
  <2>4. TypeOK'
    BY <1>0, <2>1, <2>3 DEF TypeOK
  <2>5. Numbered'
    BY <1>0, <2>1, <2>3 DEF Numbered, NumberedLog, NumberedPage
  <2> QED
    BY <2>4, <2>5 DEF TypeInv
<1> USE DEF TypeInv, TypeOK, Numbered, NumberedLog, NumberedPage
<1>3. ASSUME NEW l \in Ledgers, Attach(l)
      PROVE  TypeInv'
  BY <1>0, <1>3 DEF Attach
<1>4. ASSUME NEW l \in Ledgers, Detach(l)
      PROVE  TypeInv'
  BY <1>0, <1>4 DEF Detach
<1>6. ASSUME NEW l \in Ledgers, Bind(l)
      PROVE  TypeInv'
  BY <1>0, <1>6 DEF Bind, Connect
<1>7. ASSUME NEW l \in Ledgers, Offer(l)
      PROVE  TypeInv'
  BY <1>0, <1>7 DEF Offer
<1>9. ASSUME NEW l \in Ledgers, RefuseOffer(l)
      PROVE  TypeInv'
  BY <1>0, <1>9 DEF RefuseOffer
<1>10. ASSUME NEW l \in Ledgers, BindAdopted(l)
      PROVE  TypeInv'
  BY <1>0, <1>10 DEF BindAdopted, Connect
<1>11. ASSUME NEW l \in Ledgers, RefuseAdopted(l)
      PROVE  TypeInv'
  BY <1>0, <1>11 DEF RefuseAdopted
<1>12. ASSUME NEW l \in Ledgers, LoseAdoption(l)
      PROVE  TypeInv'
  <2>1. faults' \in 0..MaxFaults
    BY <1>12, ReplicaAssumption DEF LoseAdoption, Fault
  <2> QED
    BY <1>0, <1>12, <2>1 DEF LoseAdoption
<1>13. ASSUME NEW l \in Ledgers, Unbind(l)
      PROVE  TypeInv'
  BY <1>0, <1>13 DEF Unbind, NoPage
<1>14. ASSUME NEW l \in Ledgers, Open(l)
      PROVE  TypeInv'
  BY <1>0, <1>14 DEF Open
<1>15. ASSUME NEW l \in Ledgers, Verify(l)
      PROVE  TypeInv'
  BY <1>0, <1>15 DEF Verify, Follow
<1>16. ASSUME NEW l \in Ledgers, VerifyFails(l)
      PROVE  TypeInv'
  BY <1>0, <1>16 DEF VerifyFails
<1>17. ASSUME NEW l \in Ledgers, Close(l)
      PROVE  TypeInv'
  BY <1>0, <1>17 DEF Close, NoPage
<1>18. ASSUME NEW l \in Ledgers, Reset(l)
      PROVE  TypeInv'
  BY <1>0, <1>18 DEF Reset
<1>19. ASSUME NEW l \in Ledgers, NEW t \in Ticks, ApplyGap(l, t)
      PROVE  TypeInv'
  BY <1>0, <1>19 DEF ApplyGap, IsGap, Refused, Consume, NoPage
<1>20. ASSUME NEW l \in Ledgers, NEW t \in Ticks, ApplyMismatch(l, t)
      PROVE  TypeInv'
  BY <1>0, <1>20 DEF ApplyMismatch, Refused, StopSyncing, Consume, NoPage
<1>5. ASSUME NEW l \in Ledgers, LocalAppend(l)
      PROVE  TypeInv'
  <2>1. /\ log' = [log EXCEPT ![l] = Append(log[l], New(l))] /\ Author
        /\ UNCHANGED <<server, bound, status, page, offer, reply, writer, faults>>
        /\ authored' \in authored..MaxEvents /\ authored' \in 0..MaxEvents
    BY <1>0, <1>5, ReplicaAssumption DEF LocalAppend, Author
  <2>2. log[l] \in Seq(Event) /\ NumberedLog(log[l])
    BY <1>0
  <2>3. log'[l] = Append(log[l], New(l)) /\ \A m \in Ledgers : m # l => log'[m] = log[m]
    BY <1>0, <2>1
  <2> HIDE DEF TypeInv, TypeOK, Numbered, NumberedLog, NumberedPage
  <2>4. log'[l] \in Seq(Event) /\ NumberedLog(log[l])'
    BY <1>0, <2>1, <2>2, <2>3, AppendNumbered
  <2>5. TypeOK'
    BY <1>0, <2>1, <2>4 DEF TypeOK
  <2>6. Numbered'
    BY <1>0, <2>1, <2>3, <2>4, StayNumbered DEF TypeOK, Numbered
  <2> QED
    BY <2>5, <2>6 DEF TypeInv
<1>8. ASSUME NEW l \in Ledgers, Adopt(l)
      PROVE  TypeInv'
  <2>1. Len(offer[l]) \in 1..MaxEvents /\ offer[l][Len(offer[l])] \in Event
    <3>1. offer[l] \in Seq(Event) /\ NumberedLog(offer[l]) /\ offer[l] # << >>
      BY <1>0, <1>8 DEF Adopt, Adopted
    <3>2. Len(offer[l]) # 0
      BY <3>1, EmptySeq
    <3> QED
      BY <1>0, <3>1, <3>2, LogFits
  <2> QED
    BY <1>0, <1>8, <2>1 DEF Adopt, Adopted
<1>21. ASSUME NEW l \in Ledgers, NEW t \in Ticks, Fetch(l, t)
       PROVE  TypeInv'
  <2>1. Len(log[l]) \in Nat /\ Len(log[l]) < Len(server)
    BY <1>0, <1>21, LenProperties DEF Fetch
  <2>2. EventsAfter(Len(log[l])) \in Seq(Item) /\ NumberedPage(EventsAfter(Len(log[l])))
    BY <1>0, <2>1, PageFacts
  <2>3. page' = [page EXCEPT ![l][t] = EventsAfter(Len(log[l]))]
    BY <1>21 DEF Fetch
  <2> DEFINE p == EventsAfter(Len(log[l]))
  <2> HIDE DEF p
  <2> QED
    BY <1>0, <1>21, <2>2, <2>3 DEF Fetch, p
<1>22. ASSUME NEW l \in Ledgers, NEW t \in Ticks, Distort(l, t)
       PROVE  TypeInv'
  <2>1. PICK p \in Distorted(page[l][t]) : page' = [page EXCEPT ![l][t] = p]
    BY <1>22 DEF Distort
  <2>0. page[l][t] \in Seq(Item) /\ NumberedPage(page[l][t])
    BY <1>0
  <2>2. p \in Seq(Item) /\ NumberedPage(p)
    <3> HIDE DEF TypeInv, TypeOK, Numbered, NumberedLog, NumberedPage
    <3> QED
      BY <2>0, <2>1, DistortFacts
  <2>3. faults' \in 0..MaxFaults /\ UNCHANGED <<server, log, bound, status, writer, offer, reply, authored>>
    BY <1>22, ReplicaAssumption DEF Distort, Fault
  <2> QED
    BY <1>0, <2>1, <2>2, <2>3
<1>23. ASSUME NEW l \in Ledgers, NEW t \in Ticks, Apply(l, t)
       PROVE  TypeInv'
  <2> DEFINE s == log[l]
             p == page[l][t]
             u == With(s, p)
  <2>1. /\ Continues(p, s)
        /\ log' = [log EXCEPT ![l] = u]
        /\ page' = [page EXCEPT ![l][t] = << >>]
        /\ UNCHANGED <<server, bound, status, writer, offer, reply, authored, faults>>
    BY <1>23 DEF Apply, Mirror, Consume, NoPage, Continues, With, Events
  <2>2. p \in Seq(Item) /\ s \in Seq(Event) /\ NumberedPage(p) /\ NumberedLog(s)
    BY <1>0
  <2> HIDE DEF s, p, u, TypeInv, TypeOK, Numbered, NumberedLog, NumberedPage
  <2>3. u \in Seq(Event) /\ FromLogOrPage(u, s, p)
    BY <2>1, <2>2, MirrorFacts DEF u
  <2>4. NumberedLog(u)
    BY <2>2, <2>3 DEF FromLogOrPage, NumberedLog, NumberedPage
  <2> USE DEF TypeInv, TypeOK, Numbered, NumberedLog, NumberedPage
  <2> QED
    BY <1>0, <2>1, <2>3, <2>4
<1>24. CASE UNCHANGED vars
  BY <1>0, <1>24 DEF vars
<1> QED
  BY <1>1, <1>2, <1>3, <1>4, <1>5, <1>6, <1>7, <1>8, <1>9, <1>10, <1>11, <1>12, <1>13, <1>14,
     <1>15, <1>16, <1>17, <1>18, <1>19, <1>20, <1>21, <1>22, <1>23, <1>24 DEF Next

-----------------------------------------------------------------------------
(* Agreement.  The logs in the system are the server's, the files', and    *)
(* those on their way to be adopted.  Where two of them hold one event at  *)
(* one number they hold the same before it: a log grows by an event that   *)
(* is in no other log, or becomes the beginning of one that exists.        *)

Logs == {server} \cup {log[l] : l \in Ledgers} \cup {offer[l] : l \in Ledgers}

AllAgree == \A s, t \in Logs : Agree(s, t)

\* The beginning of a log, as functions.
Begins(s, t) == DOMAIN s \subseteq DOMAIN t /\ \A i \in DOMAIN s : s[i] = t[i]

LEMMA LogTypes ==
  ASSUME TypeInv
  PROVE  /\ \A s \in Logs : s \in Seq(Event) /\ NumberedLog(s)
         /\ authored \in 0..MaxEvents
BY DEF TypeInv, TypeOK, Numbered, Logs

LEMMA BeginsIsPrefix ==
  ASSUME NEW s \in Seq(Event), NEW t \in Seq(Event)
  PROVE  IsPrefix(s, t) <=> Begins(s, t)
<1>1. /\ Len(s) \in Nat /\ DOMAIN s = 1..Len(s)
      /\ Len(t) \in Nat /\ DOMAIN t = 1..Len(t)
      /\ SubSeq(s, 1, Len(s)) = s
  BY LenProperties, SubSeqFull
<1>2. DOMAIN s \subseteq DOMAIN t <=> Len(s) <= Len(t)
  BY <1>1
<1>3. ASSUME Len(s) <= Len(t)
      PROVE  SubSeq(t, 1, Len(s)) = s <=> \A i \in DOMAIN s : s[i] = t[i]
  <2> DEFINE u == SubSeq(t, 1, Len(s))
  <2>1. Len(s) \in 0..Len(t)
    BY <1>1, <1>3
  <2>2. u \in Seq(Event) /\ Len(u) = Len(s) /\ \A i \in 1..Len(s) : u[i] = t[i]
    BY <2>1, PrefixFacts
  <2> HIDE DEF u
  <2>3. (\A i \in 1..Len(s) : u[i] = s[i]) => u = s
    BY <2>2, SeqEqual
  <2> QED
    BY <1>1, <2>2, <2>3 DEF u
<1> QED
  BY <1>1, <1>2, <1>3 DEF IsPrefix, Begins

\* Beginnings of logs that agree do.
LEMMA BeginningsAgree ==
  ASSUME NEW s \in Seq(Event), NEW t \in Seq(Event), Agree(s, t),
         NEW u \in Seq(Event), NEW v \in Seq(Event), Begins(u, s), Begins(v, t)
  PROVE  Agree(u, v)
<1>1. /\ DOMAIN u = 1..Len(u) /\ Len(u) \in Nat
      /\ DOMAIN v = 1..Len(v) /\ Len(v) \in Nat
  BY LenProperties
<1> SUFFICES ASSUME NEW i \in DOMAIN u \cap DOMAIN v, u[i] = v[i], NEW j \in 1..i
             PROVE  u[j] = v[j]
  BY DEF Agree, SameUpTo
<1>2. j \in DOMAIN u /\ j \in DOMAIN v
  BY <1>1
<1> QED
  BY <1>2 DEF Agree, SameUpTo, Begins

\* An event in no log makes a log agree with every other as it did before.
LEMMA NewEventAgrees ==
  ASSUME TypeInv, AllAgree, Author, NEW s \in Logs, NEW a \in Ledgers \cup {Server},
         NEW u, u = Append(s, New(a)), NEW t \in Logs
  PROVE  Agree(u, t) /\ Agree(t, u) /\ Agree(u, u)
<1>1. /\ s \in Seq(Event) /\ t \in Seq(Event) /\ NumberedLog(s) /\ NumberedLog(t)
      /\ authored \in 0..MaxEvents
  BY LogTypes
<1>2. /\ DOMAIN s = 1..Len(s) /\ Len(s) \in Nat
      /\ DOMAIN t = 1..Len(t) /\ Len(t) \in Nat
      /\ \A i \in 1..Len(t) : t[i].n \in Nat
  BY <1>1, LogFits, LenProperties
<1>3. New(a) \in Event /\ New(a).n = authored + 1 /\ authored \in Nat
  BY <1>1, ReplicaAssumption DEF New, Event, Author
<1>4. /\ u \in Seq(Event) /\ Len(u) = Len(s) + 1
      /\ \A i \in 1..Len(s) : u[i] = s[i]
      /\ u[Len(s) + 1] = New(a)
  BY <1>1, <1>3, AppendProperties
<1>5. DOMAIN u = 1..(Len(s) + 1)
  BY <1>4, LenProperties
<1>6. \A i \in DOMAIN t : t[i] # New(a)
  <2> SUFFICES ASSUME NEW i \in DOMAIN t PROVE t[i].n # authored + 1
    BY <1>3
  <2>1. t[i].n <= authored /\ t[i].n \in Nat
    BY <1>1, <1>2 DEF NumberedLog
  <2> QED
    BY <1>3, <2>1
<1>7. Agree(s, t) /\ Agree(t, s)
  BY DEF AllAgree
<1>8. ASSUME NEW i \in DOMAIN u, NEW j \in 1..i, i \in DOMAIN t, u[i] = t[i]
      PROVE  u[j] = t[j]
  <2>1. i \in 1..Len(s)
    BY <1>2, <1>4, <1>5, <1>6, <1>8
  <2>2. j \in 1..Len(s) /\ s[i] = t[i]
    BY <1>2, <1>4, <1>8, <2>1
  <2> QED
    BY <1>2, <1>4, <1>7, <1>8, <2>1, <2>2 DEF Agree, SameUpTo
<1> QED
  BY <1>8 DEF Agree, SameUpTo

\* A file is bound while it is opened or followed, and not written meanwhile.
Roles ==
  \A l \in Ledgers : /\ status[l] # "closed" => bound[l]
                     /\ bound[l] => ~writer[l]

\* What is on the wire was read from the server's log, as it is.
PagesFit ==
  \A l \in Ledgers, t \in Ticks :
    /\ status[l] = "closed" => page[l][t] = NoPage
    /\ \A i \in DOMAIN page[l][t] :
         /\ page[l][t][i].seq \in DOMAIN server
         /\ page[l][t][i].hash = server[page[l][t][i].seq]

FollowedBegins == \A l \in Ledgers : status[l] = "following" => Begins(log[l], server)

AgreeInv ==
  /\ AllAgree
  /\ Roles
  /\ PagesFit
  /\ FollowedBegins

LEMMA LogsBegin ==
  ASSUME TypeInv, TypeInv', AllAgree, \A u \in Logs' : \E s \in Logs : Begins(u, s)
  PROVE  AllAgree'
<1> SUFFICES ASSUME NEW u \in Logs', NEW v \in Logs'
             PROVE  Agree(u, v)
  BY DEF AllAgree
<1>1. PICK s \in Logs : Begins(u, s)
  OBVIOUS
<1>2. PICK t \in Logs : Begins(v, t)
  OBVIOUS
<1>3. s \in Seq(Event) /\ t \in Seq(Event)
  BY LogTypes
<1>4. \A w \in Logs' : w \in Seq(Event)
  <2>1. /\ server' \in Seq(Event)
        /\ log' \in [Ledgers -> Seq(Event)]
        /\ offer' \in [Ledgers -> Seq(Event)]
    BY DEF TypeInv, TypeOK
  <2> QED
    BY <2>1 DEF Logs
<1>5. Agree(s, t)
  BY DEF AllAgree
<1> QED
  BY <1>1, <1>2, <1>3, <1>4, <1>5, BeginningsAgree

LEMMA LogGrows ==
  ASSUME TypeInv, AllAgree, Author, NEW s \in Logs, NEW a \in Ledgers \cup {Server},
         \A u \in Logs' : u \in Logs \/ u = Append(s, New(a))
  PROVE  AllAgree'
<1> SUFFICES ASSUME NEW u \in Logs', NEW v \in Logs'
             PROVE  Agree(u, v)
  BY DEF AllAgree
<1>1. CASE u \in Logs /\ v \in Logs
  BY <1>1 DEF AllAgree
<1>2. CASE u = Append(s, New(a)) /\ v \in Logs
  BY <1>2, NewEventAgrees
<1>3. CASE u \in Logs /\ v = Append(s, New(a))
  BY <1>3, NewEventAgrees
<1>4. CASE u = Append(s, New(a)) /\ v = Append(s, New(a))
  BY <1>4, NewEventAgrees
<1> QED
  BY <1>1, <1>2, <1>3, <1>4

LEMMA AgreeInit == Init => AgreeInv
<1> SUFFICES ASSUME Init PROVE AgreeInv
  OBVIOUS
<1>1. Logs = {<< >>}
  BY DEF Init, Logs
<1>2. DOMAIN << >> = {}
  BY EmptySeq
<1> QED
  BY <1>1, <1>2 DEF Init, AgreeInv, AllAgree, Agree, Roles, PagesFit, FollowedBegins, NoPage

\* The steps that change no log and bring no page.
LEMMA QuietStep ==
  ASSUME AgreeInv, UNCHANGED <<server, log>>, Roles',
         \A l \in Ledgers : offer'[l] = offer[l] \/ offer'[l] \in Logs \/ offer'[l] = << >>,
         \A l \in Ledgers : status'[l] = "following" => status[l] = "following" \/ Begins(log[l], server),
         \A l \in Ledgers, t \in Ticks :
           /\ page'[l][t] \in {page[l][t], NoPage}
           /\ status'[l] = "closed" /\ status[l] # "closed" => page'[l][t] = NoPage,
         TypeInv, TypeInv'
  PROVE  AgreeInv'
<1>1. DOMAIN << >> = {}
  BY EmptySeq
<1>2. AllAgree'
  <2>1. ASSUME NEW u \in Logs'
        PROVE  \E s \in Logs : Begins(u, s)
    <3>1. CASE u \in Logs
      BY <3>1 DEF Begins
    <3>2. CASE u = << >>
      <4>1. server \in Logs /\ Begins(<< >>, server)
        BY <1>1 DEF Logs, Begins
      <4> QED
        BY <3>2, <4>1
    <3> QED
      BY <3>1, <3>2 DEF Logs
  <2> QED
    BY <2>1, LogsBegin DEF AgreeInv
<1>3. PagesFit'
  BY <1>1 DEF AgreeInv, PagesFit, NoPage
<1>4. FollowedBegins'
  BY DEF AgreeInv, FollowedBegins
<1> QED
  BY <1>2, <1>3, <1>4 DEF AgreeInv

\* A longer or an equal server log keeps what began it and was read from it.
LEMMA ServerGrows ==
  ASSUME AgreeInv, Begins(server, server'), AllAgree', Roles',
         UNCHANGED page,
         \A l \in Ledgers : status'[l] = status[l],
         \A l \in Ledgers : log'[l] = log[l] \/ status[l] # "following"
  PROVE  AgreeInv'
<1>1. PagesFit'
  BY DEF AgreeInv, PagesFit, Begins
<1>2. FollowedBegins'
  BY DEF AgreeInv, FollowedBegins, Begins
<1> QED
  BY <1>1, <1>2 DEF AgreeInv

\* A restored server is the only log that shrinks, and then nobody follows it.
LEMMA RestoreAgrees ==
  ASSUME ~RestoreAnyTime, TypeInv, TypeInv', AgreeInv,
         NEW n \in 0..(Len(server) - 1), ServerRestore(n)
  PROVE  AgreeInv'
<1>1. /\ server' = SubSeq(server, 1, n)
      /\ \A l \in Ledgers : status[l] = "closed"
      /\ UNCHANGED <<log, bound, status, page, writer, offer>>
  BY DEF ServerRestore, wire
<1>2. Begins(server', server)
  <2>1. server \in Seq(Event)
    BY DEF TypeInv, TypeOK
  <2>2. n \in 0..Len(server) /\ DOMAIN server = 1..Len(server)
    BY <2>1, LenProperties
  <2> QED
    BY <1>1, <2>1, <2>2, PrefixFacts DEF Begins
<1>3. AllAgree'
  <2>1. \A u \in Logs' : \E s \in Logs : Begins(u, s)
    BY <1>1, <1>2 DEF Logs, Begins
  <2> QED
    BY <2>1, LogsBegin DEF AgreeInv
<1>4. PagesFit'
  <2>1. \A l \in Ledgers, t \in Ticks : page'[l][t] = << >>
    BY <1>1 DEF AgreeInv, PagesFit, NoPage
  <2> QED
    BY <2>1, EmptySeq DEF PagesFit, NoPage
<1>5. FollowedBegins'
  BY <1>1 DEF FollowedBegins
<1>6. Roles'
  BY <1>1 DEF AgreeInv, Roles
<1> QED
  BY <1>3, <1>4, <1>5, <1>6 DEF AgreeInv

\* Nobody follows anything but the empty beginning of an empty server.
LEMMA AdoptAgrees ==
  ASSUME TypeInv, TypeInv', AgreeInv, NEW l \in Ledgers, Adopt(l)
  PROVE  AgreeInv'
<1>1. /\ server = << >> /\ server' = offer[l]
      /\ \A m \in Ledgers : offer'[m] \in {offer[m], << >>}
      /\ UNCHANGED <<log, bound, status, page, writer>>
  BY DEF Adopt, Adopted, TypeInv, TypeOK
<1>2. DOMAIN server = {} /\ DOMAIN << >> = {}
  BY <1>1, EmptySeq
<1>3. AllAgree'
  <2>1. \A u \in Logs' : u \in Logs
    BY <1>1 DEF Logs
  <2>2. \A u \in Logs' : \E s \in Logs : Begins(u, s)
    BY <2>1 DEF Begins
  <2> QED
    BY <2>2, LogsBegin DEF AgreeInv
<1>4. Roles'
  BY <1>1 DEF AgreeInv, Roles
<1>5. Begins(server, server')
  BY <1>2 DEF Begins
<1> QED
  BY <1>1, <1>3, <1>4, <1>5, ServerGrows

\* An applied page extends the file by what the server's log has there.
LEMMA ApplyAgrees ==
  ASSUME TypeInv, TypeInv', AgreeInv, NEW l \in Ledgers, NEW t \in Ticks, Apply(l, t)
  PROVE  AgreeInv'
<1> DEFINE s == log[l]
           p == page[l][t]
           u == With(s, p)
<1>1. /\ Continues(p, s)
      /\ log' = [log EXCEPT ![l] = u]
      /\ page' = [page EXCEPT ![l][t] = << >>]
      /\ status[l] = "following"
      /\ UNCHANGED <<server, bound, status, writer, offer>>
  BY DEF Apply, Mirror, Consume, NoPage, Continues, With, Events
<1>2. /\ s \in Seq(Event) /\ p \in Seq(Item) /\ log \in [Ledgers -> Seq(Event)]
      /\ page \in [Ledgers -> [Ticks -> Seq(Item)]]
  BY DEF TypeInv, TypeOK
<1>3. FromLogOrPage(u, s, p)
  BY <1>1, <1>2, MirrorFacts
<1> HIDE DEF u
<1>4. Begins(u, server)
  <2>1. Begins(s, server)
    BY <1>1 DEF AgreeInv, FollowedBegins
  <2>2. \A j \in DOMAIN p : p[j].seq \in DOMAIN server /\ p[j].hash = server[p[j].seq]
    BY DEF AgreeInv, PagesFit
  <2>3. ASSUME NEW i \in DOMAIN u
        PROVE  i \in DOMAIN server /\ u[i] = server[i]
    <3>1. CASE i \in DOMAIN s /\ u[i] = s[i]
      BY <2>1, <3>1 DEF Begins
    <3>2. CASE \E j \in DOMAIN p : p[j].seq = i /\ u[i] = p[j].hash
      BY <2>2, <3>2
    <3> QED
      BY <1>3, <3>1, <3>2 DEF FromLogOrPage
  <2> QED
    BY <2>3 DEF Begins
<1>5. \A m \in Ledgers : log'[m] = IF m = l THEN u ELSE log[m]
  BY <1>1, <1>2
<1>6. AllAgree'
  <2>1. ASSUME NEW v \in Logs'
        PROVE  \E w \in Logs : Begins(v, w)
    <3>1. CASE v \in Logs
      BY <3>1 DEF Begins
    <3>2. CASE v = u
      BY <1>4, <3>2 DEF Logs
    <3> QED
      BY <1>1, <1>5, <3>1, <3>2 DEF Logs
  <2> QED
    BY <2>1, LogsBegin DEF AgreeInv
<1>7. PagesFit'
  <2>1. \A m \in Ledgers, k \in Ticks : page'[m][k] \in {page[m][k], << >>}
    BY <1>1, <1>2
  <2> QED
    BY <1>1, <2>1, EmptySeq DEF AgreeInv, PagesFit, NoPage
<1>8. FollowedBegins'
  BY <1>1, <1>4, <1>5 DEF AgreeInv, FollowedBegins
<1>9. Roles'
  BY <1>1 DEF AgreeInv, Roles
<1> QED
  BY <1>6, <1>7, <1>8, <1>9 DEF AgreeInv

\* A page fetched, or altered on the wire, still says where its events are.
LEMMA PageAgrees ==
  ASSUME TypeInv, AgreeInv, NEW l \in Ledgers, NEW t \in Ticks, NEW d,
         \A i \in DOMAIN d : d[i].seq \in DOMAIN server /\ d[i].hash = server[d[i].seq],
         status[l] # "closed", page' = [page EXCEPT ![l][t] = d],
         UNCHANGED <<server, log, bound, status, writer, offer>>
  PROVE  AgreeInv'
<1>1. \A m \in Ledgers, k \in Ticks :
        page'[m][k] = IF m = l /\ k = t THEN d ELSE page[m][k]
  <2>1. page \in [Ledgers -> [Ticks -> Seq(Item)]]
    BY DEF TypeInv, TypeOK
  <2> QED
    BY <2>1
<1>2. PagesFit'
  <2> SUFFICES ASSUME NEW m \in Ledgers, NEW k \in Ticks
               PROVE  /\ status[m] = "closed" => page'[m][k] = NoPage
                      /\ \A i \in DOMAIN page'[m][k] :
                           /\ page'[m][k][i].seq \in DOMAIN server
                           /\ page'[m][k][i].hash = server[page'[m][k][i].seq]
    BY DEF PagesFit
  <2>1. CASE m = l /\ k = t
    BY <1>1, <2>1
  <2>2. CASE ~(m = l /\ k = t)
    BY <1>1, <2>2 DEF AgreeInv, PagesFit
  <2> QED
    BY <2>1, <2>2
<1>3. AllAgree' /\ Roles' /\ FollowedBegins'
  BY DEF AgreeInv, AllAgree, Logs, Roles, FollowedBegins
<1> QED
  BY <1>2, <1>3 DEF AgreeInv

\* The comparison of the events at the head is a comparison of the logs.
LEMMA HeadTells ==
  ASSUME TypeInv, AllAgree, NEW l \in Ledgers
  PROVE  SamePrefix(l) <=> Begins(log[l], server)
<1>1. /\ log[l] \in Seq(Event) /\ server \in Seq(Event)
      /\ Agree(log[l], server)
  BY DEF TypeInv, TypeOK, AllAgree, Logs
<1>2. /\ Len(log[l]) \in Nat /\ DOMAIN log[l] = 1..Len(log[l])
      /\ Len(server) \in Nat /\ DOMAIN server = 1..Len(server)
  BY <1>1, LenProperties
<1>3. CASE log[l] = << >>
  BY <1>3, EmptySeq DEF SamePrefix, Begins
<1>4. CASE log[l] # << >>
  <2>1. Len(log[l]) # 0
    BY <1>1, <1>4, EmptySeq
  <2>2. ASSUME SamePrefix(l) PROVE Begins(log[l], server)
    BY <1>1, <1>2, <1>4, <2>1, <2>2 DEF SamePrefix, Begins, Agree, SameUpTo
  <2>3. ASSUME Begins(log[l], server) PROVE SamePrefix(l)
    BY <1>2, <2>1, <2>3 DEF SamePrefix, Begins
  <2> QED
    BY <2>2, <2>3
<1> QED
  BY <1>3, <1>4

LEMMA AgreeStep ==
  ASSUME ~RestoreAnyTime, TypeInv, TypeInv', AgreeInv, [Next]_vars
  PROVE  AgreeInv'
<1> USE DEF wire
<1>0. /\ TypeOK /\ AllAgree /\ Roles
      /\ server \in Logs
      /\ \A l \in Ledgers : log[l] \in Logs /\ offer[l] \in Logs
  BY DEF AgreeInv, TypeInv, Logs
<1>1. CASE ServerAppend
  <2>1. /\ server' = Append(server, New(Server)) /\ Author
        /\ UNCHANGED <<log, bound, status, page, offer, writer>>
    BY <1>1 DEF ServerAppend
  <2>2. AllAgree'
    <3>1. \A u \in Logs' : u \in Logs \/ u = Append(server, New(Server))
      BY <2>1 DEF Logs
    <3> QED
      BY <1>0, <2>1, <3>1, LogGrows
  <2>3. Begins(server, server')
    <3>1. server \in Seq(Event) /\ New(Server) \in Event
      BY <1>0, <2>1, ReplicaAssumption DEF TypeOK, New, Event, Author
    <3> QED
      BY <2>1, <3>1, AppendProperties, LenProperties DEF Begins
  <2>4. Roles'
    BY <1>0, <2>1 DEF Roles
  <2> QED
    BY <2>1, <2>2, <2>3, <2>4, ServerGrows
<1>2. ASSUME NEW n \in 0..(Len(server) - 1), ServerRestore(n)
      PROVE  AgreeInv'
  BY <1>2, RestoreAgrees
<1>3. ASSUME NEW l \in Ledgers, LocalAppend(l)
      PROVE  AgreeInv'
  <2>1. /\ log' = [log EXCEPT ![l] = Append(log[l], New(l))] /\ Author /\ writer[l]
        /\ UNCHANGED <<server, bound, status, page, offer, writer>>
    BY <1>3 DEF LocalAppend
  <2>2. \A m \in Ledgers : log'[m] = IF m = l THEN Append(log[l], New(l)) ELSE log[m]
    BY <1>0, <2>1 DEF TypeOK
  <2>3. AllAgree'
    <3>1. \A u \in Logs' : u \in Logs \/ u = Append(log[l], New(l))
      BY <2>1, <2>2 DEF Logs
    <3> QED
      BY <1>0, <2>1, <3>1, LogGrows
  <2>4. Roles'
    BY <1>0, <2>1 DEF Roles
  <2>5. status[l] = "closed"
    BY <1>0, <2>1 DEF Roles
  <2>6. Begins(server, server')
    BY <2>1 DEF Begins
  <2> QED
    BY <2>1, <2>2, <2>3, <2>4, <2>5, <2>6, ServerGrows
<1>4. ASSUME NEW l \in Ledgers, Adopt(l)
      PROVE  AgreeInv'
  BY <1>4, AdoptAgrees
<1>5. ASSUME NEW l \in Ledgers,
             \/ Attach(l) \/ Detach(l) \/ Offer(l) \/ RefuseOffer(l)
             \/ RefuseAdopted(l) \/ LoseAdoption(l)
      PROVE  AgreeInv'
  <2>1. /\ UNCHANGED <<server, log, bound, status, page>>
        /\ \A m \in Ledgers : offer'[m] = offer[m] \/ offer'[m] \in Logs \/ offer'[m] = << >>
    BY <1>0, <1>5 DEF Attach, Detach, Offer, RefuseOffer, RefuseAdopted, LoseAdoption, TypeOK
  <2>2. Roles'
    BY <1>0, <1>5 DEF Attach, Detach, Offer, RefuseOffer, RefuseAdopted, LoseAdoption,
                      TypeOK, Roles
  <2> QED
    BY <2>1, <2>2, QuietStep
<1>6. ASSUME NEW l \in Ledgers, Bind(l) \/ BindAdopted(l) \/ Open(l) \/ VerifyFails(l)
      PROVE  AgreeInv'
  <2>1. /\ UNCHANGED <<server, log, page, offer>>
        /\ \A m \in Ledgers : status'[m] \in {status[m], "opening", "diverged"}
    BY <1>0, <1>6 DEF Bind, BindAdopted, Connect, Open, VerifyFails, TypeOK
  <2>2. Roles'
    BY <1>0, <1>6 DEF Bind, BindAdopted, Connect, Open, VerifyFails, TypeOK, Roles
  <2> QED
    BY <2>1, <2>2, QuietStep
<1>7. ASSUME NEW l \in Ledgers, Verify(l)
      PROVE  AgreeInv'
  <2>1. /\ UNCHANGED <<server, log, bound, page, offer, writer>>
        /\ status[l] = "opening"
        /\ \A m \in Ledgers : status'[m] = IF m = l THEN "following" ELSE status[m]
    BY <1>0, <1>7 DEF Verify, Follow, TypeOK
  <2>2. Roles'
    BY <1>0, <2>1 DEF Roles
  <2>3. Begins(log[l], server)
    BY <1>0, <1>7, HeadTells DEF Verify
  <2> QED
    BY <2>1, <2>2, <2>3, QuietStep
<1>8. ASSUME NEW l \in Ledgers, Unbind(l) \/ Close(l)
      PROVE  AgreeInv'
  <2>1. /\ UNCHANGED <<server, log, offer, writer>>
        /\ \A m \in Ledgers : status'[m] = IF m = l THEN "closed" ELSE status[m]
        /\ \A m \in Ledgers, t \in Ticks :
             page'[m][t] = IF m = l THEN NoPage ELSE page[m][t]
        /\ \A m \in Ledgers : bound'[m] = bound[m] \/ (m = l /\ ~bound'[m])
    BY <1>0, <1>8 DEF Unbind, Close, TypeOK
  <2>2. Roles'
    BY <1>0, <2>1 DEF Roles
  <2> QED
    BY <2>1, <2>2, QuietStep
<1>9. ASSUME NEW l \in Ledgers, Reset(l)
      PROVE  AgreeInv'
  <2>1. /\ UNCHANGED <<server, bound, page, offer, writer>>
        /\ status[l] = "diverged"
        /\ \A m \in Ledgers : status'[m] = IF m = l THEN "opening" ELSE status[m]
        /\ \A m \in Ledgers : log'[m] = IF m = l THEN << >> ELSE log[m]
    BY <1>0, <1>9 DEF Reset, TypeOK
  <2>2. Begins(<< >>, server)
    BY EmptySeq DEF Begins
  <2>3. AllAgree'
    <3>1. ASSUME NEW u \in Logs'
          PROVE  \E s \in Logs : Begins(u, s)
      <4>1. CASE u \in Logs
        BY <4>1 DEF Begins
      <4>2. CASE u = << >>
        BY <1>0, <2>2, <4>2
      <4> QED
        BY <2>1, <4>1, <4>2 DEF Logs
    <3> QED
      BY <1>0, <3>1, LogsBegin
  <2>4. Roles' /\ PagesFit'
    BY <1>0, <2>1 DEF AgreeInv, Roles, PagesFit
  <2>5. FollowedBegins'
    BY <2>1 DEF AgreeInv, FollowedBegins
  <2> QED
    BY <2>3, <2>4, <2>5 DEF AgreeInv
<1>10. ASSUME NEW l \in Ledgers, NEW t \in Ticks, Fetch(l, t)
       PROVE  AgreeInv'
  <2>1. /\ Len(log[l]) \in Nat /\ Len(log[l]) < Len(server) /\ server \in Seq(Event)
        /\ NumberedLog(server) /\ authored \in 0..MaxEvents
    BY <1>0, <1>10, LenProperties DEF Fetch, TypeInv, TypeOK, Numbered
  <2>2. DOMAIN server = 1..Len(server)
    BY <2>1, LenProperties
  <2> DEFINE d == EventsAfter(Len(log[l]))
  <2>3. \A i \in DOMAIN d : /\ Len(log[l]) + i \in 1..Len(server)
                            /\ d[i] = Sent(Len(log[l]) + i)
    BY <2>1, PageFacts
  <2>4. /\ page' = [page EXCEPT ![l][t] = d] /\ status[l] = "following"
        /\ UNCHANGED <<server, log, bound, status, writer, offer>>
    BY <1>10 DEF Fetch
  <2> HIDE DEF d
  <2>5. \A i \in DOMAIN d : d[i].seq \in DOMAIN server /\ d[i].hash = server[d[i].seq]
    BY <2>2, <2>3 DEF Sent
  <2> QED
    BY <2>4, <2>5, PageAgrees
<1>11. ASSUME NEW l \in Ledgers, NEW t \in Ticks, Distort(l, t)
       PROVE  AgreeInv'
  <2>1. PICK d \in Distorted(page[l][t]) : page' = [page EXCEPT ![l][t] = d]
    BY <1>11 DEF Distort
  <2>2. /\ page[l][t] # NoPage
        /\ UNCHANGED <<server, log, bound, status, writer, offer>>
    BY <1>11 DEF Distort
  <2>3. page[l][t] \in Seq(Item) /\ NumberedPage(page[l][t])
    BY DEF TypeInv, TypeOK, Numbered
  <2>4. \A i \in DOMAIN d : \E j \in DOMAIN page[l][t] : /\ d[i].seq = page[l][t][j].seq
                                                          /\ d[i].hash = page[l][t][j].hash
    BY <2>1, <2>3, DistortFacts
  <2>5. /\ status[l] # "closed"
        /\ \A j \in DOMAIN page[l][t] : /\ page[l][t][j].seq \in DOMAIN server
                                         /\ page[l][t][j].hash = server[page[l][t][j].seq]
    BY <2>2 DEF AgreeInv, PagesFit
  <2>6. \A i \in DOMAIN d : d[i].seq \in DOMAIN server /\ d[i].hash = server[d[i].seq]
    BY <2>4, <2>5
  <2> QED
    BY <2>1, <2>2, <2>5, <2>6, PageAgrees
<1>12. ASSUME NEW l \in Ledgers, NEW t \in Ticks, Apply(l, t)
       PROVE  AgreeInv'
  BY <1>12, ApplyAgrees
<1>13. ASSUME NEW l \in Ledgers, NEW t \in Ticks, ApplyGap(l, t) \/ ApplyMismatch(l, t)
       PROVE  AgreeInv'
  <2>1. /\ UNCHANGED <<server, log, bound, offer, writer>>
        /\ page' = [page EXCEPT ![l][t] = NoPage]
        /\ status[l] = "following"
        /\ \A m \in Ledgers : status'[m] = status[m] \/ (m = l /\ status'[m] = "diverged")
    BY <1>0, <1>13 DEF ApplyGap, ApplyMismatch, IsGap, Refused, Consume, StopSyncing, TypeOK
  <2>2. Roles'
    BY <1>0, <2>1 DEF Roles
  <2>3. /\ \A m \in Ledgers, k \in Ticks : page'[m][k] \in {page[m][k], NoPage}
        /\ \A m \in Ledgers : status'[m] = "closed" => status[m] = "closed"
    BY <1>0, <2>1 DEF TypeOK
  <2> QED
    BY <2>1, <2>2, <2>3, QuietStep
<1>14. CASE UNCHANGED vars
  <2>1. UNCHANGED <<server, log, bound, status, page, offer, writer>>
    BY <1>14 DEF vars
  <2>2. Roles'
    BY <1>0, <2>1 DEF Roles
  <2> QED
    BY <2>1, <2>2, QuietStep
<1> QED
  BY <1>1, <1>2, <1>3, <1>4, <1>5, <1>6, <1>7, <1>8, <1>9, <1>10, <1>11, <1>12, <1>13, <1>14
  DEF Next

-----------------------------------------------------------------------------

\* The types of the files, the server, the wire and the driver's state: no log
\* is ever longer than the events that were authored.
THEOREM TypeCorrect == Spec => []TypeOK
<1>1. Init => TypeInv
  BY TypeInit
<1>2. TypeInv /\ [Next]_vars => TypeInv'
  BY TypeStep
<1>3. TypeInv => TypeOK
  BY DEF TypeInv
<1> QED
  BY <1>1, <1>2, <1>3, PTL DEF Spec

\* While the server is restored only when every file is closed, two files, or
\* a file and the server, that hold one event at one number hold the same
\* events before it: that verify_prefix and bind_adopted may compare one event.
THEOREM ReplicaLogsAgree ==
  ASSUME ~RestoreAnyTime
  PROVE  Spec => []LogsAgree
<1>1. Init => TypeInv /\ AgreeInv
  BY TypeInit, AgreeInit
<1>2. TypeInv /\ AgreeInv /\ [Next]_vars => TypeInv' /\ AgreeInv'
  BY TypeStep, AgreeStep
<1>3. TypeInv /\ AgreeInv => LogsAgree
  BY DEF AgreeInv, AllAgree, Logs, LogsAgree
<1> QED
  BY <1>1, <1>2, <1>3, PTL DEF Spec

\* Under the same restriction a followed file is a prefix of the server's log,
\* whatever pages append_mirrored is given and however requests overlap.
THEOREM ReplicaFollowsPrefix ==
  ASSUME ~RestoreAnyTime
  PROVE  Spec => []FollowedIsPrefix
<1>1. Init => TypeInv /\ AgreeInv
  BY TypeInit, AgreeInit
<1>2. TypeInv /\ AgreeInv /\ [Next]_vars => TypeInv' /\ AgreeInv'
  BY TypeStep, AgreeStep
<1>3. TypeInv /\ AgreeInv => FollowedIsPrefix
  BY BeginsIsPrefix DEF AgreeInv, FollowedBegins, FollowedIsPrefix, TypeInv, TypeOK
<1> QED
  BY <1>1, <1>2, <1>3, PTL DEF Spec

\* The step of NoFalseAlarm.
Alarm ==
  \A l \in Ledgers :
    status[l] # "diverged" /\ status'[l] = "diverged" =>
      \/ ~IsPrefix(log[l], server)
      \/ \E t \in Ticks : \E i \in DOMAIN page[l][t] : ~Genuine(page[l][t], i)

LEMMA AlarmStep ==
  ASSUME TypeInv, [Next]_vars
  PROVE  Alarm
<1> SUFFICES ASSUME NEW l \in Ledgers, status[l] # "diverged", status'[l] = "diverged"
             PROVE  \/ ~IsPrefix(log[l], server)
                    \/ \E t \in Ticks : \E i \in DOMAIN page[l][t] : ~Genuine(page[l][t], i)
  BY DEF Alarm
<1>0. TypeOK
  BY DEF TypeInv
<1>1. \/ \E m \in Ledgers : VerifyFails(m)
      \/ \E m \in Ledgers, t \in Ticks : ApplyMismatch(m, t)
  <2>1. ASSUME UNCHANGED status PROVE FALSE
    BY <2>1
  <2>2. ASSUME NEW m \in Ledgers, NEW s \in {"closed", "opening", "following"},
               status' = [status EXCEPT ![m] = s]
        PROVE  FALSE
    BY <1>0, <2>2 DEF TypeOK
  <2>3. CASE UNCHANGED vars \/ ServerAppend \/ \E n \in 0..(Len(server) - 1) : ServerRestore(n)
    BY <2>1, <2>3 DEF vars, ServerAppend, ServerRestore
  <2>4. ASSUME NEW m \in Ledgers,
               \/ Attach(m) \/ Detach(m) \/ LocalAppend(m) \/ Offer(m) \/ Adopt(m)
               \/ RefuseOffer(m) \/ RefuseAdopted(m) \/ LoseAdoption(m)
        PROVE  FALSE
    BY <2>1, <2>4 DEF Attach, Detach, LocalAppend, Offer, Adopt, Adopted, RefuseOffer,
                      RefuseAdopted, LoseAdoption
  <2>5. ASSUME NEW m \in Ledgers,
               \/ Bind(m) \/ BindAdopted(m) \/ Unbind(m) \/ Open(m) \/ Verify(m)
               \/ Close(m) \/ Reset(m)
        PROVE  FALSE
    BY <2>2, <2>5 DEF Bind, BindAdopted, Connect, Unbind, Open, Verify, Follow, Close, Reset
  <2>6. ASSUME NEW m \in Ledgers, NEW t \in Ticks,
               Fetch(m, t) \/ Distort(m, t) \/ Apply(m, t) \/ ApplyGap(m, t)
        PROVE  FALSE
    BY <2>1, <2>6 DEF Fetch, Distort, Apply, Mirror, ApplyGap
  <2> QED
    BY <2>3, <2>4, <2>5, <2>6 DEF Next
<1>2. ASSUME NEW m \in Ledgers, VerifyFails(m)
      PROVE  ~IsPrefix(log[l], server)
  <2>1. m = l /\ ~SamePrefix(l)
    BY <1>0, <1>2 DEF VerifyFails, TypeOK
  <2>2. log[l] \in Seq(Event) /\ server \in Seq(Event)
    BY <1>0 DEF TypeOK
  <2>3. ASSUME Begins(log[l], server) PROVE SamePrefix(l)
    <3>1. /\ Len(log[l]) \in Nat /\ DOMAIN log[l] = 1..Len(log[l])
          /\ Len(server) \in Nat /\ DOMAIN server = 1..Len(server)
      BY <2>2, LenProperties
    <3>2. log[l] # << >> => Len(log[l]) # 0
      BY <2>2, EmptySeq
    <3> QED
      BY <2>3, <3>1, <3>2 DEF SamePrefix, Begins
  <2> QED
    BY <2>1, <2>2, <2>3, BeginsIsPrefix
<1>3. ASSUME NEW m \in Ledgers, NEW t \in Ticks, ApplyMismatch(m, t)
      PROVE  \E k \in Ticks : \E i \in DOMAIN page[l][k] : ~Genuine(page[l][k], i)
  BY <1>0, <1>3 DEF ApplyMismatch, StopSyncing, TypeOK
<1> QED
  BY <1>1, <1>2, <1>3

\* A file is found to have diverged, and its reset offered, only when it is no
\* prefix of the server's log or holds a page that was altered on the wire:
\* a page that does not continue the log is asked for again.
THEOREM ReplicaRaisesNoFalseAlarm == Spec => NoFalseAlarm
<1>1. Init => TypeInv
  BY TypeInit
<1>2. TypeInv /\ [Next]_vars => TypeInv' /\ Alarm
  BY TypeStep, AlarmStep
<1> QED
  BY <1>1, <1>2, PTL DEF Spec, NoFalseAlarm, Alarm

=============================================================================
