--------------------------- MODULE Journal_proofs ----------------------------
(***************************************************************************)
(* Proofs about the journal, for any finite chart of accounts, any years   *)
(* and any bounds.                                                         *)
(***************************************************************************)
EXTENDS Journal, SumLemmas, SequenceTheorems, FiniteSetTheorems, TLAPS

(***************************************************************************)
(* The shape of the state.  What an amount is takes the lemmas on sums;    *)
(* until they are needed an amount is whatever it is.                      *)
(***************************************************************************)
References == Refs \cup YearRefs \cup {NoRef}

LineShape(x) == x \in [account : Accounts, amount : {x.amount}]

LinesShape(s) == \A i \in DOMAIN s : LineShape(s[i])

EntryShape(r) ==
  /\ r \in [date : Years, source : {"manual", "closing"}, ref : References,
            lines : {r.lines}, void : BOOLEAN]
  /\ LinesShape(r.lines)

\* A tuple, of whatever it holds.
Tuple(s) == s \in Seq({s[i] : i \in DOMAIN s})

Shape ==
  /\ status \in [Accounts -> {"unborn", "active", "inactive", "deleted"}]
  /\ closed \in SUBSET Years
  /\ Tuple(entries)
  /\ \A e \in Ids : EntryShape(entries[e])

\* A year's references belong to its own year end, and to nothing else.
Named(r) ==
  /\ \A y \in Years : r.ref \in {CloseRef(y), AllocationRef(y)}
                        => r.date = y /\ r.source = "closing"
  /\ r.source = "closing" => r.ref \in {CloseRef(r.date), AllocationRef(r.date)}

AllNamed == \A e \in Ids : Named(entries[e])

IInv ==
  /\ Shape
  /\ AllNamed
  /\ RefsUnique
  /\ ClosedHasItsEntry
  /\ LinesHaveAccounts

-----------------------------------------------------------------------------

\* No two year ends share a reference.
LEMMA RefsDiffer ==
  ASSUME NEW y \in Years, NEW z \in Years
  PROVE  /\ CloseRef(y) = CloseRef(z) => y = z
         /\ AllocationRef(y) = AllocationRef(z) => y = z
         /\ CloseRef(y) # AllocationRef(z)
         /\ CloseRef(y) \in YearRefs /\ AllocationRef(y) \in YearRefs
         /\ CloseRef(y) # NoRef /\ AllocationRef(y) # NoRef
<1>1. CloseRef(y) \in YearRefs /\ AllocationRef(y) \in YearRefs
  BY DEF YearRefs
<1>2. NoRef \notin YearRefs
  BY JournalAssumption
<1> QED
  BY <1>1, <1>2 DEF CloseRef, AllocationRef

\* Concatenating two tuples.
LEMMA TupleConcat ==
  ASSUME NEW s, NEW t, Tuple(s), Tuple(t)
  PROVE  /\ Tuple(s \o t)
         /\ Len(s) \in Nat /\ Len(t) \in Nat
         /\ DOMAIN s = 1..Len(s) /\ DOMAIN t = 1..Len(t)
         /\ DOMAIN (s \o t) = 1..(Len(s) + Len(t))
         /\ \A i \in 1..(Len(s) + Len(t)) :
              (s \o t)[i] = IF i <= Len(s) THEN s[i] ELSE t[i - Len(s)]
<1> DEFINE S == {s[i] : i \in DOMAIN s} \cup {t[i] : i \in DOMAIN t}
<1>1. s \in Seq(S) /\ t \in Seq(S)
  BY SeqMonotonic DEF Tuple
<1>2. /\ s \o t \in Seq(S)
      /\ Len(s \o t) = Len(s) + Len(t)
      /\ \A i \in 1..(Len(s) + Len(t)) :
           (s \o t)[i] = IF i <= Len(s) THEN s[i] ELSE t[i - Len(s)]
  BY <1>1, ConcatProperties
<1>3. /\ Len(s) \in Nat /\ Len(t) \in Nat
      /\ DOMAIN s = 1..Len(s) /\ DOMAIN t = 1..Len(t)
      /\ DOMAIN (s \o t) = 1..(Len(s) + Len(t))
      /\ s \o t \in [1..Len(s \o t) -> S]
  BY <1>1, <1>2, LenProperties
<1>4. Tuple(s \o t)
  <2> DEFINE u == s \o t
  <2>0. Len(u) \in Nat /\ DOMAIN u = 1..Len(u) /\ u \in [1..Len(u) -> S]
    BY <1>2, <1>3
  <2> HIDE DEF u
  <2>1. u \in [1..Len(u) -> {u[i] : i \in DOMAIN u}]
    BY <2>0
  <2>2. u \in Seq({u[i] : i \in DOMAIN u})
    BY <2>0, <2>1, SeqDef
  <2> QED
    BY <2>2 DEF Tuple, u
<1> QED
  BY <1>2, <1>3, <1>4

\* The empty tuple, a single, a pair.
LEMMA Tuples ==
  /\ Tuple(<< >>)
  /\ \A x : Tuple(<<x>>) /\ Len(<<x>>) = 1
  /\ \A x, y : Tuple(<<x, y>>) /\ Len(<<x, y>>) = 2
  BY EmptySeq DEF Tuple

-----------------------------------------------------------------------------

\* An empty journal satisfies the invariant.
LEMMA InitInv == Init => IInv
<1> SUFFICES ASSUME Init PROVE IInv
  OBVIOUS
<1>1. DOMAIN entries = {}
  BY EmptySeq, LenProperties DEF Init
<1>2. Shape
  BY <1>1, Tuples, JournalAssumption DEF Init, Shape, Ids
<1> QED
  BY <1>1, <1>2 DEF IInv, AllNamed, RefsUnique, ClosedHasItsEntry, LinesHaveAccounts,
                    Ids, Names, Init

(***************************************************************************)
(* What voiding and unvoiding leave of an entry.                           *)
(***************************************************************************)
LEMMA VoidShape ==
  ASSUME NEW r, EntryShape(r), NEW v \in BOOLEAN
  PROVE  LET q == [r EXCEPT !.void = v]
         IN /\ EntryShape(q)
            /\ q.void = v
            /\ q.date = r.date /\ q.source = r.source
            /\ q.ref = r.ref /\ q.lines = r.lines
BY SMT DEF EntryShape

\* What moving a line to another account leaves of an entry.
LEMMA MoveShape ==
  ASSUME NEW r, EntryShape(r), NEW i \in DOMAIN r.lines, NEW a \in Accounts
  PROVE  LET q == [r EXCEPT !.lines[i].account = a]
         IN /\ EntryShape(q)
            /\ q.void = r.void
            /\ q.date = r.date /\ q.source = r.source /\ q.ref = r.ref
            /\ DOMAIN q.lines = DOMAIN r.lines
            /\ \A j \in DOMAIN r.lines :
                 q.lines[j].account = IF j = i THEN a ELSE r.lines[j].account
BY SMT DEF EntryShape, LinesShape, LineShape

-----------------------------------------------------------------------------

\* A closed year's live closing entry.
HasItsEntry(y) ==
  \E e \in Ids : /\ LiveWith(CloseRef(y)) = {e}
                 /\ entries[e].date = y
                 /\ entries[e].source = "closing"

(***************************************************************************)
(* The commands that change accounts.                                      *)
(***************************************************************************)
LEMMA AccountStep ==
  ASSUME IInv, UNCHANGED <<entries, closed>>,
         NEW a \in Accounts, NEW s \in {"unborn", "active", "inactive", "deleted"},
         status' = [status EXCEPT ![a] = s],
         s \in {"active", "inactive"} \/ ~Names(Ids, a)
  PROVE  IInv'
<1>1. Shape'
  BY DEF IInv, Shape, Ids
<1>2. AllNamed' /\ RefsUnique' /\ ClosedHasItsEntry'
  BY DEF IInv, AllNamed, RefsUnique, ClosedHasItsEntry, Ids, Live, LiveWith
<1>3. LinesHaveAccounts'
  BY DEF IInv, Shape, LinesHaveAccounts, Names, Ids
<1> QED
  BY <1>1, <1>2, <1>3 DEF IInv

(***************************************************************************)
(* The commands that post.                                                 *)
(***************************************************************************)
Postable(r) ==
  /\ EntryShape(r)
  /\ Named(r)
  /\ ~r.void
  /\ RefFree(r.ref)
  /\ AccountsActive(r.lines)

\* Posting keeps every part of the invariant for the years already closed, and
\* appends exactly the entries it was given.
LEMMA PostStep ==
  ASSUME IInv, NEW es, Tuple(es), Post(es), UNCHANGED status, closed' \in SUBSET Years,
         \A i \in DOMAIN es : Postable(es[i]),
         \A i, j \in DOMAIN es : es[i].ref = es[j].ref => i = j
  PROVE  /\ Shape' /\ AllNamed' /\ RefsUnique' /\ LinesHaveAccounts'
         /\ \A y \in closed : HasItsEntry(y)'
         /\ \A e \in Ids : e \in Ids' /\ entries'[e] = entries[e]
         /\ \A i \in DOMAIN es : /\ Len(entries) + i \in Ids' \ Ids
                                 /\ entries'[Len(entries) + i] = es[i]
         /\ \A e \in Ids' \ Ids : \E i \in DOMAIN es : e = Len(entries) + i
<1> DEFINE n == Len(entries)
<1>1. Tuple(entries)
  BY DEF IInv, Shape
<1>2. /\ n \in Nat /\ Len(es) \in Nat
      /\ DOMAIN entries = 1..n /\ DOMAIN es = 1..Len(es)
      /\ DOMAIN entries' = 1..(n + Len(es))
      /\ Tuple(entries')
      /\ \A e \in 1..(n + Len(es)) :
           entries'[e] = IF e <= n THEN entries[e] ELSE es[e - n]
  BY <1>1, TupleConcat DEF Post
<1>3. \A e \in Ids : e \in Ids' /\ entries'[e] = entries[e]
  BY <1>2 DEF Ids
<1>4. \A e \in Ids' \ Ids : e - n \in DOMAIN es /\ entries'[e] = es[e - n]
  BY <1>2 DEF Ids
<1>5. \A i \in DOMAIN es : n + i \in Ids' \ Ids /\ entries'[n + i] = es[i]
  <2> SUFFICES ASSUME NEW i \in DOMAIN es
               PROVE  n + i \in Ids' \ Ids /\ entries'[n + i] = es[i]
    OBVIOUS
  <2>1. i \in 1..Len(es) /\ n + i \in 1..(n + Len(es)) /\ ~(n + i <= n) /\ (n + i) - n = i
    BY <1>2
  <2> QED
    BY <1>2, <2>1 DEF Ids
<1>6. \A e \in Ids' \ Ids : \E i \in DOMAIN es : e = n + i
  <2> SUFFICES ASSUME NEW e \in Ids' \ Ids
               PROVE  \E i \in DOMAIN es : e = n + i
    OBVIOUS
  <2>1. e \in Int /\ e = n + (e - n)
    BY <1>2 DEF Ids
  <2> QED
    BY <1>4, <2>1
<1> HIDE DEF n
<1>7. Shape'
  <2>1. \A e \in Ids' : EntryShape(entries'[e])
    BY <1>3, <1>4 DEF IInv, Shape, Postable
  <2> QED
    BY <1>2, <2>1 DEF IInv, Shape, Ids
<1>8. AllNamed'
  BY <1>3, <1>4 DEF IInv, AllNamed, Postable
<1>9. RefsUnique'
  <2> SUFFICES ASSUME NEW d \in Ids', NEW e \in Ids', ~entries'[d].void, ~entries'[e].void,
                      entries'[d].ref = entries'[e].ref, d # e
               PROVE  entries'[d].ref = NoRef
    BY DEF RefsUnique, Live, Ids
  <2>1. CASE d \in Ids /\ e \in Ids
    BY <1>3, <2>1 DEF IInv, RefsUnique, Live
  <2>2. CASE d \in Ids /\ e \notin Ids
    BY <1>3, <1>4, <2>2 DEF Postable, RefFree, LiveWith, Live
  <2>3. CASE d \notin Ids /\ e \in Ids
    BY <1>3, <1>4, <2>3 DEF Postable, RefFree, LiveWith, Live
  <2>4. CASE d \notin Ids /\ e \notin Ids
    <3>1. d - n = e - n
      BY <1>4, <2>4
    <3>2. d \in Int /\ e \in Int /\ n \in Int
      BY <1>2 DEF Ids, n
    <3> QED
      BY <3>1, <3>2
  <2> QED
    BY <2>1, <2>2, <2>3, <2>4
<1>10. LinesHaveAccounts'
  <2> SUFFICES ASSUME NEW a \in Accounts, NEW e \in Ids', NEW i \in DOMAIN entries'[e].lines,
                      entries'[e].lines[i].account = a
               PROVE  status[a] \in {"active", "inactive"}
    BY DEF LinesHaveAccounts, Names, Ids
  <2>1. CASE e \in Ids
    BY <1>3, <2>1 DEF IInv, LinesHaveAccounts, Names
  <2>2. CASE e \notin Ids
    BY <1>4, <2>2 DEF Postable, AccountsActive
  <2> QED
    BY <2>1, <2>2
<1>11. ASSUME NEW y \in closed
       PROVE  HasItsEntry(y)'
  <2>1. y \in Years
    BY DEF IInv, Shape
  <2>2. PICK c \in Ids : /\ LiveWith(CloseRef(y)) = {c}
                         /\ entries[c].date = y /\ entries[c].source = "closing"
    BY DEF IInv, ClosedHasItsEntry
  <2>3. \A e \in Ids' \ Ids : entries'[e].ref # CloseRef(y)
    BY <1>4, <2>1, <2>2, RefsDiffer DEF Postable, RefFree
  <2>4. LiveWith(CloseRef(y))' = {c}
    BY <1>3, <2>2, <2>3 DEF LiveWith, Live, CloseRef
  <2> QED
    BY <1>3, <2>2, <2>4 DEF HasItsEntry
<1> QED
  BY <1>3, <1>5, <1>6, <1>7, <1>8, <1>9, <1>10, <1>11 DEF n

(***************************************************************************)
(* The commands that void and unvoid.                                      *)
(***************************************************************************)
\* Voiding changes the flag of the entries it names, and nothing else.
LEMMA VoidFields ==
  ASSUME IInv, NEW E, NEW v \in BOOLEAN, SetVoid(E, v)
  PROVE  /\ Ids' = Ids
         /\ \A e \in Ids :
              /\ EntryShape(entries'[e])
              /\ entries'[e].void = IF e \in E THEN v ELSE entries[e].void
              /\ entries'[e].date = entries[e].date
              /\ entries'[e].source = entries[e].source
              /\ entries'[e].ref = entries[e].ref
              /\ entries'[e].lines = entries[e].lines
         /\ Tuple(entries')
<1>1. Ids' = Ids
  BY DEF SetVoid, Ids
<1>2. ASSUME NEW e \in Ids
      PROVE  /\ EntryShape(entries'[e])
             /\ entries'[e].void = IF e \in E THEN v ELSE entries[e].void
             /\ entries'[e].date = entries[e].date
             /\ entries'[e].source = entries[e].source
             /\ entries'[e].ref = entries[e].ref
             /\ entries'[e].lines = entries[e].lines
  <2>1. EntryShape(entries[e])
    BY DEF IInv, Shape
  <2>2. CASE e \in E
    <3>1. entries'[e] = [entries[e] EXCEPT !.void = v]
      BY <2>2 DEF SetVoid
    <3> QED
      BY <2>1, <2>2, <3>1, VoidShape
  <2>3. CASE e \notin E
    BY <2>1, <2>3 DEF SetVoid
  <2> QED
    BY <2>2, <2>3
<1>3. Tuple(entries')
  <2>1. Tuple(entries)
    BY DEF IInv, Shape
  <2>2. Len(entries) \in Nat /\ Ids = 1..Len(entries)
    BY <2>1, LenProperties DEF Tuple, Ids
  <2>3. entries' \in [1..Len(entries) -> {entries'[e] : e \in DOMAIN entries'}]
    BY <2>2 DEF SetVoid, Ids
  <2> QED
    BY <2>2, <2>3, SeqDef DEF Tuple
<1> QED
  BY <1>1, <1>2, <1>3

\* Voiding keeps the invariant if it spares the closing entries of the years
\* that stay closed; unvoiding does if the reference is free.
LEMMA VoidStep ==
  ASSUME IInv, NEW E \in SUBSET Ids, NEW v \in BOOLEAN, SetVoid(E, v),
         UNCHANGED status, closed' \in SUBSET closed,
         v \/ \E e \in E : E = {e} /\ RefFree(entries[e].ref),
         v => \A y \in closed' : \A e \in E : entries[e].ref # CloseRef(y)
  PROVE  IInv'
<1> USE VoidFields
<1>1. Shape'
  BY DEF IInv, Shape, Ids
<1>2. AllNamed'
  BY DEF IInv, AllNamed, Named
<1>3. RefsUnique'
  <2> SUFFICES ASSUME NEW d \in Ids, NEW e \in Ids, ~entries'[d].void, ~entries'[e].void,
                      entries[d].ref = entries[e].ref, d # e
               PROVE  entries[d].ref = NoRef
    BY DEF RefsUnique, Live
  <2>1. CASE v
    BY <2>1 DEF IInv, RefsUnique, Live
  <2>2. CASE ~v
    <3>1. PICK u \in E : E = {u} /\ RefFree(entries[u].ref)
      BY <2>2
    <3> QED
      BY <3>1 DEF IInv, RefsUnique, RefFree, LiveWith, Live
  <2> QED
    BY <2>1, <2>2
<1>4. ClosedHasItsEntry'
  <2> SUFFICES ASSUME NEW y \in closed'
               PROVE  HasItsEntry(y)'
    BY DEF ClosedHasItsEntry, HasItsEntry
  <2>1. y \in Years /\ y \in closed
    BY DEF IInv, Shape
  <2>2. PICK c \in Ids : /\ LiveWith(CloseRef(y)) = {c}
                         /\ entries[c].date = y /\ entries[c].source = "closing"
    BY <2>1 DEF IInv, ClosedHasItsEntry
  <2>3. \A e \in E : entries[e].ref # CloseRef(y)
    <3>1. CASE v
      BY <3>1
    <3>2. CASE ~v
      BY <2>1, <2>2, <3>2, RefsDiffer DEF RefFree
    <3> QED
      BY <3>1, <3>2
  <2>4. LiveWith(CloseRef(y))' = {c}
    BY <2>2, <2>3 DEF LiveWith, Live, CloseRef
  <2> QED
    BY <2>2, <2>4 DEF HasItsEntry
<1>5. LinesHaveAccounts'
  BY DEF IInv, LinesHaveAccounts, Names
<1> QED
  BY <1>1, <1>2, <1>3, <1>4, <1>5 DEF IInv

(***************************************************************************)
(* Moving a line to another account.                                       *)
(***************************************************************************)
LEMMA ReassignStep ==
  ASSUME IInv, NEW e \in Ids, NEW i \in DOMAIN entries[e].lines, NEW a \in Accounts,
         ReassignLine(e, i, a)
  PROVE  IInv'
<1>1. /\ UNCHANGED <<status, closed>>
      /\ status[a] = "active"
      /\ entries' = [entries EXCEPT ![e] = [entries[e] EXCEPT !.lines[i].account = a]]
  BY DEF ReassignLine
<1>2. Ids' = Ids /\ \A d \in Ids : d # e => entries'[d] = entries[d]
  BY <1>1 DEF Ids
<1>3. entries'[e] = [entries[e] EXCEPT !.lines[i].account = a]
  BY <1>1 DEF Ids
<1>4. EntryShape(entries[e])
  BY DEF IInv, Shape
<1>5. /\ EntryShape(entries'[e])
      /\ entries'[e].void = entries[e].void
      /\ entries'[e].date = entries[e].date
      /\ entries'[e].source = entries[e].source
      /\ entries'[e].ref = entries[e].ref
      /\ DOMAIN entries'[e].lines = DOMAIN entries[e].lines
      /\ \A j \in DOMAIN entries[e].lines :
           entries'[e].lines[j].account = IF j = i THEN a ELSE entries[e].lines[j].account
  BY <1>3, <1>4, MoveShape
<1>6. Tuple(entries')
  <2>1. Tuple(entries)
    BY DEF IInv, Shape
  <2>2. Len(entries) \in Nat /\ Ids = 1..Len(entries)
    BY <2>1, LenProperties DEF Tuple, Ids
  <2>3. entries' \in [1..Len(entries) -> {entries'[d] : d \in DOMAIN entries'}]
    BY <1>1, <2>2 DEF Ids
  <2> QED
    BY <2>2, <2>3, SeqDef DEF Tuple
<1>7. Shape'
  <2>1. \A d \in Ids : EntryShape(entries'[d])
    BY <1>2, <1>5 DEF IInv, Shape
  <2> QED
    BY <1>1, <1>2, <1>6, <2>1 DEF IInv, Shape
<1>8. \A d \in Ids : /\ entries'[d].void = entries[d].void
                     /\ entries'[d].date = entries[d].date
                     /\ entries'[d].source = entries[d].source
                     /\ entries'[d].ref = entries[d].ref
  BY <1>2, <1>5
<1>9. AllNamed' /\ RefsUnique'
  BY <1>2, <1>8 DEF IInv, AllNamed, Named, RefsUnique, Live
<1>10. ClosedHasItsEntry'
  <2>1. ASSUME NEW y \in closed
        PROVE  LiveWith(CloseRef(y))' = LiveWith(CloseRef(y))
    BY <1>2, <1>8 DEF LiveWith, Live, CloseRef
  <2> QED
    BY <1>1, <1>2, <1>8, <2>1 DEF IInv, ClosedHasItsEntry
<1>11. LinesHaveAccounts'
  <2> SUFFICES ASSUME NEW b \in Accounts, NEW d \in Ids, NEW j \in DOMAIN entries'[d].lines,
                      entries'[d].lines[j].account = b
               PROVE  status[b] \in {"active", "inactive"}
    BY <1>1, <1>2 DEF LinesHaveAccounts, Names
  <2>1. CASE d = e
    BY <1>1, <1>5, <2>1 DEF IInv, LinesHaveAccounts, Names
  <2>2. CASE d # e
    BY <1>2, <2>2 DEF IInv, LinesHaveAccounts, Names
  <2> QED
    BY <2>1, <2>2
<1> QED
  BY <1>7, <1>9, <1>10, <1>11 DEF IInv

(***************************************************************************)
(* The entries a year end posts.                                           *)
(***************************************************************************)
\* A finite set as a sequence of its elements.
LEMMA SetAsSeq ==
  ASSUME NEW S, IsFiniteSet(S)
  PROVE  SetToSeq(S) \in Seq(S)
<1>1. Cardinality(S) \in Nat /\ ExistsBijection(1..Cardinality(S), S)
  BY FS_CardinalityType
<1>2. PICK f \in [1..Cardinality(S) -> S] : IsInjective(f)
  BY <1>1 DEF ExistsBijection, Bijection, Injection
<1>3. SetToSeq(S) \in [1..Cardinality(S) -> S]
  BY <1>2 DEF SetToSeq
<1> QED
  BY <1>1, <1>3, SeqDef

\* The sweep's lines name accounts.
LEMMA SweepShape ==
  ASSUME NEW y
  PROVE  /\ Tuple(SweepLines(y))
         /\ LinesShape(SweepLines(y))
<1> DEFINE f == [a \in Swept(y) |-> [account |-> a, amount |-> -Balance(a, y)]]
           S == {[account |-> a, amount |-> -Balance(a, y)] : a \in Swept(y)}
<1>1. IsFiniteSet(Swept(y))
  BY FS_Subset, JournalAssumption DEF Swept, Income
<1>2. f \in Surjection(Swept(y), S)
  BY DEF Surjection
<1>3. IsFiniteSet(S)
  BY <1>1, <1>2, FS_Surjection
<1>4. SweepLines(y) \in Seq(S)
  BY <1>3, SetAsSeq DEF SweepLines
<1>5. \A x \in S : LineShape(x)
  BY DEF LineShape, Swept, Income
<1> HIDE DEF S
<1>6. /\ SweepLines(y) \in [1..Len(SweepLines(y)) -> S]
      /\ DOMAIN SweepLines(y) = 1..Len(SweepLines(y))
      /\ Len(SweepLines(y)) \in Nat
  BY <1>4, LenProperties
<1> DEFINE s == SweepLines(y)
<1> HIDE DEF s
<1>7. s \in [1..Len(s) -> {s[i] : i \in DOMAIN s}] /\ Len(s) \in Nat
  BY <1>6 DEF s
<1> QED
  BY <1>5, <1>6, <1>7, SeqDef DEF LinesShape, Tuple, s

\* ... and so does the balancing line.
LEMMA ClosingShape ==
  ASSUME NEW y, NEW a \in Accounts
  PROVE  LinesShape(ClosingLines(y, a))
<1> DEFINE s == SweepLines(y)
           x == [account |-> a, amount |-> -NetIncome(y)]
<1>1. Tuple(s) /\ LinesShape(s)
  BY SweepShape
<1>2. LineShape(x)
  BY DEF LineShape
<1>3. LinesShape(Append(s, x))
  <2> HIDE DEF s, x
  <2> DEFINE S == {s[i] : i \in DOMAIN s} \cup {x}
  <2>1. s \in Seq(S) /\ x \in S
    BY <1>1, SeqMonotonic DEF Tuple
  <2>2. Append(s, x) \in Seq(S)
    BY <2>1, AppendProperties
  <2>3. \A z \in S : LineShape(z)
    BY <1>1, <1>2 DEF LinesShape
  <2> HIDE DEF S
  <2> QED
    BY <2>2, <2>3, LenProperties DEF LinesShape
<1> QED
  BY <1>1, <1>3 DEF ClosingLines

\* What passes the check on posting is an entry the invariant admits: a closing
\* entry, an allocation, an ordinary entry.
LEMMA ClosingPostable ==
  ASSUME NEW y \in Years, NEW a \in Accounts, Unfenced(ClosingEntry(y, a))
  PROVE  Postable(ClosingEntry(y, a))
<1> DEFINE r == ClosingEntry(y, a)
<1>1. /\ r = [date |-> y, source |-> "closing", ref |-> CloseRef(y), void |-> FALSE,
              lines |-> ClosingLines(y, a)]
  BY DEF ClosingEntry
<1>2. /\ r.date = y /\ r.source = "closing" /\ r.ref = CloseRef(y)
      /\ ~r.void /\ r.lines = ClosingLines(y, a)
  BY <1>1
<1>3. EntryShape(r)
  BY <1>1, <1>2, RefsDiffer, ClosingShape DEF EntryShape, References
<1>4. Named(r)
  BY <1>2, RefsDiffer DEF Named
<1> HIDE DEF r
<1> QED
  BY <1>2, <1>3, <1>4 DEF Postable, Unfenced, r

\* The allocation of a year, whatever the result.
LEMMA AllocationPostable ==
  ASSUME NEW y \in Years, NEW a \in Accounts, NEW net, Unfenced(AllocationEntry(y, a, net))
  PROVE  Postable(AllocationEntry(y, a, net))
<1> DEFINE r == AllocationEntry(y, a, net)
           lines == <<[account |-> a, amount |-> net], [account |-> Capital, amount |-> -net]>>
<1>1. r = [date |-> y, source |-> "closing", ref |-> AllocationRef(y), void |-> FALSE,
           lines |-> lines]
  BY DEF AllocationEntry
<1>2. LinesShape(lines)
  BY JournalAssumption DEF LinesShape, LineShape
<1> HIDE DEF lines
<1>3. /\ r.date = y /\ r.source = "closing" /\ r.ref = AllocationRef(y)
      /\ ~r.void /\ r.lines = lines
  BY <1>1
<1>4. EntryShape(r)
  BY <1>1, <1>2, <1>3, RefsDiffer DEF EntryShape, References
<1>5. Named(r)
  BY <1>3, RefsDiffer DEF Named
<1> HIDE DEF r
<1> QED
  BY <1>3, <1>4, <1>5 DEF Postable, Unfenced, r

\* An ordinary entry never takes a year end's reference.
LEMMA ManualPostable ==
  ASSUME NEW y \in Years, NEW p \in Postings, Unfenced(Manual(y, p))
  PROVE  Postable(Manual(y, p))
<1> DEFINE r == Manual(y, p)
           lines == <<[account |-> p[1], amount |-> 1], [account |-> p[2], amount |-> -1]>>
<1>1. r = [date |-> y, source |-> "manual", ref |-> p[3], void |-> FALSE, lines |-> lines]
  BY DEF Manual
<1>2. p[1] \in Accounts /\ p[2] \in Accounts /\ p[3] \in Refs \cup {NoRef}
  BY JournalAssumption
<1>3. LinesShape(lines)
  BY <1>2 DEF LinesShape, LineShape
<1> HIDE DEF lines
<1>4. /\ r.date = y /\ r.source = "manual" /\ r.ref = p[3]
      /\ ~r.void /\ r.lines = lines
  BY <1>1
<1>5. EntryShape(r)
  BY <1>1, <1>2, <1>3, <1>4 DEF EntryShape, References
<1>6. p[3] \notin YearRefs
  BY <1>2, JournalAssumption
<1>7. Named(r)
  BY <1>4, <1>6, RefsDiffer DEF Named
<1> HIDE DEF r
<1> QED
  BY <1>4, <1>5, <1>7 DEF Postable, Unfenced, r

(***************************************************************************)
(* Closing, allocating and reopening.                                      *)
(***************************************************************************)
\* Posting into a year that is not being closed keeps the invariant.
LEMMA PostOneStep ==
  ASSUME IInv, NEW r, Postable(r), Post(<<r>>), UNCHANGED <<status, closed>>
  PROVE  IInv'
<1> DEFINE es == <<r>>
<1>1. /\ Tuple(es) /\ Post(es)
      /\ \A i \in DOMAIN es : Postable(es[i])
      /\ \A i, j \in DOMAIN es : es[i].ref = es[j].ref => i = j
  BY Tuples
<1>2. closed' \in SUBSET Years
  BY DEF IInv, Shape
<1> HIDE DEF es
<1>3. /\ Shape' /\ AllNamed' /\ RefsUnique' /\ LinesHaveAccounts'
      /\ \A y \in closed : HasItsEntry(y)'
  BY <1>1, <1>2, PostStep
<1>4. ClosedHasItsEntry'
  BY <1>3 DEF ClosedHasItsEntry, HasItsEntry
<1> QED
  BY <1>3, <1>4 DEF IInv

\* The closing entry comes first; whatever is posted with it has another
\* reference.
LEMMA CloseStep ==
  ASSUME IInv, NEW y \in Years, NEW a \in Accounts, NEW es, Tuple(es),
         CloseWith(y, a, es),
         1 \in DOMAIN es, es[1] = ClosingEntry(y, a),
         \A i \in DOMAIN es : Postable(es[i]),
         \A i, j \in DOMAIN es : es[i].ref = es[j].ref => i = j
  PROVE  IInv'
<1>1. /\ Post(es) /\ UNCHANGED status
      /\ closed' = closed \cup {y}
      /\ LiveWith(CloseRef(y)) = {}
  BY DEF CloseWith
<1>2. closed' \in SUBSET Years
  BY <1>1 DEF IInv, Shape
<1>3. /\ Shape' /\ AllNamed' /\ RefsUnique' /\ LinesHaveAccounts'
      /\ \A z \in closed : HasItsEntry(z)'
      /\ \A e \in Ids : e \in Ids' /\ entries'[e] = entries[e]
      /\ \A i \in DOMAIN es : /\ Len(entries) + i \in Ids' \ Ids
                              /\ entries'[Len(entries) + i] = es[i]
      /\ \A e \in Ids' \ Ids : \E i \in DOMAIN es : e = Len(entries) + i
  BY <1>1, <1>2, PostStep
<1>4. HasItsEntry(y)'
  <2> DEFINE c == Len(entries) + 1
  <2>1. /\ c \in Ids' /\ entries'[c] = ClosingEntry(y, a)
    BY <1>3
  <2>2. /\ entries'[c].date = y /\ entries'[c].source = "closing"
        /\ entries'[c].ref = CloseRef(y) /\ ~entries'[c].void
    BY <2>1 DEF ClosingEntry
  <2>3. es[1].ref = CloseRef(y)
    BY DEF ClosingEntry
  <2>4. \A e \in Ids' : ~entries'[e].void /\ entries'[e].ref = CloseRef(y) => e = c
    BY <1>1, <1>3, <2>3 DEF LiveWith, Live
  <2> HIDE DEF c
  <2>5. LiveWith(CloseRef(y))' = {c}
    BY <2>1, <2>2, <2>4 DEF LiveWith, Live, CloseRef
  <2> QED
    BY <2>1, <2>2, <2>5 DEF HasItsEntry
<1>5. ClosedHasItsEntry'
  BY <1>1, <1>3, <1>4 DEF ClosedHasItsEntry, HasItsEntry
<1> QED
  BY <1>3, <1>5 DEF IInv

\* Reopening voids the live entries with the year's two references.
LEMMA ReopenStep ==
  ASSUME IInv, NEW y \in Years, ReopenBooks(y)
  PROVE  IInv'
<1> DEFINE E == LiveWith(AllocationRef(y)) \cup LiveWith(CloseRef(y))
<1>1. /\ SetVoid(E, TRUE) /\ closed' = closed \ {y} /\ UNCHANGED status
  BY DEF ReopenBooks, ReopenVoiding
<1>2. E \in SUBSET Ids
  BY DEF LiveWith
<1>3. \A z \in closed' : \A e \in E : entries[e].ref # CloseRef(z)
  <2> SUFFICES ASSUME NEW z \in closed', NEW e \in E
               PROVE  entries[e].ref # CloseRef(z)
    OBVIOUS
  <2>1. z \in Years /\ z # y
    BY <1>1 DEF IInv, Shape
  <2>2. entries[e].ref \in {CloseRef(y), AllocationRef(y)}
    BY DEF LiveWith
  <2> QED
    BY <2>1, <2>2, RefsDiffer
<1> HIDE DEF E
<1> QED
  BY <1>1, <1>2, <1>3, VoidStep

-----------------------------------------------------------------------------

\* Every command keeps the invariant.
LEMMA InvStep == IInv /\ [Next]_vars => IInv'
<1> SUFFICES ASSUME IInv, [Next]_vars PROVE IInv'
  OBVIOUS
<1>0. \A d \in closed : d \in Years
  BY DEF IInv, Shape
<1>1. ASSUME NEW a \in Accounts, CreateAccount(a)
      PROVE  IInv'
  BY <1>1, AccountStep DEF CreateAccount
<1>2. ASSUME NEW a \in Accounts, DeactivateAccount(a)
      PROVE  IInv'
  BY <1>2, AccountStep DEF DeactivateAccount
<1>3. ASSUME NEW a \in Accounts, ReactivateAccount(a)
      PROVE  IInv'
  BY <1>3, AccountStep DEF ReactivateAccount
<1>4. ASSUME NEW a \in Accounts, DeleteAccount(a)
      PROVE  IInv'
  BY <1>4, AccountStep DEF DeleteAccount, Delete
<1>5. ASSUME NEW y \in Years, NEW p \in Postings, PostEntry(y, p)
      PROVE  IInv'
  BY <1>5, ManualPostable, PostOneStep DEF PostEntry, MayPost
<1>6. ASSUME NEW e \in Ids, VoidEntry(e)
      PROVE  IInv'
  <2>1. /\ SetVoid({e}, TRUE) /\ UNCHANGED <<status, closed>>
        /\ ~(entries[e].source = "closing" /\ entries[e].date \in closed)
    BY <1>6 DEF VoidEntry, VoidAny
  <2>2. \A y \in closed' : \A d \in {e} : entries[d].ref # CloseRef(y)
    BY <1>0, <2>1 DEF IInv, AllNamed, Named
  <2> QED
    BY <2>1, <2>2, VoidStep
<1>7. ASSUME NEW e \in Ids, UnvoidEntry(e)
      PROVE  IInv'
  BY <1>7, VoidStep DEF UnvoidEntry, UnvoidAny
<1>8. ASSUME NEW e \in Ids, NEW i \in DOMAIN entries[e].lines, NEW a \in Accounts,
             ReassignLine(e, i, a)
      PROVE  IInv'
  BY <1>8, ReassignStep
<1>9. ASSUME NEW y \in Years, NEW a \in ClosedInto, CloseBooks(y, a)
      PROVE  IInv'
  <2>0. a \in Accounts
    BY JournalAssumption
  <2>1. CASE CloseWith(y, a, ToAccount(y, a))
    <3> DEFINE es == <<ClosingEntry(y, a)>>
    <3>1. CloseWith(y, a, es)
      BY <2>1 DEF ToAccount
    <3>2. Unfenced(es[1])
      BY <3>1 DEF CloseWith, MayPost
    <3>3. /\ Tuple(es) /\ 1 \in DOMAIN es /\ es[1] = ClosingEntry(y, a)
          /\ \A i, j \in DOMAIN es : es[i].ref = es[j].ref => i = j
          /\ \A i \in DOMAIN es : es[i] = ClosingEntry(y, a)
      BY Tuples
    <3>4. \A i \in DOMAIN es : Postable(es[i])
      BY <2>0, <3>2, <3>3, ClosingPostable
    <3> HIDE DEF es
    <3> QED
      BY <2>0, <3>1, <3>3, <3>4, CloseStep
  <2>2. CASE CloseWith(y, a, ToPartner(y, a)) /\ NetIncome(y) # 0
    <3> DEFINE alloc == AllocationEntry(y, a, NetIncome(y))
               es == <<ClosingEntry(y, a), alloc>>
    <3>1. CloseWith(y, a, es)
      BY <2>2 DEF ToPartner
    <3>2. /\ Tuple(es) /\ DOMAIN es = {1, 2}
          /\ es[1] = ClosingEntry(y, a) /\ es[2] = alloc
      BY Tuples
    <3> HIDE DEF es
    <3>3. Unfenced(ClosingEntry(y, a)) /\ Unfenced(alloc)
      BY <3>1, <3>2 DEF CloseWith, MayPost
    <3>4. Postable(ClosingEntry(y, a)) /\ Postable(alloc)
      BY <2>0, <3>3, ClosingPostable, AllocationPostable
    <3>5. ClosingEntry(y, a).ref # alloc.ref
      BY RefsDiffer DEF ClosingEntry, AllocationEntry
    <3> HIDE DEF alloc
    <3>6. \A i, j \in DOMAIN es : es[i].ref = es[j].ref => i = j
      BY <3>2, <3>5
    <3> QED
      BY <2>0, <3>1, <3>2, <3>4, <3>6, CloseStep
  <2> QED
    BY <1>9, <2>1, <2>2 DEF CloseBooks, ToPartner
<1>10. ASSUME NEW y \in Years, AllocateToPartners(y)
       PROVE  IInv'
  <2>0. PICK c \in LiveWith(CloseRef(y)) : \E a \in YearAccounts(c) :
          /\ Unfenced(AllocationEntry(entries[c].date, a, Result(c)))
          /\ Post(<<AllocationEntry(entries[c].date, a, Result(c))>>)
          /\ UNCHANGED <<status, closed>>
    BY <1>10 DEF AllocateToPartners
  <2>1. PICK a \in YearAccounts(c) :
          /\ Unfenced(AllocationEntry(entries[c].date, a, Result(c)))
          /\ Post(<<AllocationEntry(entries[c].date, a, Result(c))>>)
          /\ UNCHANGED <<status, closed>>
    BY <2>0
  <2>2. a \in Accounts /\ entries[c].date \in Years
    BY DEF YearAccounts, Equity, LiveWith, IInv, Shape, EntryShape
  <2>3. Postable(AllocationEntry(entries[c].date, a, Result(c)))
    BY <2>1, <2>2, AllocationPostable
  <2> QED
    BY <2>1, <2>3, PostOneStep
<1>11. ASSUME NEW y \in Years, ReopenBooks(y)
       PROVE  IInv'
  BY <1>11, ReopenStep
<1>12. CASE UNCHANGED vars
  BY <1>12 DEF vars, IInv, Shape, AllNamed, RefsUnique, ClosedHasItsEntry,
               LinesHaveAccounts, Ids, Live, LiveWith, Names
<1> QED
  BY <1>1, <1>2, <1>3, <1>4, <1>5, <1>6, <1>7, <1>8, <1>9, <1>10, <1>11, <1>12 DEF Next

\* Only a reopening lowers the fence, and it voids what the close and the
\* allocation of the year posted.
LEMMA ReopenVoids ==
  ASSUME IInv, [Next]_vars, NEW y \in Years, Reopening(y), NEW e \in Ids,
         entries'[e].source = "closing", entries'[e].date = y
  PROVE  entries'[e].void
<1>1. ReopenBooks(y)
  <2>1. ASSUME NEW z \in Years, ReopenBooks(z)
        PROVE  z = y
    BY <2>1 DEF ReopenBooks, ReopenVoiding, Reopening
  <2>2. ASSUME NEW z \in Years, NEW a \in ClosedInto, CloseBooks(z, a)
        PROVE  FALSE
    BY <2>2 DEF CloseBooks, CloseWith, Reopening
  <2> QED
    BY <2>1, <2>2 DEF Next, vars, Reopening, CreateAccount, DeactivateAccount,
         ReactivateAccount, DeleteAccount, Delete, PostEntry, VoidEntry, VoidAny,
         UnvoidEntry, UnvoidAny, ReassignLine, AllocateToPartners
<1> DEFINE E == LiveWith(AllocationRef(y)) \cup LiveWith(CloseRef(y))
<1>2. SetVoid(E, TRUE)
  BY <1>1 DEF ReopenBooks, ReopenVoiding
<1> HIDE DEF E
<1>3. /\ entries'[e].void = IF e \in E THEN TRUE ELSE entries[e].void
      /\ entries[e].source = "closing" /\ entries[e].date = y
  BY <1>2, VoidFields
<1>4. entries[e].ref \in {CloseRef(y), AllocationRef(y)}
  BY <1>3 DEF IInv, AllNamed, Named
<1>5. e \in E \/ entries[e].void = TRUE
  <2>1. EntryShape(entries[e])
    BY DEF IInv, Shape
  <2>2. entries[e].void \in BOOLEAN
    BY <2>1 DEF EntryShape
  <2> QED
    BY <1>4, <2>2 DEF E, LiveWith, Live
<1> QED
  BY <1>3, <1>5

-----------------------------------------------------------------------------

\* check_reference_free_in_txn guards posting and unvoiding alike: a reference
\* names at most one live entry, whatever is voided and posted in between.
THEOREM ReferencesUnique == Spec => []RefsUnique
<1>1. IInv => RefsUnique
  BY DEF IInv
<1> QED
  BY <1>1, InitInv, InvStep, PTL DEF Spec

\* A close posts its entry and the fence together, the guard of VoidEntry and
\* the reopening keep them together: a closed year always has exactly one live
\* closing entry, its own.
THEOREM ClosedYears == Spec => []ClosedHasItsEntry
<1>1. IInv => ClosedHasItsEntry
  BY DEF IInv
<1> QED
  BY <1>1, InitInv, InvStep, PTL DEF Spec

\* Deleting an account asks for voided lines too, and posting and reassigning
\* for active accounts: no line ever names an account that is not there.
THEOREM AccountsKept == Spec => []LinesHaveAccounts
<1>1. IInv => LinesHaveAccounts
  BY DEF IInv
<1> QED
  BY <1>1, InitInv, InvStep, PTL DEF Spec

\* Reopening finds its entries by reference: they are all that a close, and an
\* allocation made later, have left live in the year.
THEOREM ReopenUndone == Spec => ReopenUndoesClose
<1>1. IInv /\ [Next]_vars =>
        [\A y \in Years : Reopening(y) =>
           \A e \in Ids : entries'[e].source = "closing" /\ entries'[e].date = y
                            => entries'[e].void]_vars
  BY ReopenVoids
<1> QED
  BY <1>1, InitInv, InvStep, PTL DEF Spec, ReopenUndoesClose

-----------------------------------------------------------------------------
(***************************************************************************)
(* What any journal step leaves alone, for the modules built on it.        *)
(***************************************************************************)

\* Posting keeps every entry and appends the ones it was given.
LEMMA PostKeeps ==
  ASSUME Shape, NEW es, Tuple(es), Post(es)
  PROVE  /\ Len(entries) \in Nat /\ Ids = 1..Len(entries)
         /\ Ids' = 1..(Len(entries) + Len(es))
         /\ \A e \in Ids : e \in Ids' /\ entries'[e] = entries[e]
         /\ \A e \in Ids' \ Ids : \E i \in DOMAIN es : /\ e = Len(entries) + i
                                                       /\ entries'[e] = es[i]
<1>1. /\ Tuple(entries)
      /\ entries' = entries \o es
  BY DEF Shape, Post
<1>2. /\ Len(entries) \in Nat /\ Len(es) \in Nat
      /\ Ids = 1..Len(entries) /\ DOMAIN es = 1..Len(es)
      /\ DOMAIN entries' = 1..(Len(entries) + Len(es))
      /\ \A i \in 1..(Len(entries) + Len(es)) :
           entries'[i] = IF i <= Len(entries) THEN entries[i] ELSE es[i - Len(entries)]
  BY <1>1, TupleConcat DEF Ids
<1>3. Ids' = 1..(Len(entries) + Len(es))
  BY <1>2 DEF Ids
<1>4. ASSUME NEW e \in Ids' \ Ids
      PROVE  \E i \in DOMAIN es : e = Len(entries) + i /\ entries'[e] = es[i]
  <2>1. /\ e - Len(entries) \in DOMAIN es
        /\ e = Len(entries) + (e - Len(entries))
        /\ entries'[e] = es[e - Len(entries)]
    BY <1>2, <1>3
  <2> QED
    BY <2>1
<1> QED
  BY <1>2, <1>3, <1>4

\* What the ledger's own entries may be named: as postings or year ends are.
OwnRefs == YearRefs \cup {p[3] : p \in Postings}

RefsKept ==
  /\ \A e \in Ids : e \in Ids' /\ entries'[e].ref = entries[e].ref
  /\ \A e \in Ids' \ Ids : entries'[e].ref \in OwnRefs

\* Nothing deletes or renames an entry, and nothing else is posted.
LEMMA JournalKeepsRefs ==
  ASSUME IInv, [Next]_vars
  PROVE  RefsKept
<1>0. Shape
  BY DEF IInv
<1>1. ASSUME UNCHANGED entries
      PROVE  RefsKept
  BY <1>1 DEF RefsKept, Ids
<1>2. ASSUME NEW es, Tuple(es), Post(es), \A i \in DOMAIN es : es[i].ref \in OwnRefs
      PROVE  RefsKept
  <2>1. /\ \A e \in Ids : e \in Ids' /\ entries'[e] = entries[e]
        /\ \A e \in Ids' \ Ids : \E i \in DOMAIN es : entries'[e] = es[i]
    BY <1>0, <1>2, PostKeeps
  <2> QED
    BY <1>2, <2>1 DEF RefsKept
<1>3. ASSUME NEW E, NEW v \in BOOLEAN, SetVoid(E, v)
      PROVE  RefsKept
  BY <1>3, VoidFields DEF RefsKept
<1>4. ASSUME NEW y \in Years, NEW p \in Postings, PostEntry(y, p)
      PROVE  RefsKept
  <2>1. Post(<<Manual(y, p)>>) /\ Manual(y, p).ref \in OwnRefs
    BY <1>4 DEF PostEntry, Manual, OwnRefs
  <2> QED
    BY <1>2, <2>1, Tuples
<1>5. ASSUME NEW e \in Ids, NEW i \in DOMAIN entries[e].lines, NEW a \in Accounts,
             ReassignLine(e, i, a)
      PROVE  RefsKept
  <2>1. entries' = [entries EXCEPT ![e] = [entries[e] EXCEPT !.lines[i].account = a]]
    BY <1>5 DEF ReassignLine
  <2>2. Ids' = Ids /\ \A d \in Ids : d # e => entries'[d] = entries[d]
    BY <2>1 DEF Ids
  <2>3. EntryShape(entries[e])
    BY <1>0 DEF Shape
  <2> DEFINE q == [entries[e] EXCEPT !.lines[i].account = a]
  <2>4. q.ref = entries[e].ref
    BY <2>3, MoveShape
  <2>5. entries'[e] = q
    BY <2>1 DEF Ids
  <2> QED
    BY <2>2, <2>4, <2>5 DEF RefsKept
<1>6. ASSUME NEW y \in Years, NEW a \in ClosedInto, CloseBooks(y, a)
      PROVE  RefsKept
  <2>1. /\ ClosingEntry(y, a).ref \in OwnRefs
        /\ AllocationEntry(y, a, NetIncome(y)).ref \in OwnRefs
    BY RefsDiffer DEF ClosingEntry, AllocationEntry, OwnRefs
  <2>2. CASE Post(<<ClosingEntry(y, a)>>)
    BY <1>2, <2>1, <2>2, Tuples
  <2>3. CASE Post(<<ClosingEntry(y, a), AllocationEntry(y, a, NetIncome(y))>>)
    <3> DEFINE c == ClosingEntry(y, a)
               d == AllocationEntry(y, a, NetIncome(y))
    <3> HIDE DEF c, d
    <3>1. Tuple(<<c, d>>) /\ \A i \in DOMAIN <<c, d>> : <<c, d>>[i] \in {c, d}
      BY Tuples
    <3>2. Post(<<c, d>>) /\ c.ref \in OwnRefs /\ d.ref \in OwnRefs
      BY <2>1, <2>3 DEF c, d
    <3> QED
      BY <1>2, <3>1, <3>2
  <2> QED
    BY <1>6, <2>2, <2>3 DEF CloseBooks, CloseWith, ToAccount, ToPartner
<1>7. ASSUME NEW y \in Years, AllocateToPartners(y)
      PROVE  RefsKept
  <2>1. PICK c \in LiveWith(CloseRef(y)) : \E a \in YearAccounts(c) :
          Post(<<AllocationEntry(entries[c].date, a, Result(c))>>)
    BY <1>7 DEF AllocateToPartners
  <2>2. PICK a \in YearAccounts(c) :
          Post(<<AllocationEntry(entries[c].date, a, Result(c))>>)
    BY <2>1
  <2>3. entries[c].date \in Years
    BY <1>0 DEF LiveWith, Shape, EntryShape
  <2>4. AllocationEntry(entries[c].date, a, Result(c)).ref \in OwnRefs
    BY <2>3, RefsDiffer DEF AllocationEntry, OwnRefs
  <2> QED
    BY <1>2, <2>2, <2>4, Tuples
<1> QED
  BY <1>1, <1>3, <1>4, <1>5, <1>6, <1>7
     DEF Next, vars, CreateAccount, DeactivateAccount, ReactivateAccount, DeleteAccount, Delete,
         VoidEntry, VoidAny, UnvoidEntry, UnvoidAny, ReopenBooks, ReopenVoiding

-----------------------------------------------------------------------------
(***************************************************************************)
(* Amounts.  Every entry adds up to zero, and so does every set of them.   *)
(***************************************************************************)
Amounts(ls) == [i \in DOMAIN ls |-> ls[i].amount]

\* What lines, and what rows of the journal, put on the accounts in A.
OnLines(ls, A) == Total(Amounts(ls), {i \in DOMAIN ls : ls[i].account \in A})

OnRows(rows, E, A) == Total([e \in E |-> OnLines(rows[e].lines, A)], E)

BalancedLines(ls) == ls \in Seq(Line) /\ Total(Amounts(ls), DOMAIN ls) = 0

AllBalanced == \A e \in Ids : BalancedLines(entries[e].lines)

Books == IInv /\ AllBalanced

LEMMA OnLinesIs ==
  ASSUME NEW ls, NEW D \in SUBSET (DOMAIN ls), IsFiniteSet(D)
  PROVE  MapThenSumSet(LAMBDA i : ls[i].amount, D) = Total(Amounts(ls), D)
<1> DEFINE F == Amounts(ls)
           ju == CHOOSE k : k = [s \in SUBSET D |->
                   IF s = {} THEN 0 ELSE ls[Chosen(s)].amount + k[s \ {Chosen(s)}]]
<1>1. MapThenSumSet(LAMBDA i : ls[i].amount, D) = ju[D]
  BY DEF MapThenSumSet, MapThenFoldSet, Chosen
<1>2. PICK it : Iterates(it, F, D)
  BY IterExists
<1>3. \A s \in SUBSET D : s # {} => F[Chosen(s)] = ls[Chosen(s)].amount
  BY ChosenIn DEF Amounts
<1> HIDE DEF F
<1>4. it = [s \in SUBSET D |-> IF s = {} THEN 0 ELSE ls[Chosen(s)].amount + it[s \ {Chosen(s)}]]
  BY <1>2, <1>3 DEF Iterates
<1>5. ju = [s \in SUBSET D |-> IF s = {} THEN 0 ELSE ls[Chosen(s)].amount + ju[s \ {Chosen(s)}]]
  BY <1>4
<1> HIDE DEF ju
<1>6. Iterates(ju, F, D)
  BY <1>5, <1>3 DEF Iterates
<1>7. Total(F, D) = ju[D]
  BY <1>6, TotalIs
<1> QED
  BY <1>1, <1>7 DEF F

\* Sum, which adds up over the current entries, as a sum of what rows put.
LEMMA SumIs ==
  ASSUME NEW A, NEW E, IsFiniteSet(E), \A e \in E : IsFiniteSet(DOMAIN entries[e].lines)
  PROVE  Sum(E, A) = OnRows(entries, E, A)
<1> DEFINE F == [e \in E |-> OnLines(entries[e].lines, A)]
           ju == CHOOSE k : k = [s \in SUBSET E |->
                   IF s = {} THEN 0 ELSE OnEntry(Chosen(s), A) + k[s \ {Chosen(s)}]]
<1>1. Sum(E, A) = ju[E]
  BY DEF Sum, MapThenSumSet, MapThenFoldSet, Chosen
<1>2. PICK it : Iterates(it, F, E)
  BY IterExists
<1>3. ASSUME NEW e \in E
      PROVE  OnEntry(e, A) = OnLines(entries[e].lines, A)
  <2> DEFINE ls == entries[e].lines
             D == {i \in DOMAIN ls : ls[i].account \in A}
  <2>1. D \in SUBSET (DOMAIN ls) /\ IsFiniteSet(D)
    BY FS_Subset
  <2>2. MapThenSumSet(LAMBDA i : ls[i].amount, D) = Total(Amounts(ls), D)
    <3> HIDE DEF ls, D
    <3> QED
      BY <2>1, OnLinesIs
  <2> QED
    BY <2>2 DEF OnEntry, OnLines
<1>4. \A s \in SUBSET E : s # {} => F[Chosen(s)] = OnEntry(Chosen(s), A)
  BY <1>3, ChosenIn
<1> HIDE DEF F
<1>5. it = [s \in SUBSET E |-> IF s = {} THEN 0 ELSE OnEntry(Chosen(s), A) + it[s \ {Chosen(s)}]]
  BY <1>2, <1>4 DEF Iterates
<1>6. ju = [s \in SUBSET E |-> IF s = {} THEN 0 ELSE OnEntry(Chosen(s), A) + ju[s \ {Chosen(s)}]]
  BY <1>5
<1> HIDE DEF ju
<1>7. Iterates(ju, F, E)
  BY <1>6, <1>4 DEF Iterates
<1>8. Total(F, E) = ju[E]
  BY <1>7, TotalIs
<1> QED
  BY <1>1, <1>8 DEF F, OnRows

\* What a sequence of lines puts anywhere is a number.
LEMMA LinesAddUp ==
  ASSUME NEW ls \in Seq(Line), NEW A
  PROVE  /\ IsFiniteSet(DOMAIN ls)
         /\ Len(ls) \in Nat /\ DOMAIN ls = 1..Len(ls)
         /\ \A i \in DOMAIN ls : /\ ls[i].account \in Accounts /\ ls[i].amount \in Int
                                /\ Amounts(ls)[i] = ls[i].amount
         /\ OnLines(ls, A) \in Int
         /\ OnLines(ls, Accounts) = Total(Amounts(ls), DOMAIN ls)
<1>1. Len(ls) \in Nat /\ DOMAIN ls = 1..Len(ls) /\ \A i \in DOMAIN ls : ls[i] \in Line
  BY LenProperties, ElementOfSeq
<1>2. IsFiniteSet(DOMAIN ls)
  BY <1>1, FS_Interval
<1>3. \A i \in DOMAIN ls : /\ ls[i].account \in Accounts /\ ls[i].amount \in Int
                           /\ Amounts(ls)[i] = ls[i].amount
  BY <1>1 DEF Line, Amounts
<1> DEFINE D == {i \in DOMAIN ls : ls[i].account \in A}
<1>4. D \in SUBSET (DOMAIN ls) /\ IsFiniteSet(D)
  BY <1>2, FS_Subset
<1>5. Total(Amounts(ls), D) \in Int
  <2> HIDE DEF D
  <2> QED
    BY <1>3, <1>4, TotalInt
<1>6. {i \in DOMAIN ls : ls[i].account \in Accounts} = DOMAIN ls
  BY <1>3
<1> QED
  BY <1>1, <1>2, <1>3, <1>5, <1>6 DEF OnLines

\* What sets of entries put on accounts.
LEMMA RowsAddUp ==
  ASSUME Shape, AllBalanced, NEW E \in SUBSET Ids, NEW A
  PROVE  /\ IsFiniteSet(E)
         /\ \A e \in E : /\ entries[e].lines \in Seq(Line)
                         /\ OnLines(entries[e].lines, A) \in Int
         /\ Sum(E, A) = OnRows(entries, E, A)
         /\ Sum(E, A) \in Int
<1>1. Tuple(entries)
  BY DEF Shape
<1>2. Len(entries) \in Nat /\ Ids = 1..Len(entries)
  BY <1>1, LenProperties DEF Tuple, Ids
<1>3. IsFiniteSet(E)
  <2>1. IsFiniteSet(Ids)
    BY <1>2, FS_Interval
  <2> QED
    BY <2>1, FS_Subset
<1>4. \A e \in E : /\ entries[e].lines \in Seq(Line)
                   /\ OnLines(entries[e].lines, A) \in Int
                   /\ IsFiniteSet(DOMAIN entries[e].lines)
  BY LinesAddUp DEF AllBalanced, BalancedLines
<1>5. Sum(E, A) = OnRows(entries, E, A)
  BY <1>3, <1>4, SumIs
<1>6. OnRows(entries, E, A) \in Int
  <2> DEFINE F == [e \in E |-> OnLines(entries[e].lines, A)]
  <2>1. \A e \in E : F[e] \in Int
    BY <1>4
  <2> HIDE DEF F
  <2>2. Total(F, E) \in Int
    BY <1>3, <2>1, TotalInt
  <2> QED
    BY <2>2 DEF F, OnRows
<1> QED
  BY <1>3, <1>4, <1>5, <1>6

\* Where every entry balances, any of them together do.
LEMMA BalancedAddUp ==
  ASSUME Shape, AllBalanced, NEW E \in SUBSET Ids
  PROVE  Sum(E, Accounts) = 0
<1> DEFINE F == [e \in E |-> OnLines(entries[e].lines, Accounts)]
<1>1. IsFiniteSet(E) /\ Sum(E, Accounts) = OnRows(entries, E, Accounts)
  BY RowsAddUp
<1>2. \A e \in E : F[e] = 0
  BY LinesAddUp DEF AllBalanced, BalancedLines
<1> HIDE DEF F
<1>3. Total(F, E) = 0
  BY <1>1, <1>2, TotalZero
<1> QED
  BY <1>1, <1>3 DEF F, OnRows

\* Two lines, there and back.
LEMMA PairBalances ==
  ASSUME NEW a \in Accounts, NEW b \in Accounts, NEW n \in Int, NEW m \in Int, n + m = 0
  PROVE  BalancedLines(<<[account |-> a, amount |-> n], [account |-> b, amount |-> m]>>)
<1> DEFINE ls == <<[account |-> a, amount |-> n], [account |-> b, amount |-> m]>>
           F == Amounts(ls)
<1>1. ls \in Seq(Line) /\ DOMAIN ls = {1, 2}
  BY DEF Line
<1>2. F[1] = n /\ F[2] = m
  BY DEF Amounts
<1> HIDE DEF F
<1>3. Total(F, DOMAIN ls) = n + m
  <2>1. DOMAIN ls = {1, 2} /\ 1 # 2 /\ F[1] \in Int /\ F[2] \in Int
    BY <1>1, <1>2
  <2> HIDE DEF ls
  <2>3. \A x, y : x # y /\ F[x] \in Int /\ F[y] \in Int /\ DOMAIN ls = {x, y}
                  => Total(F, DOMAIN ls) = F[x] + F[y]
    BY TotalTwo
  <2>2. Total(F, DOMAIN ls) = F[1] + F[2]
    BY <2>1, <2>3
  <2> QED
    BY <1>2, <2>2
<1> QED
  BY <1>1, <1>3 DEF F, BalancedLines

\* A set put in order: each element once.
LEMMA SetInOrder ==
  ASSUME NEW S, IsFiniteSet(S), NEW s, s = SetToSeq(S)
  PROVE  /\ s \in Seq(S)
         /\ \A i, j \in DOMAIN s : s[i] = s[j] => i = j
         /\ \A x \in S : \E i \in DOMAIN s : s[i] = x
<1> DEFINE n == Cardinality(S)
<1>1. n \in Nat /\ ExistsBijection(1..n, S)
  BY FS_CardinalityType
<1>2. \E f : f \in [1..n -> S] /\ IsInjective(f)
  BY <1>1 DEF ExistsBijection, Bijection, Injection
<1>3. s \in [1..n -> S] /\ IsInjective(s)
  BY <1>2 DEF SetToSeq
<1> HIDE DEF n
<1>4. s \in Seq(S) /\ DOMAIN s = 1..n
  BY <1>1, <1>3, SeqDef
<1>5. s \in Surjection(1..n, S)
  <2>1. IsFiniteSet(1..n) /\ Cardinality(1..n) = n
    BY <1>1, FS_Interval
  <2>2. s \in Injection(1..n, S)
    BY <1>3 DEF Injection
  <2> QED
    BY <2>1, <2>2, FS_Injection DEF n
<1> QED
  BY <1>3, <1>4, <1>5 DEF IsInjective, Surjection

\* Balances and results are numbers.
LEMMA BalanceInt ==
  ASSUME Shape, AllBalanced, NEW a, NEW y
  PROVE  Balance(a, y) \in Int
<1>1. UpTo(y) \in SUBSET Ids
  BY DEF UpTo
<1> QED
  BY <1>1, RowsAddUp DEF Balance

LEMMA NetIncomeIs ==
  ASSUME Shape, AllBalanced, NEW y
  PROVE  /\ IsFiniteSet(Swept(y)) /\ Swept(y) \subseteq Income
         /\ NetIncome(y) = -Total([a \in Swept(y) |-> Balance(a, y)], Swept(y))
         /\ NetIncome(y) \in Int
<1> DEFINE S == Swept(y)
           B == [a \in S |-> Balance(a, y)]
           ju == CHOOSE k : k = [s \in SUBSET S |->
                   IF s = {} THEN 0 ELSE Balance(Chosen(s), y) + k[s \ {Chosen(s)}]]
<1>1. IsFiniteSet(S) /\ S \subseteq Income
  BY FS_Subset, JournalAssumption DEF Swept, Income
<1>2. NetIncome(y) = -ju[S]
  BY DEF NetIncome, MapThenSumSet, MapThenFoldSet, Chosen
<1>3. \A a \in S : B[a] = Balance(a, y) /\ B[a] \in Int
  BY BalanceInt
<1> HIDE DEF B, S
<1>4. PICK it : Iterates(it, B, S)
  BY <1>1, IterExists
<1>5. \A s \in SUBSET S : s # {} => B[Chosen(s)] = Balance(Chosen(s), y)
  BY <1>3, ChosenIn
<1>6. it = [s \in SUBSET S |-> IF s = {} THEN 0 ELSE Balance(Chosen(s), y) + it[s \ {Chosen(s)}]]
  BY <1>4, <1>5 DEF Iterates
<1>7. ju = [s \in SUBSET S |-> IF s = {} THEN 0 ELSE Balance(Chosen(s), y) + ju[s \ {Chosen(s)}]]
  BY <1>6
<1> HIDE DEF ju
<1>8. Iterates(ju, B, S)
  BY <1>5, <1>7 DEF Iterates
<1>9. Total(B, S) = ju[S]
  BY <1>1, <1>8, TotalIs
<1>10. Total(B, S) \in Int
  BY <1>1, <1>3, TotalInt
<1> QED
  BY <1>1, <1>2, <1>9, <1>10 DEF B, S

\* A sweep puts on accounts the negation of what they hold.
LEMMA SweepPuts ==
  ASSUME Shape, AllBalanced, NEW y, NEW A
  PROVE  /\ SweepLines(y) \in Seq(Line)
         /\ OnLines(SweepLines(y), A)
              = -Total([a \in Swept(y) |-> Balance(a, y)], Swept(y) \cap A)
<1> DEFINE S == Swept(y)
           B == [a \in S |-> Balance(a, y)]
           N == [a \in S |-> -Balance(a, y)]
           Put(a) == [account |-> a, amount |-> -Balance(a, y)]
           R == {Put(a) : a \in S}
           ls == SweepLines(y)
<1>1. IsFiniteSet(S) /\ S \subseteq Accounts
  BY NetIncomeIs DEF Income
<1>2. \A a \in S : B[a] \in Int /\ N[a] = -B[a] /\ N[a] = Put(a).amount
  BY BalanceInt
<1>3. IsFiniteSet(R)
  <2>1. [a \in S |-> Put(a)] \in Surjection(S, R)
    BY DEF Surjection
  <2> QED
    BY <1>1, <2>1, FS_Surjection
<1>4. \A r \in R : r \in Line /\ r.account \in S /\ r.amount = N[r.account] /\ r = Put(r.account)
  BY <1>1, BalanceInt DEF Line
<1>5. \A a \in S : Put(a) \in R /\ Put(a).account = a
  OBVIOUS
<1>6. ls = SetToSeq(R)
  BY DEF SweepLines
<1> HIDE DEF ls, B, N, R, S, Put
<1>7. /\ ls \in Seq(R)
      /\ \A i, j \in DOMAIN ls : ls[i] = ls[j] => i = j
      /\ \A r \in R : \E i \in DOMAIN ls : ls[i] = r
  BY <1>3, <1>6, SetInOrder
<1>8. \A i \in DOMAIN ls : ls[i] \in R
  BY <1>7, LenProperties, ElementOfSeq
<1>9. ls \in Seq(Line)
  BY <1>4, <1>7, SeqMonotonic
<1> DEFINE D == {i \in DOMAIN ls : ls[i].account \in A}
           h == [i \in D |-> ls[i].account]
           F == Amounts(ls)
<1>10. IsFiniteSet(D)
  <2>1. IsFiniteSet(DOMAIN ls) /\ D \in SUBSET (DOMAIN ls)
    BY <1>9, LinesAddUp
  <2> QED
    BY <2>1, FS_Subset
<1>11. \A i \in D : F[i] \in Int /\ N[h[i]] = F[i]
  BY <1>2, <1>4, <1>8 DEF Amounts
<1>12. \A i, j \in D : h[i] = h[j] => i = j
  BY <1>4, <1>7, <1>8
<1>13. {h[i] : i \in D} = S \cap A
  <2>1. \A i \in D : h[i] \in S \cap A
    BY <1>4, <1>8
  <2>2. ASSUME NEW a \in S \cap A
        PROVE  \E i \in D : h[i] = a
    <3>1. PICK i \in DOMAIN ls : ls[i] = Put(a)
      BY <1>5, <1>7
    <3>2. ls[i].account = a
      BY <1>5, <3>1
    <3> QED
      BY <3>2
  <2> HIDE DEF D, h
  <2> QED
    BY <2>1, <2>2
<1>14. DOMAIN h = D
  OBVIOUS
<1> HIDE DEF F, h
<1>15. Total(N, {h[i] : i \in D}) = Total(F, D)
  <2> HIDE DEF D
  <2> QED
    BY <1>10, <1>11, <1>12, <1>14, TotalMap
<1>16. Total(N, S \cap A) = -Total(B, S \cap A)
  <2>1. IsFiniteSet(S \cap A) /\ \A a \in S \cap A : B[a] \in Int /\ N[a] = -B[a]
    BY <1>1, <1>2, FS_Subset
  <2> DEFINE C == S \cap A
  <2> HIDE DEF C
  <2>2. Total(N, C) = -Total(B, C)
    BY <2>1, TotalMinus DEF C
  <2> QED
    BY <2>2 DEF C
<1>17. OnLines(ls, A) = -Total(B, S \cap A)
  BY <1>13, <1>15, <1>16 DEF OnLines, F
<1> QED
  BY <1>9, <1>17 DEF ls, B, S

\* One more line.
LEMMA AppendPuts ==
  ASSUME NEW ls \in Seq(Line), NEW x \in Line, NEW A, NEW ms, ms = Append(ls, x)
  PROVE  /\ ms \in Seq(Line)
         /\ OnLines(ms, A) = OnLines(ls, A) + (IF x.account \in A THEN x.amount ELSE 0)
<1> DEFINE n == Len(ls)
           D == {i \in DOMAIN ls : ls[i].account \in A}
           E == {i \in DOMAIN ms : ms[i].account \in A}
           F == Amounts(ls)
           G == Amounts(ms)
<1>1. /\ n \in Nat /\ DOMAIN ls = 1..n
      /\ IsFiniteSet(DOMAIN ls) /\ OnLines(ls, A) \in Int
      /\ \A i \in 1..n : F[i] \in Int /\ F[i] = ls[i].amount
  BY LinesAddUp
<1>2. /\ ms \in Seq(Line) /\ Len(ms) = n + 1
      /\ \A i \in 1..n : ms[i] = ls[i]
      /\ ms[n + 1] = x
  BY AppendProperties
<1>3. DOMAIN ms = 1..(n + 1)
  BY <1>2, LenProperties
<1>4. x.amount \in Int
  BY DEF Line
<1>5. \A i \in 1..(n + 1) : G[i] = IF i = n + 1 THEN x.amount ELSE F[i]
  BY <1>1, <1>2, <1>3 DEF Amounts
<1>6. D \subseteq 1..n /\ IsFiniteSet(D)
  BY <1>1, FS_Subset
<1>7. E = IF x.account \in A THEN D \cup {n + 1} ELSE D
  <2>1. \A i \in 1..(n + 1) : i \in E <=> i \in D \/ (i = n + 1 /\ x.account \in A)
    BY <1>1, <1>2, <1>3
  <2>2. E \subseteq 1..(n + 1) /\ D \subseteq 1..(n + 1)
    BY <1>1, <1>3, <1>6
  <2>3. n + 1 \in 1..(n + 1)
    BY <1>1
  <2> HIDE DEF D, E
  <2> QED
    BY <2>1, <2>2, <2>3
<1>8. OnLines(ls, A) = Total(F, D) /\ OnLines(ms, A) = Total(G, E)
  BY DEF OnLines
<1> HIDE DEF D, E, F, G
<1>9. Total(G, D) = Total(F, D)
  <2>1. \A i \in D : G[i] = F[i]
    BY <1>1, <1>5, <1>6
  <2> QED
    BY <1>6, <2>1, TotalSame
<1>10. CASE x.account \in A
  <2> DEFINE k == n + 1
  <2>0. k \notin 1..n /\ k \in 1..(n + 1) /\ \A i \in 1..n : i \in 1..(n + 1) /\ i # k
    BY <1>1
  <2>1. k \notin D /\ G[k] = x.amount /\ \A i \in D \cup {k} : G[i] \in Int
    <3>1. k \notin D /\ \A i \in D : i \in 1..n
      BY <1>6, <2>0
    <3>2. G[k] = x.amount
      BY <1>5, <2>0
    <3>3. \A i \in D : G[i] \in Int
      BY <1>1, <1>5, <2>0, <3>1
    <3> QED
      BY <1>4, <3>1, <3>2, <3>3
  <2> HIDE DEF k
  <2>2. Total(G, D \cup {k}) = Total(G, D) + G[k]
    BY <1>6, <2>1, TotalAdd
  <2>3. E = D \cup {k}
    BY <1>7, <1>10 DEF k
  <2> QED
    BY <1>2, <1>8, <1>9, <1>10, <2>1, <2>2, <2>3
<1>11. CASE x.account \notin A
  BY <1>1, <1>2, <1>7, <1>8, <1>9, <1>11
<1> QED
  BY <1>10, <1>11

\* The balancing line makes up for what the sweep puts, and only there.
LEMMA ClosingPuts ==
  ASSUME Shape, AllBalanced, NEW y, NEW a \in Accounts
  PROVE  /\ BalancedLines(ClosingLines(y, a))
         /\ \A A : a \notin A => OnLines(ClosingLines(y, a), A) = OnLines(SweepLines(y), A)
<1> DEFINE ls == SweepLines(y)
           n == NetIncome(y)
           x == [account |-> a, amount |-> -n]
<1>1. n \in Int /\ x \in Line
  <2>1. n \in Int
    BY NetIncomeIs
  <2> HIDE DEF n
  <2> QED
    BY <2>1 DEF Line
<1>2. ls \in Seq(Line)
  BY SweepPuts
<1>3. OnLines(ls, Accounts) = n
  <2> DEFINE S == Swept(y)
             B == [b \in S |-> Balance(b, y)]
  <2>1. S \cap Accounts = S
    BY DEF Swept, Income
  <2>2. OnLines(ls, Accounts) = -Total(B, S \cap Accounts)
    BY SweepPuts
  <2>3. n = -Total(B, S)
    BY NetIncomeIs
  <2> QED
    BY <2>1, <2>2, <2>3
<1>4. ClosingLines(y, a) = IF n = 0 THEN ls ELSE Append(ls, x)
  BY DEF ClosingLines
<1> HIDE DEF ls, n
<1>5. CASE n = 0
  BY <1>2, <1>3, <1>4, <1>5, LinesAddUp DEF BalancedLines, ls
<1>6. CASE n # 0
  <2> DEFINE ms == Append(ls, x)
  <2>1. /\ ms \in Seq(Line)
        /\ OnLines(ms, Accounts) = OnLines(ls, Accounts) - n
        /\ \A A : a \notin A => OnLines(ms, A) = OnLines(ls, A) + 0
    <3>1. x.account = a /\ x.amount = -n
      OBVIOUS
    <3>2. OnLines(ls, Accounts) - n = OnLines(ls, Accounts) + (-n)
      BY <1>1, <1>3
    <3> HIDE DEF x
    <3> QED
      BY <1>1, <1>2, <3>1, <3>2, AppendPuts
  <2>2. \A A : OnLines(ls, A) \in Int
    BY <1>2, LinesAddUp
  <2>3. ClosingLines(y, a) = ms
    BY <1>4, <1>6
  <2> HIDE DEF ms
  <2>4. OnLines(ms, Accounts) = Total(Amounts(ms), DOMAIN ms)
    BY <2>1, LinesAddUp
  <2> QED
    BY <1>1, <1>3, <2>1, <2>2, <2>3, <2>4 DEF BalancedLines, ls
<1> QED
  BY <1>5, <1>6

-----------------------------------------------------------------------------
(* Every command posts what balances.                                      *)

\* Lines moved to another account keep their amounts.
LEMMA MoveBalances ==
  ASSUME NEW ls, BalancedLines(ls), NEW i \in DOMAIN ls, NEW a \in Accounts,
         NEW ms, ms = [ls EXCEPT ![i].account = a]
  PROVE  BalancedLines(ms)
<1>1. ls \in Seq(Line) /\ ls[i] \in Line
  BY LenProperties, ElementOfSeq DEF BalancedLines
<1>2. [ls[i] EXCEPT !.account = a] \in Line
  BY <1>1 DEF Line
<1>3. ms \in Seq(Line) /\ DOMAIN ms = DOMAIN ls
  BY <1>1, <1>2, ExceptSeq
<1>4. Amounts(ms) = Amounts(ls)
  <2>1. \A j \in DOMAIN ls : ms[j].amount = ls[j].amount
    BY <1>1 DEF Line
  <2> QED
    BY <1>3, <2>1 DEF Amounts
<1> QED
  BY <1>3, <1>4 DEF BalancedLines

LEMMA PostBalances ==
  ASSUME Shape, AllBalanced, NEW es, Tuple(es), Post(es),
         \A i \in DOMAIN es : BalancedLines(es[i].lines)
  PROVE  AllBalanced'
<1>1. /\ \A e \in Ids : e \in Ids' /\ entries'[e] = entries[e]
      /\ \A e \in Ids' \ Ids : \E i \in DOMAIN es : entries'[e] = es[i]
  BY PostKeeps
<1>2. \A e \in Ids' : BalancedLines(entries'[e].lines)
  BY <1>1 DEF AllBalanced
<1> QED
  BY <1>2 DEF AllBalanced

\* What each command that posts posts.
LEMMA OwnEntriesBalance ==
  ASSUME Shape, AllBalanced
  PROVE  /\ \A y \in Years, p \in Postings : BalancedLines(Manual(y, p).lines)
         /\ \A y \in Years, a \in Accounts : BalancedLines(ClosingEntry(y, a).lines)
         /\ \A y \in Years, a \in Accounts, net \in Int :
              BalancedLines(AllocationEntry(y, a, net).lines)
<1>1. ASSUME NEW y \in Years, NEW p \in Postings
      PROVE  BalancedLines(Manual(y, p).lines)
  <2>1. p[1] \in Accounts /\ p[2] \in Accounts
    BY JournalAssumption
  <2>2. Manual(y, p).lines = <<[account |-> p[1], amount |-> 1], [account |-> p[2], amount |-> -1]>>
    BY DEF Manual
  <2>3. 1 \in Int /\ -1 \in Int /\ 1 + (-1) = 0
    OBVIOUS
  <2> QED
    BY <2>1, <2>2, <2>3, PairBalances
<1>2. ASSUME NEW y \in Years, NEW a \in Accounts
      PROVE  BalancedLines(ClosingEntry(y, a).lines)
  BY ClosingPuts DEF ClosingEntry
<1>3. ASSUME NEW y \in Years, NEW a \in Accounts, NEW net \in Int
      PROVE  BalancedLines(AllocationEntry(y, a, net).lines)
  <2>1. Capital \in Accounts /\ -net \in Int /\ net + (-net) = 0
    BY JournalAssumption
  <2>2. AllocationEntry(y, a, net).lines
          = <<[account |-> a, amount |-> net], [account |-> Capital, amount |-> -net]>>
    BY DEF AllocationEntry
  <2> QED
    BY <2>1, <2>2, PairBalances
<1> QED
  BY <1>1, <1>2, <1>3

LEMMA BooksStep == Books /\ [Next]_vars => Books'
<1> SUFFICES ASSUME Books, [Next]_vars PROVE AllBalanced'
  BY InvStep DEF Books
<1>0. IInv /\ Shape /\ AllBalanced
  BY DEF Books, IInv
<1>1. ASSUME UNCHANGED entries
      PROVE  AllBalanced'
  BY <1>0, <1>1 DEF AllBalanced, Ids
<1>2. ASSUME NEW E, NEW v \in BOOLEAN, SetVoid(E, v)
      PROVE  AllBalanced'
  BY <1>0, <1>2, VoidFields DEF AllBalanced
<1>3. ASSUME NEW y \in Years, NEW p \in Postings, PostEntry(y, p)
      PROVE  AllBalanced'
  <2> DEFINE r == Manual(y, p)
  <2>1. Post(<<r>>) /\ BalancedLines(r.lines)
    BY <1>0, <1>3, OwnEntriesBalance DEF PostEntry
  <2> HIDE DEF r
  <2> QED
    BY <1>0, <2>1, PostBalances, Tuples
<1>4. ASSUME NEW e \in Ids, NEW i \in DOMAIN entries[e].lines, NEW a \in Accounts,
             ReassignLine(e, i, a)
      PROVE  AllBalanced'
  <2>1. entries' = [entries EXCEPT ![e] = [entries[e] EXCEPT !.lines[i].account = a]]
    BY <1>4 DEF ReassignLine
  <2>2. Ids' = Ids /\ \A d \in Ids : d # e => entries'[d] = entries[d]
    BY <2>1 DEF Ids
  <2>3. entries'[e].lines = [entries[e].lines EXCEPT ![i].account = a]
    <3>1. EntryShape(entries[e])
      BY <1>0 DEF Shape
    <3> QED
      BY <2>1, <3>1 DEF Ids, EntryShape
  <2>4. BalancedLines(entries'[e].lines)
    BY <1>0, <2>3, MoveBalances DEF AllBalanced
  <2> QED
    BY <1>0, <2>2, <2>4 DEF AllBalanced
<1>5. ASSUME NEW y \in Years, NEW a \in ClosedInto, CloseBooks(y, a)
      PROVE  AllBalanced'
  <2> DEFINE c == ClosingEntry(y, a)
             d == AllocationEntry(y, a, NetIncome(y))
  <2>1. a \in Accounts /\ NetIncome(y) \in Int
    BY <1>0, JournalAssumption, NetIncomeIs
  <2>2. BalancedLines(c.lines) /\ BalancedLines(d.lines)
    BY <1>0, <2>1, OwnEntriesBalance
  <2>3. Post(<<c>>) \/ Post(<<c, d>>)
    BY <1>5 DEF CloseBooks, CloseWith, ToAccount, ToPartner
  <2> HIDE DEF c, d
  <2>4. CASE Post(<<c>>)
    BY <1>0, <2>2, <2>4, PostBalances, Tuples
  <2>5. CASE Post(<<c, d>>)
    <3>1. Tuple(<<c, d>>) /\ \A i \in DOMAIN <<c, d>> : <<c, d>>[i] \in {c, d}
      BY Tuples
    <3>2. \A i \in DOMAIN <<c, d>> : BalancedLines(<<c, d>>[i].lines)
      BY <2>2, <3>1
    <3> QED
      BY <1>0, <2>5, <3>1, <3>2, PostBalances
  <2> QED
    BY <2>3, <2>4, <2>5
<1>6. ASSUME NEW y \in Years, AllocateToPartners(y)
      PROVE  AllBalanced'
  <2>1. PICK c \in LiveWith(CloseRef(y)) : \E a \in YearAccounts(c) :
          Post(<<AllocationEntry(entries[c].date, a, Result(c))>>)
    BY <1>6 DEF AllocateToPartners
  <2>2. PICK a \in YearAccounts(c) :
          Post(<<AllocationEntry(entries[c].date, a, Result(c))>>)
    BY <2>1
  <2>3. c \in Ids /\ entries[c].date \in Years /\ a \in Accounts
    BY <1>0 DEF LiveWith, Shape, EntryShape, YearAccounts, Equity
  <2>4. Result(c) \in Int
    <3>1. {c} \in SUBSET Ids
      BY <2>3
    <3> QED
      BY <1>0, <3>1, RowsAddUp DEF Result
  <2> DEFINE d == AllocationEntry(entries[c].date, a, Result(c))
  <2>5. Post(<<d>>) /\ BalancedLines(d.lines)
    BY <1>0, <2>2, <2>3, <2>4, OwnEntriesBalance
  <2> HIDE DEF d
  <2> QED
    BY <1>0, <2>5, PostBalances, Tuples
<1> QED
  BY <1>1, <1>2, <1>3, <1>4, <1>5, <1>6
     DEF Next, vars, CreateAccount, DeactivateAccount, ReactivateAccount, DeleteAccount, Delete,
         VoidEntry, VoidAny, UnvoidEntry, UnvoidAny, ReopenBooks, ReopenVoiding

LEMMA BooksInit == Init => Books
<1> SUFFICES ASSUME Init PROVE AllBalanced
  BY InitInv DEF Books
<1>1. DOMAIN entries = {}
  BY EmptySeq, LenProperties DEF Init
<1> QED
  BY <1>1 DEF AllBalanced, Ids

LEMMA BooksType == Books => TypeOK
<1> SUFFICES ASSUME Books PROVE TypeOK
  OBVIOUS
<1>1. Shape /\ AllBalanced
  BY DEF Books, IInv
<1>2. \A e \in Ids : entries[e] \in Entry
  <2> SUFFICES ASSUME NEW e \in Ids PROVE entries[e] \in Entry
    OBVIOUS
  <2>1. EntryShape(entries[e]) /\ entries[e].lines \in Seq(Line)
    BY <1>1 DEF Shape, AllBalanced, BalancedLines
  <2> QED
    BY <2>1 DEF EntryShape, Entry, References
<1>3. entries \in Seq(Entry)
  <2>1. Tuple(entries)
    BY <1>1 DEF Shape
  <2> DEFINE S == {entries[i] : i \in DOMAIN entries}
  <2>2. entries \in Seq(S) /\ S \subseteq Entry
    BY <1>2, <2>1 DEF Tuple, Ids
  <2> HIDE DEF S
  <2> QED
    BY <2>2, SeqMonotonic
<1> QED
  BY <1>1, <1>3 DEF Shape, TypeOK

\* The types of the accounts, the journal and the fences: the amounts of a year
\* end, computed from whatever the books hold, are numbers.
THEOREM JournalTypeCorrect == Spec => []TypeOK
<1> QED
  BY BooksInit, BooksStep, BooksType, PTL DEF Spec

LEMMA BooksBalanced == Books => BooksBalance
<1> SUFFICES ASSUME Books, NEW y \in Years PROVE TrialBalanceAt(y) = 0
  BY DEF BooksBalance
<1>1. Shape /\ AllBalanced
  BY DEF Books, IInv
<1>2. UpTo(y) \in SUBSET Ids
  BY DEF UpTo
<1> QED
  BY <1>1, <1>2, BalancedAddUp DEF TrialBalanceAt

\* Debits equal credits on the live entries, as of every year's end, after any
\* posting, void, unvoid, move of a line, close, allocation and reopening.
THEOREM BooksAlwaysBalance == Spec => []BooksBalance
BY BooksInit, BooksStep, BooksBalanced, PTL DEF Spec

-----------------------------------------------------------------------------
(***************************************************************************)
(* What a year end posts, in amounts.                                      *)
(***************************************************************************)
LEMMA BooksSums == Books => \A A : \A E \in SUBSET Ids : Sum(E, A) = OnRows(entries, E, A)
  BY RowsAddUp DEF Books, IInv

LEMMA BooksSumsNext == Books' => (\A A : \A E \in SUBSET Ids : Sum(E, A) = OnRows(entries, E, A))'
  BY BooksSums, PTL

LEMMA BooksRows ==
  Books => \A E \in SUBSET Ids : IsFiniteSet(E) /\ \A e \in E : entries[e].lines \in Seq(Line)
  BY RowsAddUp DEF Books, IInv

LEMMA BooksRowsNext ==
  Books' => (\A E \in SUBSET Ids :
               IsFiniteSet(E) /\ \A e \in E : entries[e].lines \in Seq(Line))'
  BY BooksRows, PTL

\* One entry puts what its lines do.
LEMMA OneRow ==
  ASSUME NEW rows, NEW e, NEW A, rows[e].lines \in Seq(Line)
  PROVE  OnRows(rows, {e}, A) = OnLines(rows[e].lines, A)
<1> DEFINE F == [d \in {e} |-> OnLines(rows[d].lines, A)]
<1>1. F[e] = OnLines(rows[e].lines, A) /\ F[e] \in Int
  BY LinesAddUp
<1> HIDE DEF F
<1>2. Total(F, {e}) = F[e]
  BY <1>1, TotalOne
<1> QED
  BY <1>1, <1>2 DEF F, OnRows

\* Entries apart from each other.
LEMMA RowsUnion ==
  ASSUME NEW rows, NEW E, IsFiniteSet(E), NEW D, IsFiniteSet(D), E \cap D = {}, NEW A,
         \A e \in E \cup D : rows[e].lines \in Seq(Line)
  PROVE  OnRows(rows, E \cup D, A) = OnRows(rows, E, A) + OnRows(rows, D, A)
<1> DEFINE F == [e \in E \cup D |-> OnLines(rows[e].lines, A)]
           G == [e \in E |-> OnLines(rows[e].lines, A)]
           H == [e \in D |-> OnLines(rows[e].lines, A)]
<1>1. \A e \in E \cup D : F[e] \in Int
  BY LinesAddUp
<1>2. (\A e \in E : G[e] = F[e]) /\ (\A e \in D : H[e] = F[e])
  OBVIOUS
<1>3. /\ OnRows(rows, E \cup D, A) = Total(F, E \cup D)
      /\ OnRows(rows, E, A) = Total(G, E)
      /\ OnRows(rows, D, A) = Total(H, D)
  BY DEF OnRows
<1> HIDE DEF F, G, H
<1>4. Total(F, E \cup D) = Total(F, E) + Total(F, D)
  BY <1>1, TotalUnion
<1>5. Total(G, E) = Total(F, E) /\ Total(H, D) = Total(F, D)
  BY <1>2, TotalSame
<1> QED
  BY <1>3, <1>4, <1>5

\* Rows with the same lines put the same.
LEMMA SameRows ==
  ASSUME NEW rows, NEW more, NEW E, NEW A, \A e \in E : more[e].lines = rows[e].lines
  PROVE  OnRows(more, E, A) = OnRows(rows, E, A)
<1>1. [e \in E |-> OnLines(more[e].lines, A)] = [e \in E |-> OnLines(rows[e].lines, A)]
  OBVIOUS
<1> QED
  BY <1>1 DEF OnRows

\* Accounts apart from each other.
LEMMA LinesSplit ==
  ASSUME NEW ls \in Seq(Line), NEW A, NEW B, A \cap B = {}
  PROVE  OnLines(ls, A \cup B) = OnLines(ls, A) + OnLines(ls, B)
<1> DEFINE F == Amounts(ls)
           D == {i \in DOMAIN ls : ls[i].account \in A}
           E == {i \in DOMAIN ls : ls[i].account \in B}
           C == {i \in DOMAIN ls : ls[i].account \in A \cup B}
<1>1. IsFiniteSet(DOMAIN ls) /\ \A i \in DOMAIN ls : F[i] \in Int
  BY LinesAddUp
<1>2. IsFiniteSet(D) /\ IsFiniteSet(E)
  <2>1. D \in SUBSET (DOMAIN ls) /\ E \in SUBSET (DOMAIN ls)
    OBVIOUS
  <2> HIDE DEF D, E
  <2> QED
    BY <1>1, <2>1, FS_Subset
<1>3. C = D \cup E /\ D \cap E = {} /\ \A i \in D \cup E : i \in DOMAIN ls
  OBVIOUS
<1>4. /\ OnLines(ls, A) = Total(F, D) /\ OnLines(ls, B) = Total(F, E)
      /\ OnLines(ls, A \cup B) = Total(F, C)
  BY DEF OnLines
<1> HIDE DEF C, D, E, F
<1>5. Total(F, D \cup E) = Total(F, D) + Total(F, E)
  BY <1>1, <1>2, <1>3, TotalUnion
<1> QED
  BY <1>3, <1>4, <1>5

LEMMA RowsSplit ==
  ASSUME NEW rows, NEW E, IsFiniteSet(E), NEW A, NEW B, A \cap B = {},
         \A e \in E : rows[e].lines \in Seq(Line)
  PROVE  OnRows(rows, E, A \cup B) = OnRows(rows, E, A) + OnRows(rows, E, B)
<1> DEFINE F == [e \in E |-> OnLines(rows[e].lines, A)]
           G == [e \in E |-> OnLines(rows[e].lines, B)]
           H == [e \in E |-> OnLines(rows[e].lines, A \cup B)]
<1>1. \A e \in E : F[e] \in Int /\ G[e] \in Int /\ H[e] = F[e] + G[e]
  BY LinesAddUp, LinesSplit
<1>2. /\ OnRows(rows, E, A) = Total(F, E) /\ OnRows(rows, E, B) = Total(G, E)
      /\ OnRows(rows, E, A \cup B) = Total(H, E)
  BY DEF OnRows
<1> HIDE DEF F, G, H
<1> QED
  BY <1>1, <1>2, TotalPlus

\* Nothing on no accounts, or where no line is on them.
LEMMA NoLines ==
  ASSUME NEW rows, NEW E, IsFiniteSet(E), NEW A,
         \A e \in E : \A i \in DOMAIN rows[e].lines : rows[e].lines[i].account \notin A
  PROVE  OnRows(rows, E, A) = 0
<1> DEFINE F == [e \in E |-> OnLines(rows[e].lines, A)]
<1>1. ASSUME NEW e \in E
      PROVE  F[e] = 0
  <2>1. {i \in DOMAIN rows[e].lines : rows[e].lines[i].account \in A} = {}
    OBVIOUS
  <2> QED
    BY <2>1, TotalEmpty DEF OnLines
<1> HIDE DEF F
<1>2. Total(F, E) = 0
  BY <1>1, TotalZero
<1> QED
  BY <1>2 DEF F, OnRows

\* What a set of accounts is given is what each is given.
PutsEach(rows, E, A, F) == \A a \in A : F[a] \in Int /\ F[a] = OnRows(rows, E, {a})

LEMMA AccountsAddUp ==
  ASSUME NEW rows, NEW E, IsFiniteSet(E), NEW A, IsFiniteSet(A),
         \A e \in E : rows[e].lines \in Seq(Line), NEW F, PutsEach(rows, E, A, F)
  PROVE  OnRows(rows, E, A) = Total(F, A)
<1>0. \A a \in A : F[a] \in Int /\ F[a] = OnRows(rows, E, {a})
  BY DEF PutsEach
<1> DEFINE W == {B \in SUBSET A : OnRows(rows, E, B) # Total(F, B)}
<1>1. ASSUME W # {} PROVE FALSE
  <2>1. PICK B \in W : IsFiniteSet(B) /\ \A C \in SUBSET B : C # B => C \notin W
    <3>1. W \subseteq SUBSET A
      OBVIOUS
    <3> HIDE DEF W
    <3> QED
      BY <1>1, <3>1, SmallestSet
  <2>2. CASE B = {}
    <3>1. OnRows(rows, E, B) = 0
      BY <2>2, NoLines
    <3> QED
      BY <2>1, <2>2, <3>1, TotalEmpty
  <2>3. CASE B # {}
    <3>1. PICK a \in B : TRUE
      BY <2>3
    <3> DEFINE C == B \ {a}
    <3>2. OnRows(rows, E, C) = Total(F, C)
      BY <2>1
    <3>3. a \notin C /\ C \cap {a} = {}
      OBVIOUS
    <3>8. B = C \cup {a}
      OBVIOUS
    <3>4. IsFiniteSet(C) /\ (\A b \in C \cup {a} : F[b] \in Int) /\ F[a] = OnRows(rows, E, {a})
      BY <1>0, <2>1, FS_Subset
    <3> HIDE DEF C, W
    <3>5. OnRows(rows, E, C \cup {a}) = OnRows(rows, E, C) + OnRows(rows, E, {a})
      BY <3>3, RowsSplit
    <3>6. Total(F, C \cup {a}) = Total(F, C) + F[a]
      BY <3>3, <3>4, TotalAdd
    <3>7. OnRows(rows, E, B) = Total(F, B)
      BY <3>2, <3>4, <3>5, <3>6, <3>8
    <3> QED
      BY <2>1, <3>7 DEF W
  <2> QED
    BY <2>2, <2>3
<1>2. A \notin W
  BY <1>1
<1> QED
  BY <1>2

\* Two lines, on the accounts they are on.
LEMMA PairPuts ==
  ASSUME NEW a \in Accounts, NEW b \in Accounts, NEW n \in Int, NEW m \in Int, NEW A,
         NEW ls, ls = <<[account |-> a, amount |-> n], [account |-> b, amount |-> m]>>
  PROVE  OnLines(ls, A) = (IF a \in A THEN n ELSE 0) + (IF b \in A THEN m ELSE 0)
<1> DEFINE x == [account |-> a, amount |-> n]
           y == [account |-> b, amount |-> m]
           none == << >>
           one == Append(none, x)
<1>0. \A s \in Seq(Line), z \in Line :
        /\ Append(s, z) \in Seq(Line)
        /\ OnLines(Append(s, z), A) = OnLines(s, A) + (IF z.account \in A THEN z.amount ELSE 0)
  <2> SUFFICES ASSUME NEW s \in Seq(Line), NEW z \in Line
               PROVE  /\ Append(s, z) \in Seq(Line)
                      /\ OnLines(Append(s, z), A)
                           = OnLines(s, A) + (IF z.account \in A THEN z.amount ELSE 0)
    OBVIOUS
  <2> QED
    BY ONLY s \in Seq(Line), z \in Line, AppendPuts
<1>1. x \in Line /\ y \in Line /\ none \in Seq(Line)
  BY EmptySeq DEF Line
<1>2. OnLines(none, A) = 0
  <2>1. {i \in DOMAIN none : none[i].account \in A} = {}
    BY EmptySeq
  <2> QED
    BY <2>1, TotalEmpty DEF OnLines
<1>3. ls = Append(one, y)
  OBVIOUS
<1>4. /\ x.account = a /\ x.amount = n
      /\ y.account = b /\ y.amount = m
  OBVIOUS
<1> HIDE DEF x, y, none
<1>5. one \in Seq(Line) /\ OnLines(one, A) = OnLines(none, A) + (IF x.account \in A THEN x.amount ELSE 0)
  BY ONLY <1>0, <1>1
<1> HIDE DEF one
<1> DEFINE two == Append(one, y)
<1>6. two \in Seq(Line) /\ OnLines(two, A) = OnLines(one, A) + (IF y.account \in A THEN y.amount ELSE 0)
  BY ONLY <1>0, <1>1, <1>5
<1>7. ls = two
  BY <1>3
<1> HIDE DEF two
<1>8. OnLines(ls, A) = OnLines(two, A)
  BY ONLY <1>7
<1> QED
  BY ONLY <1>2, <1>4, <1>5, <1>6, <1>8, n \in Int, m \in Int

\* What an allocation puts where the result was.
LEMMA AllocationPuts ==
  ASSUME NEW y, NEW a \in Equity \ {Capital}, NEW net \in Int, NEW ls,
         ls = AllocationEntry(y, a, net).lines
  PROVE  /\ ls \in Seq(Line)
         /\ OnLines(ls, Equity \ {Capital}) = net
<1>1. a \in Accounts /\ Capital \in Accounts /\ -net \in Int
  BY JournalAssumption DEF Equity
<1>2. ls = <<[account |-> a, amount |-> net], [account |-> Capital, amount |-> -net]>>
  BY DEF AllocationEntry
<1> DEFINE A == Equity \ {Capital}
<1>3. a \in A /\ Capital \notin A
  OBVIOUS
<1> HIDE DEF A
<1>4. OnLines(ls, A) = (IF a \in A THEN net ELSE 0) + (IF Capital \in A THEN -net ELSE 0)
  BY <1>1, <1>2, PairPuts
<1>5. OnLines(ls, A) = net
  BY <1>3, <1>4
<1>6. ls \in Seq(Line)
  BY <1>1, <1>2 DEF Line
<1> QED
  BY <1>5, <1>6 DEF A

\* A closed year admits its allocation, and nothing else.
Admitted(y, e) ==
  /\ entries'[e].ref = AllocationRef(y)
  /\ LiveWith(AllocationRef(y)) = {}
  /\ \A c \in LiveWith(CloseRef(y)) : Sum({e}, Equity \ {Capital})' = Result(c)

LEMMA AllocationAdmitted ==
  ASSUME Books, Books', NEW z \in Years, AllocateToPartners(z),
         NEW e \in Ids' \ Ids, NEW y \in Years, entries'[e].date = y
  PROVE  Admitted(y, e)
<1>1. Shape /\ AllBalanced /\ AllNamed /\ RefsUnique
  BY DEF Books, IInv
<1>2. PICK c \in LiveWith(CloseRef(z)) : \E a \in YearAccounts(c) :
        /\ Unfenced(AllocationEntry(entries[c].date, a, Result(c)))
        /\ Post(<<AllocationEntry(entries[c].date, a, Result(c))>>)
  BY DEF AllocateToPartners
<1>3. PICK a \in YearAccounts(c) :
        /\ Unfenced(AllocationEntry(entries[c].date, a, Result(c)))
        /\ Post(<<AllocationEntry(entries[c].date, a, Result(c))>>)
  BY <1>2
<1>4. /\ c \in Ids /\ entries[c].ref = CloseRef(z) /\ ~entries[c].void
      /\ entries[c].date = z
      /\ a \in Equity \ {Capital}
  BY <1>1 DEF LiveWith, Live, AllNamed, Named, YearAccounts
<1>5. Result(c) \in Int
  <2>1. {c} \in SUBSET Ids
    BY <1>4
  <2> QED
    BY <1>1, <2>1, RowsAddUp DEF Result
<1> DEFINE r == AllocationEntry(z, a, Result(c))
<1>6. r.date = z /\ r.ref = AllocationRef(z)
  BY DEF AllocationEntry
<1>7. Unfenced(r) /\ Post(<<r>>)
  BY <1>3, <1>4
<1>8. entries'[e] = r
  <2> HIDE DEF r
  <2>1. Tuple(<<r>>) /\ \A i \in DOMAIN <<r>> : <<r>>[i] = r
    BY Tuples
  <2> QED
    BY <1>1, <1>7, <2>1, PostKeeps
<1>9. y = z
  BY <1>6, <1>8
<1>10. LiveWith(AllocationRef(y)) = {}
  BY <1>6, <1>7, <1>9, RefsDiffer DEF Unfenced, RefFree
<1>11. \A d \in LiveWith(CloseRef(y)) : d = c
  BY <1>1, <1>4, <1>9, RefsDiffer DEF RefsUnique, LiveWith, Live
<1>12. Sum({e}, Equity \ {Capital})' = Result(c)
  <2> DEFINE A == Equity \ {Capital}
             ls == entries'[e].lines
  <2>1. ls \in Seq(Line) /\ OnLines(ls, A) = Result(c)
    <3>1. ls = AllocationEntry(z, a, Result(c)).lines
      BY <1>8
    <3>2. \A b \in Equity \ {Capital}, n \in Int : \A s :
            s = AllocationEntry(z, b, n).lines
              => s \in Seq(Line) /\ OnLines(s, Equity \ {Capital}) = n
      BY AllocationPuts
    <3>3. a \in Equity \ {Capital}
      BY <1>4
    <3> HIDE DEF ls
    <3> QED
      BY ONLY <1>5, <3>1, <3>2, <3>3
  <2>2. {e} \in SUBSET Ids'
    OBVIOUS
  <2>3. (\A B : \A E \in SUBSET Ids : Sum(E, B) = OnRows(entries, E, B))'
    BY BooksSumsNext
  <2>4. Sum({e}, A)' = OnRows(entries', {e}, A)
    BY <2>2, <2>3
  <2>5. OnRows(entries', {e}, A) = OnLines(entries'[e].lines, A)
    BY <2>1, OneRow
  <2> QED
    BY <2>1, <2>4, <2>5
<1> QED
  BY <1>6, <1>8, <1>9, <1>10, <1>11, <1>12 DEF Admitted

LEMMA FenceStep ==
  ASSUME Books, Books', [Next]_vars, NEW y \in closed \cap closed',
         NEW e \in Ids' \ Ids, entries'[e].date = y
  PROVE  Admitted(y, e)
<1>0. Shape /\ y \in Years
  BY DEF Books, IInv, Shape
<1>1. ASSUME NEW z \in Years, NEW p \in Postings, PostEntry(z, p)
      PROVE  FALSE
  <2> DEFINE r == Manual(z, p)
  <2>1. Post(<<r>>) /\ r.date \notin closed
    BY <1>1 DEF PostEntry, MayPost
  <2> HIDE DEF r
  <2>2. Tuple(<<r>>) /\ \A i \in DOMAIN <<r>> : <<r>>[i] = r
    BY Tuples
  <2> QED
    BY <1>0, <2>1, <2>2, PostKeeps
<1>2. ASSUME NEW z \in Years, NEW a \in ClosedInto, CloseBooks(z, a)
      PROVE  FALSE
  <2>1. ASSUME NEW es, Tuple(es), CloseWith(z, a, es)
        PROVE  FALSE
    BY <1>0, <2>1, PostKeeps DEF CloseWith, MayPost
  <2>2. Tuple(ToAccount(z, a)) /\ Tuple(ToPartner(z, a))
    BY Tuples DEF ToAccount, ToPartner
  <2> QED
    BY <1>2, <2>1, <2>2 DEF CloseBooks
<1>3. ASSUME NEW z \in Years, AllocateToPartners(z)
      PROVE  Admitted(y, e)
  BY <1>0, <1>3, AllocationAdmitted
<1> QED
  BY <1>1, <1>2, <1>3
     DEF Next, vars, CreateAccount, DeactivateAccount, ReactivateAccount, DeleteAccount, Delete,
         VoidEntry, VoidAny, UnvoidEntry, UnvoidAny, SetVoid, ReassignLine, ReopenBooks,
         ReopenVoiding, Ids

\* allocate_to_partners posts past the fence, once, and moves from the account
\* the close filled what that close put there.  No other command posts into a
\* year that is closed and stays so.
THEOREM FenceHolds == Spec => FenceAdmitsAllocation
<1>1. Books /\ Books' /\ [Next]_vars =>
        [\A y \in closed \cap closed' : \A e \in DOMAIN entries' \ Ids :
           entries'[e].date = y =>
             /\ entries'[e].ref = AllocationRef(y)
             /\ LiveWith(AllocationRef(y)) = {}
             /\ \A c \in LiveWith(CloseRef(y)) :
                  Sum({e}, Equity \ {Capital})' = Result(c)]_vars
  BY FenceStep DEF Admitted, Ids
<1> QED
  BY <1>1, BooksInit, BooksStep, PTL DEF Spec, FenceAdmitsAllocation

-----------------------------------------------------------------------------
(***************************************************************************)
(* A close sweeps its year.  The year before is swept already, and nothing *)
(* dated in the year is its closing entry, so all that is on income        *)
(* accounts at its end came there in the year.                             *)
(***************************************************************************)

\* An income account that is not swept holds nothing: a deleted one has no lines.
LEMMA UnsweptIsZero ==
  ASSUME Books, NEW z, NEW a \in Income, a \notin Swept(z)
  PROVE  Balance(a, z) = 0
<1>1. UpTo(z) \in SUBSET Ids
  BY DEF UpTo
<1>2. CASE status[a] \in {"active", "inactive"}
  BY <1>2 DEF Swept
<1>3. CASE status[a] \notin {"active", "inactive"}
  <2>1. ~Names(Ids, a)
    BY <1>3 DEF Books, IInv, LinesHaveAccounts, Income
  <2>2. \A e \in UpTo(z) : \A i \in DOMAIN entries[e].lines : entries[e].lines[i].account \notin {a}
    BY <1>1, <2>1 DEF Names
  <2>3. IsFiniteSet(UpTo(z)) /\ Sum(UpTo(z), {a}) = OnRows(entries, UpTo(z), {a})
    BY <1>1, RowsAddUp DEF Books, IInv
  <2>4. OnRows(entries, UpTo(z), {a}) = 0
    BY <2>2, <2>3, NoLines
  <2> QED
    BY <2>3, <2>4 DEF Balance
<1> QED
  BY <1>2, <1>3

\* What the income accounts hold together is what the sweep finds on them.
LEMMA IncomeAt ==
  ASSUME Books, NEW z
  PROVE  Sum(UpTo(z), Income) = Total([a \in Swept(z) |-> Balance(a, z)], Swept(z))
<1> DEFINE F == [a \in Income |-> Balance(a, z)]
           G == [a \in Swept(z) |-> Balance(a, z)]
           S == Swept(z)
           R == Income \ Swept(z)
<1>1. UpTo(z) \in SUBSET Ids /\ Shape /\ AllBalanced
  BY DEF UpTo, Books, IInv
<1>2. IsFiniteSet(S) /\ S \subseteq Income /\ IsFiniteSet(Income)
  BY <1>1, NetIncomeIs, JournalAssumption, FS_Subset DEF Income
<1>3. S \cup R = Income /\ S \cap R = {} /\ IsFiniteSet(R)
  BY <1>2, FS_Subset
<1>4. /\ IsFiniteSet(UpTo(z))
      /\ Sum(UpTo(z), Income) = OnRows(entries, UpTo(z), Income)
      /\ \A e \in UpTo(z) : entries[e].lines \in Seq(Line)
  BY <1>1, RowsAddUp
<1>5. \A a \in Income : F[a] \in Int /\ F[a] = OnRows(entries, UpTo(z), {a})
  <2> SUFFICES ASSUME NEW a \in Income
               PROVE  Balance(a, z) \in Int /\ Balance(a, z) = OnRows(entries, UpTo(z), {a})
    OBVIOUS
  <2>1. Balance(a, z) = Sum(UpTo(z), {a})
    BY DEF Balance
  <2> QED
    BY <1>1, <2>1, RowsAddUp
<1>6. \A a \in R : F[a] = 0
  BY UnsweptIsZero
<1>7. \A a \in S : G[a] = F[a]
  BY <1>2
<1> HIDE DEF F, G, S, R
<1>8. OnRows(entries, UpTo(z), Income) = Total(F, Income)
  <2>1. PutsEach(entries, UpTo(z), Income, F)
    BY <1>5 DEF PutsEach
  <2> QED
    BY <1>2, <1>4, <2>1, AccountsAddUp
<1>9. Total(F, S \cup R) = Total(F, S) + Total(F, R)
  <2>1. \A a \in S \cup R : F[a] \in Int
    BY <1>3, <1>5
  <2> QED
    BY <1>2, <1>3, <2>1, TotalUnion
<1>10. Total(F, R) = 0
  BY <1>3, <1>6, TotalZero
<1>11. Total(G, S) = Total(F, S) /\ Total(F, S) \in Int
  <2>1. \A a \in S : F[a] \in Int
    BY <1>2, <1>5
  <2>2. Total(F, S) \in Int
    BY <1>2, <2>1, TotalInt
  <2> QED
    BY <1>2, <1>7, <2>2, TotalSame
<1>12. Total(F, Income) = Total(F, S \cup R)
  BY <1>3
<1>13. Sum(UpTo(z), Income) = Total(G, S)
  BY <1>4, <1>8, <1>9, <1>10, <1>11, <1>12
<1> QED
  BY <1>13 DEF G, S

\* A year holds on income what was there at its start and what moved in it.
LEMMA YearSplit ==
  ASSUME Books, NEW y \in Years
  PROVE  Sum(UpTo(y), Income) = Sum(UpTo(y - 1), Income) + Movement(y)
<1> DEFINE P == UpTo(y - 1)
           M == {e \in Ids : Live(e) /\ entries[e].date = y}
<1>1. Shape /\ AllBalanced /\ y \in Int
  BY DEF Books, IInv, Years
<1>2. \A e \in Ids : entries[e].date \in Int
  BY <1>1 DEF Shape, EntryShape, Years
<1>3. UpTo(y) = P \cup M /\ P \cap M = {}
  BY <1>1, <1>2 DEF UpTo
<1>4. P \in SUBSET Ids /\ M \in SUBSET Ids
  BY DEF UpTo
<1>5. Movement(y) = Sum(M, Income)
  BY DEF Movement
<1> HIDE DEF P, M
<1>6. \A E \in SUBSET Ids : /\ IsFiniteSet(E)
                           /\ Sum(E, Income) = OnRows(entries, E, Income)
                           /\ \A e \in E : entries[e].lines \in Seq(Line)
  BY <1>1, RowsAddUp
<1>7. OnRows(entries, P \cup M, Income) = OnRows(entries, P, Income) + OnRows(entries, M, Income)
  <2>1. \A e \in P \cup M : entries[e].lines \in Seq(Line)
    BY <1>4, <1>6
  <2> QED
    BY <1>3, <1>4, <1>6, <2>1, RowsUnion
<1>8. /\ Sum(P, Income) = OnRows(entries, P, Income)
      /\ Sum(M, Income) = OnRows(entries, M, Income)
      /\ Sum(P \cup M, Income) = OnRows(entries, P \cup M, Income)
  BY <1>4, <1>6
<1> QED
  BY <1>3, <1>5, <1>7, <1>8 DEF P

\* What the closing entry puts on income accounts, the allocation left out.
LEMMA SweepClears ==
  ASSUME Books, NEW y, NEW a \in Equity
  PROVE  /\ ClosingLines(y, a) \in Seq(Line)
         /\ OnLines(ClosingLines(y, a), Income) = -Sum(UpTo(y), Income)
         /\ \A b \in Income : OnLines(ClosingLines(y, a), {b}) = -Balance(b, y)
<1>1. Shape /\ AllBalanced /\ a \in Accounts /\ a \notin Income
  BY DEF Books, IInv, Equity, Income
<1> DEFINE B == [b \in Swept(y) |-> Balance(b, y)]
           ls == ClosingLines(y, a)
<1>2. /\ ls \in Seq(Line)
      /\ \A A : a \notin A => OnLines(ls, A) = -Total(B, Swept(y) \cap A)
  <2>1. /\ BalancedLines(ls)
        /\ \A A : a \notin A => OnLines(ls, A) = OnLines(SweepLines(y), A)
    BY <1>1, ClosingPuts
  <2>2. \A A : OnLines(SweepLines(y), A) = -Total(B, Swept(y) \cap A)
    BY <1>1, SweepPuts
  <2> HIDE DEF B, ls
  <2> QED
    BY <2>1, <2>2 DEF BalancedLines
<1>3. OnLines(ls, Income) = -Sum(UpTo(y), Income)
  <2>1. Swept(y) \cap Income = Swept(y)
    BY DEF Swept
  <2>2. Sum(UpTo(y), Income) = Total(B, Swept(y))
    BY IncomeAt
  <2> HIDE DEF B, ls
  <2> QED
    BY <1>1, <1>2, <2>1, <2>2
<1>4. ASSUME NEW b \in Income
      PROVE  OnLines(ls, {b}) = -Balance(b, y)
  <2>1. OnLines(ls, {b}) = -Total(B, Swept(y) \cap {b})
    <3> HIDE DEF B, ls
    <3> QED
      BY <1>1, <1>2
  <2>2. Balance(b, y) \in Int
    BY <1>1, BalanceInt
  <2>3. CASE b \in Swept(y)
    <3>1. Swept(y) \cap {b} = {b} /\ B[b] = Balance(b, y)
      BY <2>3
    <3> HIDE DEF B, ls
    <3>2. Total(B, {b}) = B[b]
      BY <2>2, <3>1, TotalOne
    <3> QED
      BY <2>1, <2>2, <3>1, <3>2
  <2>4. CASE b \notin Swept(y)
    <3>1. Swept(y) \cap {b} = {}
      BY <2>4
    <3>2. Total(B, {}) = 0
      BY TotalEmpty
    <3>3. Balance(b, y) = 0
      BY <2>4, UnsweptIsZero
    <3> HIDE DEF B, ls
    <3> QED
      BY <2>1, <3>1, <3>2, <3>3
  <2> QED
    BY <2>3, <2>4
<1> QED
  BY <1>2, <1>3, <1>4

\* What a close posts in its year: the closing entry, and what is off the
\* income accounts.
LEMMA ClosePosts ==
  ASSUME Books, Books', NEW y \in Years, NEW a \in ClosedInto, CloseBooks(y, a),
         NEW k, k = Len(entries) + 1
  PROVE  /\ k \in Ids' \ Ids
         /\ entries'[k] = ClosingEntry(y, a)
         /\ LiveWith(CloseRef(y))' = {k}
         /\ UpTo(y)' = UpTo(y) \cup (Ids' \ Ids)
         /\ \A e \in Ids : e \in Ids' /\ entries'[e] = entries[e]
         /\ \A e \in (Ids' \ Ids) \ {k} :
              \A i \in DOMAIN entries'[e].lines : entries'[e].lines[i].account \notin Income
<1> DEFINE c == ClosingEntry(y, a)
           d == AllocationEntry(y, a, NetIncome(y))
<1>0. Shape /\ IInv
  BY DEF Books, IInv
<1>1. /\ c.date = y /\ ~c.void /\ c.ref = CloseRef(y)
      /\ d.date = y /\ ~d.void
  BY DEF ClosingEntry, AllocationEntry
<1>2. \A i \in DOMAIN d.lines : d.lines[i].account \notin Income
  <2>1. a \notin Income /\ Capital \notin Income
    BY JournalAssumption DEF Income
  <2> DEFINE ls == <<[account |-> a, amount |-> NetIncome(y)],
                     [account |-> Capital, amount |-> -NetIncome(y)]>>
  <2>2. d.lines = ls /\ \A i \in DOMAIN ls : ls[i].account \in {a, Capital}
    BY DEF AllocationEntry
  <2> HIDE DEF d, ls
  <2> QED
    BY <2>1, <2>2
<1>3. PICK es \in {<<c>>, <<c, d>>} : Post(es) /\ closed' = closed \cup {y}
  BY DEF CloseBooks, CloseWith, ToAccount, ToPartner
<1> HIDE DEF c, d
<1>4. /\ Tuple(es) /\ Len(es) \in Nat /\ 1 \in DOMAIN es /\ es[1] = c /\ Len(es) >= 1
      /\ \A i \in DOMAIN es : i # 1 => es[i] = d
      /\ \A i \in DOMAIN es : es[i] \in {c, d}
  <2>1. /\ Tuple(<<c>>) /\ Len(<<c>>) = 1 /\ DOMAIN <<c>> = {1} /\ <<c>>[1] = c
        /\ Tuple(<<c, d>>) /\ Len(<<c, d>>) = 2 /\ DOMAIN <<c, d>> = {1, 2}
        /\ <<c, d>>[1] = c /\ <<c, d>>[2] = d
    BY Tuples
  <2>2. CASE es = <<c>>
    BY <2>1, <2>2
  <2>3. CASE es = <<c, d>>
    BY <2>1, <2>3
  <2> QED
    BY <2>2, <2>3
<1>5. /\ Len(entries) \in Nat /\ Ids = 1..Len(entries)
      /\ Ids' = 1..(Len(entries) + Len(es))
      /\ \A e \in Ids : e \in Ids' /\ entries'[e] = entries[e]
      /\ \A e \in Ids' \ Ids : \E i \in DOMAIN es : e = Len(entries) + i /\ entries'[e] = es[i]
  BY <1>0, <1>3, <1>4, PostKeeps
<1>6. k \in Ids' \ Ids
  BY <1>4, <1>5
<1>7. entries'[k] = c
  <2>1. PICK i \in DOMAIN es : k = Len(entries) + i /\ entries'[k] = es[i]
    BY <1>5, <1>6
  <2>2. i \in Int
    BY <1>4, LenProperties DEF Tuple
  <2>3. i = 1
    BY <1>5, <2>1, <2>2
  <2> QED
    BY <1>4, <2>1, <2>3
<1>8. \A e \in (Ids' \ Ids) \ {k} : entries'[e] = d
  BY <1>4, <1>5
<1>9. UpTo(y)' = UpTo(y) \cup (Ids' \ Ids)
  <2>1. \A e \in Ids' \ Ids : ~entries'[e].void /\ entries'[e].date = y
    BY <1>1, <1>4, <1>5
  <2>2. y <= y /\ Ids \subseteq Ids'
    BY <1>5 DEF Years
  <2>3. \A e \in Ids' : e \in UpTo(y)' <=> ~entries'[e].void /\ entries'[e].date <= y
    BY DEF UpTo, Live
  <2>4. \A e \in Ids : e \in UpTo(y) <=> ~entries[e].void /\ entries[e].date <= y
    BY DEF UpTo, Live
  <2>5. UpTo(y)' \subseteq Ids' /\ UpTo(y) \subseteq Ids
    BY DEF UpTo
  <2>6. \A e \in Ids' : e \in UpTo(y)' <=> e \in UpTo(y) \/ e \in Ids' \ Ids
    BY <1>5, <2>1, <2>2, <2>3, <2>4, <2>5
  <2> QED
    BY <2>2, <2>5, <2>6
<1>10. LiveWith(CloseRef(y))' = {k}
  <2>1. ClosedHasItsEntry'
    BY DEF Books, IInv
  <2>2. PICK e \in Ids' : LiveWith(CloseRef(y))' = {e}
    BY <1>3, <2>1 DEF ClosedHasItsEntry
  <2>3. k \in LiveWith(CloseRef(y))'
    BY <1>1, <1>6, <1>7 DEF LiveWith, Live, CloseRef
  <2> QED
    BY <2>2, <2>3
<1> QED
  BY <1>2, <1>5, <1>6, <1>7, <1>8, <1>9, <1>10 DEF c

\* What the close adds to an income account, and to all of them.
LEMMA CloseAdds ==
  ASSUME Books, Books', NEW y \in Years, NEW a \in ClosedInto, CloseBooks(y, a),
         NEW A, A \subseteq Income
  PROVE  Sum(UpTo(y), A)' = Sum(UpTo(y), A) + OnLines(ClosingLines(y, a), A)
<1> DEFINE k == Len(entries) + 1
           U == UpTo(y)
           New == Ids' \ Ids
           R == New \ {k}
<1>0. Shape /\ AllBalanced /\ a \in Equity
  BY JournalAssumption DEF Books, IInv, Equity
<1>1. /\ k \in New
      /\ entries'[k] = ClosingEntry(y, a)
      /\ UpTo(y)' = U \cup New
      /\ \A e \in Ids : e \in Ids' /\ entries'[e] = entries[e]
      /\ \A e \in R : \A i \in DOMAIN entries'[e].lines : entries'[e].lines[i].account \notin A
  BY ClosePosts
<1>2. U \in SUBSET Ids /\ U \cap New = {} /\ New = {k} \cup R /\ {k} \cap R = {}
      /\ U \in SUBSET Ids' /\ New \in SUBSET Ids' /\ R \in SUBSET Ids' /\ {k} \in SUBSET Ids'
  BY <1>1 DEF UpTo
<1>3. UpTo(y)' \in SUBSET Ids'
  BY <1>1, <1>2
<1>4. entries'[k].lines = ClosingLines(y, a)
  BY <1>1 DEF ClosingEntry
<1>5. \A E \in SUBSET Ids' : IsFiniteSet(E) /\ \A e \in E : entries'[e].lines \in Seq(Line)
  BY BooksRowsNext
<1>6. Sum(UpTo(y), A)' = OnRows(entries', UpTo(y)', A)
  BY <1>3, BooksSumsNext
<1>7. Sum(UpTo(y), A) = OnRows(entries, U, A) /\ Sum(UpTo(y), A) \in Int
  BY <1>0, <1>2, RowsAddUp
<1>8. ClosingLines(y, a) \in Seq(Line) /\ OnLines(ClosingLines(y, a), A) \in Int
  BY <1>0, SweepClears, LinesAddUp
<1> HIDE DEF k, U, New, R
<1>9. OnRows(entries', U, A) = OnRows(entries, U, A)
  BY <1>1, <1>2, SameRows
<1>10. OnRows(entries', U \cup New, A) = OnRows(entries', U, A) + OnRows(entries', New, A)
  <2>1. /\ IsFiniteSet(U) /\ IsFiniteSet(New) /\ U \cap New = {}
        /\ \A e \in U \cup New : entries'[e].lines \in Seq(Line)
    BY <1>2, <1>5
  <2> QED
    BY ONLY <2>1, RowsUnion
<1>11. OnRows(entries', {k} \cup R, A) = OnRows(entries', {k}, A) + OnRows(entries', R, A)
  <2> DEFINE K == {k}
  <2>1. /\ IsFiniteSet(K) /\ IsFiniteSet(R) /\ K \cap R = {}
        /\ \A e \in K \cup R : entries'[e].lines \in Seq(Line)
    BY <1>2, <1>5
  <2> HIDE DEF K
  <2>2. OnRows(entries', K \cup R, A) = OnRows(entries', K, A) + OnRows(entries', R, A)
    BY ONLY <2>1, RowsUnion
  <2> QED
    BY <2>2 DEF K
<1>12. OnRows(entries', R, A) = 0
  BY <1>1, <1>2, <1>5, NoLines
<1>13. OnRows(entries', {k}, A) = OnLines(ClosingLines(y, a), A)
  <2>1. entries'[k].lines \in Seq(Line)
    BY <1>4, <1>8
  <2>2. OnRows(entries', {k}, A) = OnLines(entries'[k].lines, A)
    BY <2>1, OneRow
  <2> QED
    BY <1>4, <2>2
<1>14. OnRows(entries', UpTo(y)', A) = OnRows(entries', U \cup New, A)
  BY <1>1
<1>15. OnRows(entries', New, A) = OnRows(entries', {k} \cup R, A)
  BY <1>2
<1> QED
  BY <1>6, <1>7, <1>8, <1>9, <1>10, <1>11, <1>12, <1>13, <1>14, <1>15

\* The close's own lines take every income account to zero.
LEMMA CloseClears ==
  ASSUME Books, Books', NEW y \in Years, NEW a \in ClosedInto, CloseBooks(y, a)
  PROVE  \A b \in Income : Balance(b, y)' = 0
<1>1. Shape /\ AllBalanced /\ a \in Equity
  BY JournalAssumption DEF Books, IInv, Equity
<1>2. ASSUME NEW b \in Income
      PROVE  Balance(b, y)' = 0
  <2>1. Sum(UpTo(y), {b})' = Sum(UpTo(y), {b}) + OnLines(ClosingLines(y, a), {b})
    BY CloseAdds
  <2>2. OnLines(ClosingLines(y, a), {b}) = -Balance(b, y) /\ Balance(b, y) \in Int
    BY <1>1, SweepClears, BalanceInt
  <2>3. Balance(b, y) = Sum(UpTo(y), {b}) /\ Balance(b, y)' = Sum(UpTo(y), {b})'
    BY DEF Balance
  <2> QED
    BY <2>1, <2>2, <2>3
<1> QED
  BY <1>2

LEMMA CloseSweeps ==
  ASSUME Books, Books', NEW y \in Years, NEW a \in ClosedInto, CloseBooks(y, a)
  PROVE  /\ \A b \in Income : Balance(b, y)' = 0
         /\ \A e \in LiveWith(CloseRef(y))' : Result(e)' = -Movement(y)
<1>1. Shape /\ AllBalanced /\ a \in Equity
  BY JournalAssumption DEF Books, IInv, Equity
<1>2. OpeningIsClear(y) /\ LiveWith(CloseRef(y)) = {}
  BY DEF CloseBooks, CanClose, CloseWith
<1>3. \A b \in Income : Balance(b, y)' = 0
  BY CloseClears
<1>4. ASSUME NEW e \in LiveWith(CloseRef(y))'
      PROVE  Result(e)' = -Movement(y)
  <2> DEFINE k == Len(entries) + 1
             ls == ClosingLines(y, a)
  <2>1. /\ e = k /\ k \in Ids'
        /\ entries'[k].lines = ls
    <3>1. /\ k \in Ids' /\ LiveWith(CloseRef(y))' = {k}
          /\ entries'[k] = ClosingEntry(y, a)
      BY ClosePosts
    <3> HIDE DEF k
    <3>2. ClosingEntry(y, a).lines = ls
      BY DEF ClosingEntry
    <3>3. e = k
      BY <1>4, <3>1
    <3> QED
      BY <3>1, <3>2, <3>3
  <2>2. /\ ls \in Seq(Line)
        /\ OnLines(ls, Income) = -Sum(UpTo(y), Income)
    BY <1>1, SweepClears
  <2>3. Result(e)' = OnLines(ls, Income)
    <3>1. {e} \in SUBSET Ids'
      BY <2>1
    <3>2. (\A A : \A E \in SUBSET Ids : Sum(E, A) = OnRows(entries, E, A))'
      BY BooksSumsNext
    <3>3. Sum({e}, Income)' = OnRows(entries', {e}, Income)
      BY <3>1, <3>2
    <3>4. entries'[e].lines = ls
      BY <2>1
    <3>5. OnRows(entries', {e}, Income) = OnLines(entries'[e].lines, Income)
      BY <2>2, <3>4, OneRow
    <3> QED
      BY <3>3, <3>4, <3>5 DEF Result
  <2>4. Sum(UpTo(y), Income) = Sum(UpTo(y - 1), Income) + Movement(y)
    BY <1>2, YearSplit
  <2>5. Sum(UpTo(y - 1), Income) = 0
    <3>1. Swept(y - 1) = {}
      BY <1>2 DEF OpeningIsClear
    <3>2. Sum(UpTo(y - 1), Income)
            = Total([b \in Swept(y - 1) |-> Balance(b, y - 1)], Swept(y - 1))
      BY IncomeAt
    <3> QED
      BY <3>1, <3>2, TotalEmpty
  <2>6. Movement(y) \in Int
    <3> DEFINE M == {d \in Ids : Live(d) /\ entries[d].date = y}
    <3>1. M \in SUBSET Ids /\ Movement(y) = Sum(M, Income)
      BY DEF Movement
    <3> HIDE DEF M
    <3> QED
      BY <1>1, <3>1, RowsAddUp
  <2> QED
    BY <2>2, <2>3, <2>4, <2>5, <2>6
<1> QED
  BY <1>3, <1>4

\* Nothing but a close raises a fence.
LEMMA OnlyClosing ==
  ASSUME [Next]_vars, NEW y \in Years, Closing(y)
  PROVE  \E a \in ClosedInto : CloseBooks(y, a)
<1>1. ASSUME NEW z \in Years, NEW a \in ClosedInto, CloseBooks(z, a)
      PROVE  z = y
  BY <1>1 DEF CloseBooks, CloseWith, Closing
<1> QED
  BY <1>1 DEF Next, vars, Closing, CreateAccount, DeactivateAccount, ReactivateAccount,
       DeleteAccount, Delete, PostEntry, VoidEntry, VoidAny, UnvoidEntry, UnvoidAny,
       ReassignLine, AllocateToPartners, ReopenBooks, ReopenVoiding

\* A close leaves every income account at zero at the year's end and carries
\* forward what its own year's entries put on them, whatever was voided,
\* unvoided, reopened and moved before, onto whatever accounts.
THEOREM CloseSweepsTheYear == Spec => CloseSweepsItsYear
<1>1. Books /\ Books' /\ [Next]_vars =>
        [\A y \in Years : Closing(y) =>
           /\ \A a \in Income : Balance(a, y)' = 0
           /\ \A e \in LiveWith(CloseRef(y))' : Result(e)' = -Movement(y)]_vars
  BY OnlyClosing, CloseSweeps
<1> QED
  BY <1>1, BooksInit, BooksStep, PTL DEF Spec, CloseSweepsItsYear

=============================================================================
