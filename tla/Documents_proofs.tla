--------------------------- MODULE Documents_proofs ---------------------------
(***************************************************************************)
(* Proofs about bills and invoices, over any journal, any documents issued *)
(* and any accounts they are paid from.                                    *)
(***************************************************************************)
EXTENDS Documents, Journal_proofs

(***************************************************************************)
(* The invariant.  Every entry is of one document at most, of which it is  *)
(* the entry or that of one payment; rows add up; and an entry no journal  *)
(* command has changed still puts on the document's accounts what it was   *)
(* posted for.                                                             *)
(***************************************************************************)
DocShape ==
  /\ documents \in Seq(Document)
  /\ touched \subseteq Ids
  /\ \A d \in Docs : /\ documents[d].amount # 0
                     /\ IsFiniteSet(documents[d].payments)
                     /\ documents[d].entry \in Ids
                     /\ entries[documents[d].entry].ref \notin YearRefs
                     /\ \A p \in documents[d].payments : p[1] \in Ids

Apart ==
  /\ \A c, d \in Docs : \A e \in EntriesOf(c) : c # d => e \notin EntriesOf(d)
  /\ \A d \in Docs : \A p \in documents[d].payments :
       /\ p[1] # documents[d].entry
       /\ \A q \in documents[d].payments : p[1] = q[1] => p = q

RowAddsUp(doc) ==
  /\ doc.paid = Total(Seconds(doc.payments), doc.payments)
  /\ doc.paid <= doc.amount
  /\ doc.paid = 0 => doc.payments = {}
  /\ IF doc.status = "void" THEN doc.paid = 0 ELSE doc.status = StatusFor(doc.amount, doc.paid)

RowsAgree == \A d \in Docs : RowAddsUp(documents[d])

Papers == DocShape /\ Apart /\ RowsAgree

DocBooks == Books /\ Papers

\* What an entry puts on the accounts of a kind of document.
Puts(e, kind) == OnLines(entries[e].lines, Control[kind])

\* In the ledger's sign, as Signed has it.
Side(kind, n) == IF kind = "bill" THEN -n ELSE n

EntryStands(d) ==
  documents[d].entry \notin touched =>
    /\ Live(documents[d].entry) <=> documents[d].status # "void"
    /\ Puts(documents[d].entry, documents[d].kind) = Side(documents[d].kind, documents[d].amount)

PaymentStands(d, p) ==
  p[1] \notin touched => Live(p[1]) /\ Puts(p[1], documents[d].kind) = -Side(documents[d].kind, p[2])

AsPosted ==
  \A d \in Docs : EntryStands(d) /\ \A p \in documents[d].payments : PaymentStands(d, p)

-----------------------------------------------------------------------------

\* An entry of two lines, as documents post them.
IsPair(r, ref, a, b, n) ==
  /\ Unfenced(r) => Postable(r)
  /\ BalancedLines(r.lines)
  /\ r.ref = ref /\ r.void = FALSE
  /\ \A A : OnLines(r.lines, A) = (IF a \in A THEN n ELSE 0) + (IF b \in A THEN -n ELSE 0)

LEMMA TwoLinesPost ==
  \A y \in Years, ref \in Refs \cup {NoRef}, a \in Accounts, b \in Accounts, n \in Nat :
    IsPair(TwoLines(y, ref, a, b, n), ref, a, b, n)
<1> SUFFICES ASSUME NEW y \in Years, NEW ref \in Refs \cup {NoRef}, NEW a \in Accounts,
                    NEW b \in Accounts, NEW n \in Nat, NEW r, r = TwoLines(y, ref, a, b, n)
             PROVE  IsPair(r, ref, a, b, n)
  OBVIOUS
<1> DEFINE lines == <<[account |-> a, amount |-> n], [account |-> b, amount |-> -n]>>
<1>1. r = [date |-> y, source |-> "manual", ref |-> ref, void |-> FALSE, lines |-> lines]
  BY DEF TwoLines
<1>2. LinesShape(lines)
  BY DEF LinesShape, LineShape
<1>3. BalancedLines(lines)
  <2>1. n \in Int /\ -n \in Int /\ n + (-n) = 0
    OBVIOUS
  <2> QED
    BY <2>1, PairBalances
<1>4. \A A : OnLines(lines, A) = (IF a \in A THEN n ELSE 0) + (IF b \in A THEN -n ELSE 0)
  <2>1. n \in Int /\ -n \in Int
    OBVIOUS
  <2> QED
    BY <2>1, PairPuts
<1> HIDE DEF lines
<1>5. /\ r.date = y /\ r.source = "manual" /\ r.ref = ref
      /\ r.void = FALSE /\ r.lines = lines
  BY <1>1
<1>6. EntryShape(r)
  BY <1>1, <1>2, <1>5 DEF EntryShape, References
<1>7. ref \notin YearRefs
  BY JournalAssumption
<1>8. Named(r)
  BY <1>5, <1>7, RefsDiffer DEF Named
<1>9. Unfenced(r) => Postable(r)
  BY <1>5, <1>6, <1>8 DEF Postable, Unfenced
<1> QED
  BY <1>3, <1>4, <1>5, <1>9 DEF IsPair

\* Posting one entry.
Posted(r) ==
  /\ Ids' = Ids \cup {Len(entries) + 1} /\ Len(entries) + 1 \notin Ids
  /\ entries'[Len(entries) + 1] = r
  /\ \A e \in Ids : entries'[e] = entries[e]

LEMMA PostsOne ==
  ASSUME Books, NEW r, Postable(r), BalancedLines(r.lines), Post(<<r>>), UNCHANGED <<status, closed>>
  PROVE  Books' /\ Posted(r)
<1> DEFINE es == <<r>>
<1>0. IInv /\ Shape /\ AllBalanced
  BY DEF Books, IInv
<1>1. Tuple(es) /\ Len(es) = 1 /\ DOMAIN es = {1} /\ es[1] = r /\ Post(es)
  BY Tuples
<1>2. IInv'
  BY <1>0, PostOneStep
<1> HIDE DEF es
<1>3. AllBalanced'
  BY <1>0, <1>1, PostBalances
<1>4. /\ Len(entries) \in Nat /\ Ids = 1..Len(entries)
      /\ Ids' = 1..(Len(entries) + Len(es))
      /\ \A e \in Ids : e \in Ids' /\ entries'[e] = entries[e]
      /\ \A e \in Ids' \ Ids : \E i \in DOMAIN es : /\ e = Len(entries) + i
                                                    /\ entries'[e] = es[i]
  BY <1>0, <1>1, PostKeeps
<1>5. Ids' = Ids \cup {Len(entries) + 1} /\ Len(entries) + 1 \notin Ids
  BY <1>1, <1>4
<1>6. entries'[Len(entries) + 1] = r
  BY <1>1, <1>4, <1>5
<1> QED
  BY <1>2, <1>3, <1>4, <1>5, <1>6 DEF Books, Posted

\* Changing one document, and adding one.
LEMMA ChangeDoc ==
  ASSUME NEW d \in Docs, documents \in Seq(Document), NEW q \in Document,
         documents' = [documents EXCEPT ![d] = q]
  PROVE  /\ documents' \in Seq(Document)
         /\ Docs' = Docs
         /\ documents'[d] = q
         /\ \A c \in Docs : c # d => documents'[c] = documents[c]
<1>1. documents' \in Seq(Document)
  BY ExceptSeq DEF Docs
<1> QED
  BY <1>1 DEF Docs

LEMMA AddDoc ==
  ASSUME documents \in Seq(Document), NEW q \in Document, documents' = Append(documents, q)
  PROVE  /\ documents' \in Seq(Document)
         /\ Docs' = Docs \cup {Len(documents) + 1}
         /\ Len(documents) + 1 \notin Docs
         /\ documents'[Len(documents) + 1] = q
         /\ \A c \in Docs : documents'[c] = documents[c]
<1>1. /\ documents' \in Seq(Document)
      /\ Len(documents') = Len(documents) + 1
      /\ \A c \in 1..Len(documents) : documents'[c] = documents[c]
      /\ documents'[Len(documents) + 1] = q
  BY AppendProperties
<1>2. /\ Len(documents) \in Nat /\ Docs = 1..Len(documents)
      /\ Docs' = 1..(Len(documents) + 1)
  BY <1>1, LenProperties DEF Docs
<1> QED
  BY <1>1, <1>2

LEMMA DocFields ==
  ASSUME DocShape, NEW d \in Docs
  PROVE  /\ documents[d] \in Document
         /\ documents[d].amount \in Nat \ {0} /\ documents[d].paid \in Nat
         /\ documents[d].kind \in Kinds
         /\ documents[d].status \in {"open", "partial", "paid", "void"}
         /\ IsFiniteSet(documents[d].payments)
         /\ \A p \in documents[d].payments : p[1] \in Ids /\ p[2] \in Nat /\ p = <<p[1], p[2]>>
<1>1. documents[d] \in Document
  BY ElementOfSeq, LenProperties DEF DocShape, Docs
<1> QED
  BY <1>1 DEF Document, DocShape

-----------------------------------------------------------------------------
(***************************************************************************)
(* The commands.                                                           *)
(***************************************************************************)

\* The other side of a document, and where it is paid from, are not among the
\* accounts its kind is owed on.
ControlApart ==
  /\ \A n \in Issues : n.account \notin Control[n.kind]
  /\ \A kind \in Kinds : PaidFrom \cap Control[kind] = {}

\* The entry of a new document, and what it puts where the document is owed.
LEMMA IssuePosts ==
  ASSUME DocBooks, NEW y \in Years, NEW n \in Issues, NEW control \in Control[n.kind],
         NEW r, r = IssueEntry(y, n, control), Unfenced(r)
  PROVE  /\ Postable(r) /\ BalancedLines(r.lines)
         /\ r.ref \notin YearRefs /\ r.void = FALSE
         /\ ControlApart => OnLines(r.lines, Control[n.kind]) = Side(n.kind, n.amount)
<1>1. /\ n.kind \in Kinds /\ n.amount \in Nat /\ n.ref \in Refs \cup {NoRef}
      /\ n.account \in Accounts /\ control \in Accounts
  BY DocumentsAssumption
<1>2. n.ref \notin YearRefs
  BY <1>1, JournalAssumption
<1>3. ControlApart => n.account \notin Control[n.kind]
  BY DEF ControlApart
<1>4. CASE n.kind = "bill"
  <2>1. r = TwoLines(y, n.ref, n.account, control, n.amount)
    BY <1>4 DEF IssueEntry
  <2>2. IsPair(r, n.ref, n.account, control, n.amount)
    BY <1>1, <2>1, TwoLinesPost
  <2>3. OnLines(r.lines, Control[n.kind])
          = (IF n.account \in Control[n.kind] THEN n.amount ELSE 0)
              + (IF control \in Control[n.kind] THEN -n.amount ELSE 0)
    BY <2>2 DEF IsPair
  <2> QED
    BY <1>1, <1>2, <1>3, <1>4, <2>2, <2>3 DEF Side, IsPair
<1>5. CASE n.kind # "bill"
  <2>1. r = TwoLines(y, n.ref, control, n.account, n.amount)
    BY <1>5 DEF IssueEntry
  <2>2. IsPair(r, n.ref, control, n.account, n.amount)
    BY <1>1, <2>1, TwoLinesPost
  <2>3. OnLines(r.lines, Control[n.kind])
          = (IF control \in Control[n.kind] THEN n.amount ELSE 0)
              + (IF n.account \in Control[n.kind] THEN -n.amount ELSE 0)
    BY <2>2 DEF IsPair
  <2> QED
    BY <1>1, <1>2, <1>3, <1>5, <2>2, <2>3 DEF Side, IsPair
<1> QED
  BY <1>4, <1>5

\* A document whose row and entries a step leaves alone stands as it stood.
LEMMA StandsKept ==
  ASSUME NEW d, documents'[d] = documents[d], touched \subseteq touched',
         \A e \in EntriesOf(d) : e \notin touched' => entries'[e] = entries[e],
         EntryStands(d), \A p \in documents[d].payments : PaymentStands(d, p)
  PROVE  EntryStands(d)' /\ \A p \in documents'[d].payments : PaymentStands(d, p)'
<1>1. EntryStands(d)'
  <2>1. documents[d].entry \in EntriesOf(d)
    BY DEF EntriesOf
  <2> QED
    BY <2>1 DEF EntryStands, Live, Puts
<1>2. ASSUME NEW p \in documents[d].payments
      PROVE  PaymentStands(d, p)'
  <2>1. p[1] \in EntriesOf(d)
    BY DEF EntriesOf
  <2> QED
    BY <2>1 DEF PaymentStands, Live, Puts
<1> QED
  BY <1>1, <1>2

LEMMA IssueStep ==
  ASSUME DocBooks, NEW y \in Years, NEW n \in Issues, NEW control \in Control[n.kind],
         Issue(y, n, control), NEW k, k = Len(entries) + 1, NEW m, m = Len(documents) + 1
  PROVE  DocBooks' /\ (ControlApart /\ AsPosted => AsPosted')
<1> DEFINE r == IssueEntry(y, n, control)
           q == [kind |-> n.kind, amount |-> n.amount, entry |-> k,
                 paid |-> 0, status |-> "open", payments |-> {}]
<1>0. Books /\ DocShape /\ Apart /\ RowsAgree /\ documents \in Seq(Document)
  BY DEF DocBooks, Papers, DocShape
<1>1. /\ Unfenced(r) /\ Post(<<r>>) /\ UNCHANGED <<status, closed, touched>>
      /\ documents' = Append(documents, q)
  BY DEF Issue, MayPost
<1>2. /\ Postable(r) /\ BalancedLines(r.lines) /\ r.ref \notin YearRefs /\ r.void = FALSE
      /\ ControlApart => OnLines(r.lines, Control[n.kind]) = Side(n.kind, n.amount)
  BY <1>1, IssuePosts
<1> HIDE DEF r
<1>3. Books' /\ Posted(r)
  BY <1>0, <1>1, <1>2, PostsOne
<1>4. k \in Nat
  BY <1>0, LenProperties DEF Books, IInv, Shape, Tuple
<1>5. n.kind \in Kinds /\ n.amount \in Nat \ {0}
  BY DocumentsAssumption
<1>6. q \in Document
  BY <1>4, <1>5 DEF Document
<1>7. /\ q.kind = n.kind /\ q.amount = n.amount /\ q.entry = k /\ q.paid = 0
      /\ q.status = "open" /\ q.payments = {}
  OBVIOUS
<1> HIDE DEF q
<1>8. /\ documents' \in Seq(Document)
      /\ Docs' = Docs \cup {m} /\ m \notin Docs
      /\ documents'[m] = q
      /\ \A c \in Docs : documents'[c] = documents[c]
  BY <1>0, <1>1, <1>6, AddDoc
<1>9. /\ Ids' = Ids \cup {k} /\ k \notin Ids
      /\ entries'[k] = r
      /\ \A e \in Ids : entries'[e] = entries[e]
  BY <1>3 DEF Posted
<1>10. \A c \in Docs : /\ documents[c].entry \in Ids
                       /\ \A p \in documents[c].payments : p[1] \in Ids
  BY <1>0 DEF DocShape
<1>11. DocShape'
  <2>1. IsFiniteSet({})
    BY FS_EmptySet
  <2>2. \A d \in Docs' : /\ documents'[d].amount # 0
                         /\ IsFiniteSet(documents'[d].payments)
                         /\ documents'[d].entry \in Ids'
                         /\ entries'[documents'[d].entry].ref \notin YearRefs
                         /\ \A p \in documents'[d].payments : p[1] \in Ids'
    <3>1. ASSUME NEW d \in Docs
          PROVE  /\ documents'[d].amount # 0
                 /\ IsFiniteSet(documents'[d].payments)
                 /\ documents'[d].entry \in Ids'
                 /\ entries'[documents'[d].entry].ref \notin YearRefs
                 /\ \A p \in documents'[d].payments : p[1] \in Ids'
      BY <1>0, <1>8, <1>9 DEF DocShape
    <3>2. /\ documents'[m].amount # 0
          /\ documents'[m].entry = k
          /\ documents'[m].payments = {}
      BY <1>5, <1>7, <1>8
    <3>3. k \in Ids' /\ entries'[k].ref \notin YearRefs
      BY <1>2, <1>9
    <3>4. \A d \in Docs' : d \in Docs \/ d = m
      BY <1>8
    <3> QED
      BY <2>1, <3>1, <3>2, <3>3, <3>4
  <2>3. touched' \subseteq Ids'
    BY <1>0, <1>1, <1>9 DEF DocShape
  <2> QED
    BY <1>8, <2>2, <2>3 DEF DocShape
<1>12. /\ \A c \in Docs : EntriesOf(c)' = EntriesOf(c) /\ EntriesOf(c) \subseteq Ids
       /\ EntriesOf(m)' = {k}
  <2>1. \A c \in Docs : EntriesOf(c)' = EntriesOf(c)
    BY <1>8 DEF EntriesOf
  <2>2. \A c \in Docs : EntriesOf(c) \subseteq Ids
    BY <1>10 DEF EntriesOf
  <2>3. documents'[m].entry = k /\ documents'[m].payments = {}
    BY <1>7, <1>8
  <2>4. EntriesOf(m)' = {k}
    BY <2>3 DEF EntriesOf
  <2> QED
    BY <2>1, <2>2, <2>4
<1>13. Apart'
  <2>1. ASSUME NEW c \in Docs', NEW d \in Docs', NEW e \in EntriesOf(c)', c # d
        PROVE  e \notin EntriesOf(d)'
    BY <1>0, <1>8, <1>9, <1>12, <2>1 DEF Apart
  <2>2. ASSUME NEW d \in Docs', NEW p \in documents'[d].payments
        PROVE  /\ p[1] # documents'[d].entry
               /\ \A o \in documents'[d].payments : p[1] = o[1] => p = o
    BY <1>0, <1>7, <1>8, <2>2 DEF Apart
  <2> QED
    BY <2>1, <2>2 DEF Apart
<1>14. RowsAgree'
  <2>1. RowAddsUp(q)
    BY <1>5, <1>7, TotalEmpty DEF RowAddsUp, StatusFor
  <2> QED
    BY <1>0, <1>8, <2>1 DEF RowsAgree
<1>15. ASSUME ControlApart, AsPosted
       PROVE  AsPosted'
  <2>1. ASSUME NEW d \in Docs
        PROVE  EntryStands(d)' /\ \A p \in documents'[d].payments : PaymentStands(d, p)'
    <3>1. EntryStands(d) /\ \A p \in documents[d].payments : PaymentStands(d, p)
      BY <1>15 DEF AsPosted
    <3>2. /\ documents'[d] = documents[d] /\ touched \subseteq touched'
          /\ \A e \in EntriesOf(d) : entries'[e] = entries[e]
      BY <1>1, <1>8, <1>9, <1>12
    <3> QED
      BY <3>1, <3>2, StandsKept
  <2>2. EntryStands(m)'
    <3>1. Live(k)' /\ Puts(k, n.kind)' = Side(n.kind, n.amount)
      BY <1>2, <1>9, <1>15 DEF Live, Puts
    <3> QED
      BY <1>7, <1>8, <3>1 DEF EntryStands
  <2>3. documents'[m].payments = {}
    BY <1>7, <1>8
  <2> QED
    BY <1>8, <2>1, <2>2, <2>3 DEF AsPosted
<1> QED
  BY <1>3, <1>11, <1>13, <1>14, <1>15 DEF DocBooks, Papers

\* The entry of a payment, on the other side of the document's.
LEMMA PaymentPosts ==
  ASSUME DocBooks, NEW y \in Years, NEW d \in Docs, NEW cash \in PaidFrom,
         NEW control \in Control[documents[d].kind], NEW n \in Nat,
         NEW r, r = PaymentEntry(y, d, control, cash, n), Unfenced(r)
  PROVE  /\ Postable(r) /\ BalancedLines(r.lines) /\ r.void = FALSE
         /\ ControlApart => OnLines(r.lines, Control[documents[d].kind]) = -Side(documents[d].kind, n)
<1>0. documents[d].kind \in Kinds
  BY DocFields DEF DocBooks, Papers
<1>1. control \in Accounts /\ cash \in Accounts /\ NoRef \in Refs \cup {NoRef}
  BY <1>0, DocumentsAssumption
<1>3. ControlApart => cash \notin Control[documents[d].kind]
  BY <1>0 DEF ControlApart
<1>4. CASE documents[d].kind = "bill"
  <2>1. r = TwoLines(y, NoRef, control, cash, n)
    BY <1>4 DEF PaymentEntry, PaymentOfBill
  <2>2. IsPair(r, NoRef, control, cash, n)
    BY <1>1, <2>1, TwoLinesPost
  <2>3. OnLines(r.lines, Control[documents[d].kind])
          = (IF control \in Control[documents[d].kind] THEN n ELSE 0)
              + (IF cash \in Control[documents[d].kind] THEN -n ELSE 0)
    BY <2>2 DEF IsPair
  <2> QED
    BY <1>1, <1>3, <1>4, <2>2, <2>3 DEF Side, IsPair
<1>5. CASE documents[d].kind # "bill"
  <2>1. r = TwoLines(y, NoRef, cash, control, n)
    BY <1>5 DEF PaymentEntry
  <2>2. IsPair(r, NoRef, cash, control, n)
    BY <1>1, <2>1, TwoLinesPost
  <2>3. OnLines(r.lines, Control[documents[d].kind])
          = (IF cash \in Control[documents[d].kind] THEN n ELSE 0)
              + (IF control \in Control[documents[d].kind] THEN -n ELSE 0)
    BY <2>2 DEF IsPair
  <2> QED
    BY <1>1, <1>3, <1>5, <2>2, <2>3 DEF Side, IsPair
<1> QED
  BY <1>4, <1>5

\* One more payment, and what it makes of the row.
LEMMA PaidMore ==
  ASSUME NEW doc, RowAddsUp(doc), IsFiniteSet(doc.payments),
         doc.paid \in Nat, doc.amount \in Nat,
         \A p \in doc.payments : p[2] \in Nat,
         NEW n \in Nat \ {0}, n <= doc.amount - doc.paid,
         NEW x, x \notin doc.payments, x[2] = n,
         NEW more, more.amount = doc.amount, more.paid = doc.paid + n,
         more.payments = doc.payments \cup {x},
         more.status = StatusFor(doc.amount, doc.paid + n)
  PROVE  RowAddsUp(more)
<1> DEFINE P == doc.payments
           F == Seconds(P \cup {x})
<1>1. (\A p \in P \cup {x} : F[p] = p[2]) /\ (\A p \in P : Seconds(P)[p] = p[2])
  BY DEF Seconds
<1>2. \A p \in P \cup {x} : F[p] \in Int
  <2>1. \A p \in P \cup {x} : p[2] \in Int
    OBVIOUS
  <2> HIDE DEF F
  <2> QED
    BY <1>1, <2>1
<1>3. x \notin P /\ IsFiniteSet(P) /\ F[x] = n
  BY <1>1
<1>4. doc.paid = Total(Seconds(P), P)
  BY DEF RowAddsUp
<1>5. more.payments = P \cup {x}
  OBVIOUS
<1>6. \A p \in P : Seconds(P)[p] = F[p]
  BY <1>1
<1> HIDE DEF P, F
<1>7. Total(Seconds(P), P) = Total(F, P)
  BY <1>3, <1>6, TotalSame
<1>8. Total(F, P \cup {x}) = Total(F, P) + F[x]
  BY ONLY <1>2, <1>3, TotalAdd
<1>9. more.paid = Total(Seconds(more.payments), more.payments)
  BY <1>3, <1>4, <1>5, <1>7, <1>8 DEF F
<1>10. doc.paid + n <= doc.amount /\ doc.paid + n > 0
  OBVIOUS
<1>11. more.status = StatusFor(more.amount, more.paid) /\ more.status # "void"
  BY DEF StatusFor
<1> QED
  BY <1>9, <1>10, <1>11 DEF RowAddsUp

LEMMA PayStep ==
  ASSUME DocBooks, NEW y \in Years, NEW d \in Docs, NEW cash \in PaidFrom,
         NEW control \in Control[documents[d].kind], NEW n \in Applied(d),
         ApplyPayment(y, d, control, cash, n), NEW k, k = Len(entries) + 1
  PROVE  DocBooks' /\ (ControlApart /\ AsPosted => AsPosted')
<1> DEFINE r == PaymentEntry(y, d, control, cash, n)
           doc == documents[d]
           x == <<k, n>>
           q == [doc EXCEPT !.paid = @ + n, !.status = StatusFor(doc.amount, doc.paid + n),
                            !.payments = @ \cup {x}]
<1>0. Books /\ DocShape /\ Apart /\ RowsAgree /\ documents \in Seq(Document)
  BY DEF DocBooks, Papers, DocShape
<1>1. /\ doc \in Document /\ doc.amount \in Nat \ {0} /\ doc.paid \in Nat
      /\ doc.kind \in Kinds /\ IsFiniteSet(doc.payments)
      /\ \A p \in doc.payments : p[1] \in Ids /\ p[2] \in Nat
  BY <1>0, DocFields
<1>2. n \in Nat \ {0} /\ n <= doc.amount - doc.paid
  BY <1>1 DEF Applied, Whole, ApplyPayment, Remaining
<1>3. /\ Unfenced(r) /\ Post(<<r>>) /\ UNCHANGED <<status, closed, touched>>
      /\ doc.status \notin {"void", "paid"}
      /\ documents' = [documents EXCEPT ![d] = q]
  BY DEF ApplyPayment, MayPost, RecordPayment
<1>4. /\ Postable(r) /\ BalancedLines(r.lines) /\ r.void = FALSE
      /\ ControlApart => OnLines(r.lines, Control[doc.kind]) = -Side(doc.kind, n)
  <2>1. r = PaymentEntry(y, d, control, cash, n) /\ Unfenced(r) /\ n \in Nat
    BY <1>2, <1>3
  <2> HIDE DEF r
  <2> QED
    BY ONLY DocBooks, y \in Years, d \in Docs, cash \in PaidFrom,
            control \in Control[documents[d].kind], <2>1, PaymentPosts
<1> HIDE DEF r
<1>5. Books' /\ Posted(r)
  BY <1>0, <1>3, <1>4, PostsOne
<1>6. /\ Ids' = Ids \cup {k} /\ k \notin Ids
      /\ entries'[k] = r
      /\ \A e \in Ids : entries'[e] = entries[e]
  BY <1>5 DEF Posted
<1>7. k \in Nat
  BY <1>0, LenProperties DEF Books, IInv, Shape, Tuple
<1>8. StatusFor(doc.amount, doc.paid + n) \in {"open", "partial", "paid", "void"}
  BY DEF StatusFor
<1>9. x \in Nat \X Nat /\ x[1] = k /\ x[2] = n
  BY <1>2, <1>7
<1>10. doc.paid + n \in Nat
  BY <1>1, <1>2
<1> HIDE DEF x
<1>11. q \in Document
  BY <1>1, <1>8, <1>9, <1>10 DEF Document
<1>12. /\ q.kind = doc.kind /\ q.amount = doc.amount /\ q.entry = doc.entry
       /\ q.paid = doc.paid + n /\ q.status = StatusFor(doc.amount, doc.paid + n)
       /\ q.payments = doc.payments \cup {x}
  BY <1>1 DEF Document
<1> HIDE DEF q
<1>13. /\ documents' \in Seq(Document)
       /\ Docs' = Docs
       /\ documents'[d] = q
       /\ \A c \in Docs : c # d => documents'[c] = documents[c]
  BY <1>0, <1>3, <1>11, ChangeDoc
<1>14. /\ documents'[d].kind = doc.kind /\ documents'[d].amount = doc.amount
       /\ documents'[d].entry = doc.entry /\ documents'[d].payments = doc.payments \cup {x}
       /\ documents'[d].status = StatusFor(doc.amount, doc.paid + n)
  BY <1>12, <1>13
<1>15. \A c \in Docs : /\ documents[c].entry \in Ids
                       /\ \A p \in documents[c].payments : p[1] \in Ids
  BY <1>0 DEF DocShape
<1>16. /\ \A c \in Docs : c # d => EntriesOf(c)' = EntriesOf(c)
       /\ \A c \in Docs : EntriesOf(c) \subseteq Ids
       /\ EntriesOf(d)' = EntriesOf(d) \cup {k}
  <2>1. \A c \in Docs : c # d => EntriesOf(c)' = EntriesOf(c)
    BY <1>13 DEF EntriesOf
  <2>2. \A c \in Docs : EntriesOf(c) \subseteq Ids
    BY <1>15 DEF EntriesOf
  <2>3. EntriesOf(d)' = EntriesOf(d) \cup {k}
    BY <1>9, <1>14 DEF EntriesOf
  <2> QED
    BY <2>1, <2>2, <2>3
<1>17. DocShape'
  <2>1. IsFiniteSet(doc.payments \cup {x})
    BY <1>1, FS_AddElement
  <2>2. ASSUME NEW c \in Docs, c # d
        PROVE  /\ documents'[c].amount # 0
               /\ IsFiniteSet(documents'[c].payments)
               /\ documents'[c].entry \in Ids'
               /\ entries'[documents'[c].entry].ref \notin YearRefs
               /\ \A p \in documents'[c].payments : p[1] \in Ids'
    BY <1>0, <1>6, <1>13, <2>2 DEF DocShape
  <2>3. /\ documents'[d].amount # 0
        /\ IsFiniteSet(documents'[d].payments)
        /\ documents'[d].entry \in Ids'
        /\ entries'[documents'[d].entry].ref \notin YearRefs
        /\ \A p \in documents'[d].payments : p[1] \in Ids'
    BY <1>0, <1>1, <1>6, <1>9, <1>14, <2>1 DEF DocShape
  <2>4. touched' \subseteq Ids'
    BY <1>0, <1>3, <1>6 DEF DocShape
  <2> QED
    BY <1>13, <2>2, <2>3, <2>4 DEF DocShape
<1>18. Apart'
  <2>1. ASSUME NEW b \in Docs, NEW c \in Docs, NEW e \in EntriesOf(b)', b # c
        PROVE  e \notin EntriesOf(c)'
    <3>1. \A a \in EntriesOf(b) : a \notin EntriesOf(c)
      BY <1>0, <2>1 DEF Apart
    <3>2. e \in EntriesOf(b) \/ (b = d /\ e = k)
      BY <1>16
    <3>3. \A a \in EntriesOf(c)' : a \in EntriesOf(c) \/ (c = d /\ a = k)
      BY <1>16
    <3>4. k \notin EntriesOf(b) /\ k \notin EntriesOf(c)
      BY <1>6, <1>16
    <3> QED
      BY <2>1, <3>1, <3>2, <3>3, <3>4
  <2>2. ASSUME NEW c \in Docs, NEW p \in documents'[c].payments
        PROVE  /\ p[1] # documents'[c].entry
               /\ \A o \in documents'[c].payments : p[1] = o[1] => p = o
    <3>1. CASE c # d
      BY <1>0, <1>13, <2>2, <3>1 DEF Apart
    <3>2. CASE c = d
      <4>1. \A o \in documents'[d].payments : o \in doc.payments \/ o = x
        BY <1>14
      <4>2. \A o \in doc.payments : o[1] # doc.entry /\ o[1] # k
                                    /\ \A v \in doc.payments : v[1] = o[1] => v = o
        BY <1>0, <1>6, <1>15 DEF Apart
      <4>3. doc.entry # k
        BY <1>6, <1>15
      <4> HIDE DEF doc
      <4> QED
        BY <1>9, <1>14, <2>2, <3>2, <4>1, <4>2, <4>3
    <3> QED
      BY <3>1, <3>2
  <2> QED
    BY <1>13, <2>1, <2>2 DEF Apart
<1>19. RowsAgree'
  <2>1. x \notin doc.payments
    BY <1>1, <1>6, <1>9
  <2>2. RowAddsUp(doc)
    BY <1>0 DEF RowsAgree
  <2> HIDE DEF doc
  <2>3. RowAddsUp(q)
    BY <1>1, <1>2, <1>9, <1>12, <2>1, <2>2, PaidMore
  <2> QED
    BY <1>0, <1>13, <2>3 DEF RowsAgree
<1>20. ASSUME ControlApart, AsPosted
       PROVE  AsPosted'
  <2>1. ASSUME NEW c \in Docs, c # d
        PROVE  EntryStands(c)' /\ \A p \in documents'[c].payments : PaymentStands(c, p)'
    <3>1. EntryStands(c) /\ \A p \in documents[c].payments : PaymentStands(c, p)
      BY <1>20 DEF AsPosted
    <3>2. /\ documents'[c] = documents[c] /\ touched \subseteq touched'
          /\ \A e \in EntriesOf(c) : entries'[e] = entries[e]
      BY <1>3, <1>6, <1>13, <1>16, <2>1
    <3> QED
      BY <3>1, <3>2, StandsKept
  <2>2. EntryStands(d)'
    <3>1. EntryStands(d) /\ doc.entry \in Ids
      BY <1>15, <1>20 DEF AsPosted
    <3>2. documents'[d].status # "void"
      BY <1>14 DEF StatusFor
    <3> QED
      BY <1>3, <1>6, <1>14, <3>1, <3>2 DEF EntryStands, Live, Puts
  <2>3. ASSUME NEW p \in doc.payments
        PROVE  PaymentStands(d, p)'
    <3>1. PaymentStands(d, p) /\ p[1] \in Ids
      BY <1>15, <1>20 DEF AsPosted
    <3> QED
      BY <1>3, <1>6, <1>14, <3>1 DEF PaymentStands, Live, Puts
  <2>4. PaymentStands(d, x)'
    <3>1. Live(k)' /\ OnLines(entries'[k].lines, Control[doc.kind]) = -Side(doc.kind, n)
      BY <1>4, <1>6, <1>20 DEF Live
    <3> QED
      BY <1>9, <1>14, <3>1 DEF PaymentStands, Puts
  <2>5. \A p \in documents'[d].payments : p \in doc.payments \/ p = x
    BY <1>14
  <2>6. \A p \in documents'[d].payments : PaymentStands(d, p)'
    BY <2>3, <2>4, <2>5
  <2> QED
    BY <1>13, <2>1, <2>2, <2>6 DEF AsPosted
<1> QED
  BY <1>5, <1>17, <1>18, <1>19, <1>20 DEF DocBooks, Papers

\* Voiding a document voids its entry, which is no other document's and no
\* year end's.
LEMMA VoidDocStep ==
  ASSUME DocBooks, NEW d \in Docs, VoidDocument(d), NEW k, k = documents[d].entry
  PROVE  DocBooks' /\ (AsPosted => AsPosted')
<1> DEFINE doc == documents[d]
           q == [doc EXCEPT !.status = "void"]
<1>0. Books /\ IInv /\ AllBalanced /\ DocShape /\ Apart /\ RowsAgree /\ documents \in Seq(Document)
  BY DEF DocBooks, Papers, DocShape, Books
<1>1. /\ SetVoid({k}, TRUE) /\ UNCHANGED <<status, closed, touched>>
      /\ doc.paid = 0 /\ documents' = [documents EXCEPT ![d] = q]
  BY DEF VoidDocument, Voidable
<1>2. doc \in Document /\ k \in Ids /\ entries[k].ref \notin YearRefs
  BY <1>0, DocFields DEF DocShape
<1>3. /\ Ids' = Ids
      /\ entries'[k].void
      /\ \A e \in Ids : entries'[e].ref = entries[e].ref /\ entries'[e].lines = entries[e].lines
  <2>1. TRUE \in BOOLEAN
    OBVIOUS
  <2> DEFINE E == {k}
  <2>2. k \in E /\ SetVoid(E, TRUE)
    BY <1>1
  <2> HIDE DEF E
  <2> QED
    BY ONLY <1>0, <1>2, <2>1, <2>2, VoidFields
<1>4. \A e \in Ids : e # k => entries'[e] = entries[e]
  BY <1>1 DEF SetVoid
<1>5. Books'
  <2>1. \A y \in closed' : \A e \in {k} : entries[e].ref # CloseRef(y)
    <3>1. closed' \subseteq Years
      BY <1>0, <1>1 DEF IInv, Shape
    <3> QED
      BY <1>2, <3>1 DEF YearRefs
  <2>2. {k} \in SUBSET Ids /\ TRUE \in BOOLEAN /\ closed' \in SUBSET closed
    BY <1>1, <1>2
  <2>3. IInv'
    BY ONLY <1>0, <1>1, <2>1, <2>2, VoidStep
  <2>4. AllBalanced'
    BY <1>0, <1>3 DEF AllBalanced
  <2> QED
    BY <2>3, <2>4 DEF Books
<1>6. /\ q \in Document
      /\ q.kind = doc.kind /\ q.amount = doc.amount /\ q.entry = k /\ q.paid = doc.paid
      /\ q.status = "void" /\ q.payments = doc.payments
  BY <1>2 DEF Document
<1> HIDE DEF q
<1>7. /\ documents' \in Seq(Document)
      /\ Docs' = Docs
      /\ documents'[d] = q
      /\ \A c \in Docs : c # d => documents'[c] = documents[c]
  BY <1>0, <1>1, <1>6, ChangeDoc
<1>8. \A c \in Docs : /\ documents'[c].kind = documents[c].kind
                      /\ documents'[c].amount = documents[c].amount
                      /\ documents'[c].entry = documents[c].entry
                      /\ documents'[c].payments = documents[c].payments
  BY <1>6, <1>7
<1>9. \A c \in Docs : EntriesOf(c)' = EntriesOf(c)
  BY <1>8 DEF EntriesOf
<1>10. DocShape'
  <2>1. ASSUME NEW c \in Docs
        PROVE  /\ documents'[c].amount # 0
               /\ IsFiniteSet(documents'[c].payments)
               /\ documents'[c].entry \in Ids'
               /\ entries'[documents'[c].entry].ref \notin YearRefs
               /\ \A p \in documents'[c].payments : p[1] \in Ids'
    BY <1>0, <1>3, <1>8 DEF DocShape
  <2>2. touched' \subseteq Ids'
    BY <1>0, <1>1, <1>3 DEF DocShape
  <2> QED
    BY <1>7, <2>1, <2>2 DEF DocShape
<1>11. Apart'
  BY <1>0, <1>7, <1>8, <1>9 DEF Apart
<1>12. RowsAgree'
  <2>1. RowAddsUp(doc)
    BY <1>0 DEF RowsAgree
  <2> HIDE DEF doc
  <2>2. RowAddsUp(q)
    BY <1>1, <1>6, <2>1 DEF RowAddsUp
  <2> QED
    BY <1>0, <1>7, <2>2 DEF RowsAgree
<1>13. ASSUME AsPosted
       PROVE  AsPosted'
  <2>1. ASSUME NEW c \in Docs, c # d
        PROVE  EntryStands(c)' /\ \A p \in documents'[c].payments : PaymentStands(c, p)'
    <3>1. EntryStands(c) /\ \A p \in documents[c].payments : PaymentStands(c, p)
      BY <1>13 DEF AsPosted
    <3>2. k \in EntriesOf(d)
      BY DEF EntriesOf
    <3>3. \A e \in EntriesOf(c) : e \in Ids /\ e # k
      <4>1. \A e \in EntriesOf(c) : e \in Ids
        BY <1>0 DEF EntriesOf, DocShape
      <4>2. k \notin EntriesOf(c)
        BY <1>0, <2>1, <3>2 DEF Apart
      <4> QED
        BY <4>1, <4>2
    <3>4. /\ documents'[c] = documents[c] /\ touched \subseteq touched'
          /\ \A e \in EntriesOf(c) : entries'[e] = entries[e]
      BY <1>1, <1>4, <1>7, <2>1, <3>3
    <3> QED
      BY <3>1, <3>4, StandsKept
  <2>2. EntryStands(d)'
    <3>1. EntryStands(d)
      BY <1>13 DEF AsPosted
    <3>2. /\ documents'[d].entry = k /\ documents'[d].kind = doc.kind
          /\ documents'[d].amount = doc.amount /\ documents'[d].status = "void"
      BY <1>6, <1>7
    <3>3. touched' = touched
      BY <1>1
    <3> QED
      BY <1>2, <1>3, <3>1, <3>2, <3>3 DEF EntryStands, Live, Puts
  <2>3. documents'[d].payments = {}
    <3>1. doc.payments = {}
      BY <1>0, <1>1 DEF RowsAgree, RowAddsUp
    <3> QED
      BY <1>8, <3>1
  <2> QED
    BY <1>7, <2>1, <2>2, <2>3 DEF AsPosted
<1> QED
  BY <1>5, <1>10, <1>11, <1>12, <1>13 DEF DocBooks, Papers

\* The journal's own commands leave documents alone and tell on themselves.
LEMMA LedgerStep ==
  ASSUME DocBooks, JournalStep
  PROVE  DocBooks' /\ (AsPosted => AsPosted')
<1>0. Books /\ IInv /\ DocShape /\ Apart /\ RowsAgree /\ [Next]_vars
  BY DEF DocBooks, Papers, Books, JournalStep
<1>1. Books'
  BY <1>0, BooksStep
<1>2. \A e \in Ids : e \in Ids' /\ entries'[e].ref = entries[e].ref
  BY <1>0, JournalKeepsRefs DEF RefsKept
<1>3. /\ UNCHANGED documents /\ touched \subseteq touched'
      /\ \A e \in touched' : e \in touched \/ e \in Ids
      /\ \A e \in Ids : entries'[e] # entries[e] => e \in touched'
  BY DEF JournalStep
<1>4. Docs' = Docs /\ \A c \in Docs : EntriesOf(c)' = EntriesOf(c)
  BY <1>3 DEF Docs, EntriesOf
<1>5. DocShape'
  BY <1>0, <1>2, <1>3, <1>4 DEF DocShape
<1>6. Apart' /\ RowsAgree'
  BY <1>0, <1>3, <1>4 DEF Apart, RowsAgree
<1>7. ASSUME AsPosted
      PROVE  AsPosted'
  <2>1. ASSUME NEW c \in Docs
        PROVE  EntryStands(c)' /\ \A p \in documents'[c].payments : PaymentStands(c, p)'
    <3>1. EntryStands(c) /\ \A p \in documents[c].payments : PaymentStands(c, p)
      BY <1>7 DEF AsPosted
    <3>2. \A e \in EntriesOf(c) : e \in Ids
      BY <1>0 DEF EntriesOf, DocShape
    <3>3. \A e \in EntriesOf(c) : e \notin touched' => entries'[e] = entries[e]
      BY <1>3, <3>2
    <3> QED
      BY <1>3, <3>1, <3>3, StandsKept
  <2> QED
    BY <1>4, <2>1 DEF AsPosted
<1> QED
  BY <1>1, <1>5, <1>6, <1>7 DEF DocBooks, Papers

LEMMA DocInitInv == DocInit => DocBooks /\ AsPosted
<1> SUFFICES ASSUME DocInit PROVE Papers /\ AsPosted
  BY BooksInit DEF DocBooks, DocInit
<1>1. Docs = {} /\ documents \in Seq(Document)
  BY EmptySeq, LenProperties DEF DocInit, Docs
<1> QED
  BY <1>1 DEF DocInit, Papers, DocShape, Apart, RowsAgree, AsPosted

LEMMA DocStep ==
  DocBooks /\ [DocNext]_docVars => DocBooks' /\ (ControlApart /\ AsPosted => AsPosted')
<1> SUFFICES ASSUME DocBooks, [DocNext]_docVars
             PROVE  DocBooks' /\ (ControlApart /\ AsPosted => AsPosted')
  OBVIOUS
<1>1. CASE UNCHANGED docVars
  <2>1. Books'
    <3>1. [Next]_vars
      BY <1>1 DEF docVars
    <3> QED
      BY <3>1, BooksStep DEF DocBooks
  <2>2. UNCHANGED <<documents, touched, entries>> /\ Ids' = Ids /\ Docs' = Docs
    BY <1>1 DEF docVars, vars, Ids, Docs
  <2>3. \A c : EntriesOf(c)' = EntriesOf(c)
    BY <2>2 DEF EntriesOf
  <2>4. Papers'
    BY <2>2, <2>3 DEF DocBooks, Papers, DocShape, Apart, RowsAgree
  <2>5. AsPosted => AsPosted'
    BY <2>2 DEF AsPosted, EntryStands, PaymentStands, Live, Puts
  <2> QED
    BY <2>1, <2>4, <2>5 DEF DocBooks
<1>2. CASE JournalStep
  BY <1>2, LedgerStep
<1>3. ASSUME NEW y \in Years, NEW n \in Issues, NEW control \in Control[n.kind],
             Issue(y, n, control)
      PROVE  DocBooks' /\ (ControlApart /\ AsPosted => AsPosted')
  BY <1>3, IssueStep
<1>4. ASSUME NEW y \in Years, NEW d \in Docs, NEW cash \in PaidFrom,
             NEW control \in Control[documents[d].kind], NEW n \in Applied(d),
             ApplyPayment(y, d, control, cash, n)
      PROVE  DocBooks' /\ (ControlApart /\ AsPosted => AsPosted')
  BY <1>4, PayStep
<1>5. ASSUME NEW d \in Docs, VoidDocument(d)
      PROVE  DocBooks' /\ (ControlApart /\ AsPosted => AsPosted')
  BY <1>5, VoidDocStep
<1> QED
  BY <1>1, <1>2, <1>3, <1>4, <1>5 DEF DocNext

-----------------------------------------------------------------------------

\* The types of documents and of what was touched, over the journal.
THEOREM DocumentsTypeCorrect == DocSpec => []DocTypeOK
<1>1. DocBooks => DocTypeOK
  BY BooksType DEF DocBooks, Papers, DocShape, DocTypeOK
<1> QED
  BY <1>1, DocInitInv, DocStep, PTL DEF DocSpec

\* Documents keep the journal's own properties: what they post balances, names
\* live accounts and free references, and what they void is no year's close.
THEOREM DocumentsKeepJournal ==
  DocSpec => [](RefsUnique /\ ClosedHasItsEntry /\ LinesHaveAccounts /\ BooksBalance)
<1>1. DocBooks => RefsUnique /\ ClosedHasItsEntry /\ LinesHaveAccounts /\ BooksBalance
  BY BooksBalanced DEF DocBooks, Books, IInv
<1> QED
  BY <1>1, DocInitInv, DocStep, PTL DEF DocSpec

\* Rows add up: a payment is recorded once, with its amount, and the status is
\* what the paid amount makes it, in every order of payments and voids.
THEOREM DocumentsAddUp == DocSpec => []PaymentsAddUp
<1>1. DocBooks => PaymentsAddUp
  <2> SUFFICES ASSUME DocBooks, NEW d \in Docs, NEW doc, doc = documents[d]
               PROVE  /\ doc.paid = MapThenSumSet(LAMBDA p : p[2], doc.payments)
                      /\ doc.paid <= doc.amount
                      /\ doc.status = "paid" <=> doc.paid = doc.amount
                      /\ doc.status \in {"open", "void"} <=> doc.paid = 0
    BY DEF PaymentsAddUp
  <2>1. /\ doc.amount \in Nat \ {0} /\ doc.paid \in Nat /\ IsFiniteSet(doc.payments)
        /\ RowAddsUp(doc)
    BY DocFields DEF DocBooks, Papers, RowsAgree
  <2> DEFINE W == doc.payments
  <2>2. IsFiniteSet(W)
    BY <2>1
  <2> HIDE DEF W
  <2>3. MapThenSumSet(LAMBDA p : p[2], W) = Total(Seconds(W), W)
    BY <2>2, SecondsAddUp
  <2>4. doc.paid = MapThenSumSet(LAMBDA p : p[2], doc.payments)
    BY <2>1, <2>3 DEF RowAddsUp, W
  <2>5. /\ doc.paid <= doc.amount
        /\ doc.status = "paid" <=> doc.paid = doc.amount
        /\ doc.status \in {"open", "void"} <=> doc.paid = 0
    BY <2>1 DEF RowAddsUp, StatusFor
  <2> QED
    BY <2>4, <2>5
<1> QED
  BY <1>1, DocInitInv, DocStep, PTL DEF DocSpec

\* Bills received under one reference: the journal keeps a reference to one live
\* entry, and no two documents have the same entry.
THEOREM OneLiveBill == DocSpec => []OneLiveBillPerReference
<1>1. DocBooks => OneLiveBillPerReference
  <2> SUFFICES ASSUME DocBooks, NEW c \in Docs, NEW d \in Docs, c # d,
                      entries[documents[c].entry].ref = entries[documents[d].entry].ref,
                      Live(documents[c].entry), Live(documents[d].entry)
               PROVE  entries[documents[c].entry].ref = NoRef
    BY DEF OneLiveBillPerReference
  <2>1. documents[c].entry \in Ids /\ documents[d].entry \in Ids
    BY DEF DocBooks, Papers, DocShape
  <2>2. documents[c].entry # documents[d].entry
    BY DEF DocBooks, Papers, Apart, EntriesOf
  <2> QED
    BY <2>1, <2>2 DEF DocBooks, Books, IInv, RefsUnique
<1> QED
  BY <1>1, DocInitInv, DocStep, PTL DEF DocSpec

-----------------------------------------------------------------------------
(***************************************************************************)
(* What a document's entries leave on the accounts it is owed on.          *)
(***************************************************************************)

\* What the payments of a document put there together.
LEMMA PaymentsPut ==
  ASSUME DocBooks, NEW d \in Docs, NEW kind, kind = documents[d].kind,
         \A p \in documents[d].payments : Puts(p[1], kind) = -Side(kind, p[2])
  PROVE  LET E == {p[1] : p \in documents[d].payments}
         IN  IsFiniteSet(E) /\ OnRows(entries, E, Control[kind]) = -Side(kind, documents[d].paid)
<1> DEFINE P == documents[d].payments
           E == {p[1] : p \in P}
           h == [p \in P |-> p[1]]
           F == [p \in P |-> -Side(kind, p[2])]
           G == [e \in E |-> OnLines(entries[e].lines, Control[kind])]
           paid == documents[d].paid
<1>1. /\ IsFiniteSet(P) /\ paid \in Nat
      /\ \A p \in P : p[1] \in Ids /\ p[2] \in Nat
      /\ paid = Total(Seconds(P), P)
  BY DocFields DEF DocBooks, Papers, RowsAgree, RowAddsUp
<1>2. \A p, q \in P : p[1] = q[1] => p = q
  BY DEF DocBooks, Papers, Apart
<1>3. IsFiniteSet(E)
  <2>1. E \subseteq Ids
    BY <1>1
  <2>2. Books
    BY DEF DocBooks
  <2> HIDE DEF E
  <2> QED
    BY <2>1, <2>2, BooksRows
<1>4. /\ E = {h[p] : p \in P} /\ DOMAIN h = P
      /\ \A p, q \in P : h[p] = h[q] => p = q
  BY <1>2
<1>5. \A p \in P : F[p] = -Side(kind, p[2]) /\ G[h[p]] = F[p]
  BY DEF Puts
<1>6. \A p \in P : F[p] \in Int
  BY <1>1, <1>5 DEF Side
<1>7. OnRows(entries, E, Control[kind]) = Total(G, E)
  BY DEF OnRows
<1>8. \A p \in P : Seconds(P)[p] = p[2] /\ Seconds(P)[p] \in Int
  BY <1>1 DEF Seconds
<1> HIDE DEF P, E, h, F, G
<1>9. Total(G, {h[p] : p \in P}) = Total(F, P)
  BY <1>1, <1>4, <1>5, <1>6, TotalMap
<1>10. Total(F, P) = -Side(kind, paid)
  <2>1. CASE kind = "bill"
    <3>1. \A p \in P : F[p] = Seconds(P)[p]
      BY <1>5, <1>8, <2>1 DEF Side
    <3>2. Total(F, P) = Total(Seconds(P), P)
      BY <1>1, <3>1, TotalSame
    <3> HIDE DEF paid
    <3> QED
      BY <1>1, <2>1, <3>2 DEF Side
  <2>2. CASE kind # "bill"
    <3>1. \A p \in P : Seconds(P)[p] \in Int /\ F[p] = -Seconds(P)[p]
      BY <1>5, <1>8, <2>2 DEF Side
    <3>2. Total(F, P) = -Total(Seconds(P), P)
      BY <1>1, <3>1, TotalMinus
    <3> HIDE DEF paid
    <3> QED
      BY <1>1, <2>2, <3>2 DEF Side
  <2> QED
    BY <2>1, <2>2
<1> QED
  BY <1>3, <1>4, <1>7, <1>9, <1>10 DEF E, P

LEMMA OwedIs ==
  ASSUME DocBooks, AsPosted, NEW d \in Docs, Agreed(d)
  PROVE  Owed(d) = Signed(d, Outstanding(d))
<1> DEFINE doc == documents[d]
           A == Control[documents[d].kind]
           E == {p[1] : p \in doc.payments}
           S == {doc.entry}
<1>0. Books
  BY DEF DocBooks
<1>1. /\ doc.entry \in Ids /\ doc.amount \in Nat /\ doc.paid \in Nat /\ RowAddsUp(doc)
      /\ \A p \in doc.payments : p[1] \in Ids
  BY DocFields DEF DocBooks, Papers, DocShape, RowsAgree
<1>2. EntriesOf(d) = S \cup E
  BY DEF EntriesOf
<1>3. /\ Live(doc.entry) <=> doc.status # "void"
      /\ Puts(doc.entry, doc.kind) = Side(doc.kind, doc.amount)
      /\ \A p \in doc.payments : Live(p[1]) /\ Puts(p[1], doc.kind) = -Side(doc.kind, p[2])
  <2>1. doc.entry \notin touched /\ \A p \in doc.payments : p[1] \notin touched
    BY DEF Agreed, EntriesOf
  <2> QED
    BY <2>1 DEF AsPosted, EntryStands, PaymentStands
<1>4. S \cap E = {}
  BY DEF DocBooks, Papers, Apart
<1>5. \A D \in SUBSET Ids : Sum(D, A) = OnRows(entries, D, A)
  BY <1>0, BooksSums
<1>6. Owed(d) = Sum({e \in EntriesOf(d) : Live(e)}, A)
  BY DEF Owed
<1>7. CASE doc.status = "void"
  <2>1. doc.payments = {}
    BY <1>1, <1>7 DEF RowAddsUp
  <2>2. {e \in EntriesOf(d) : Live(e)} = {}
    BY <1>2, <1>3, <1>7, <2>1
  <2>3. OnRows(entries, {}, A) = 0
    BY TotalEmpty DEF OnRows
  <2>4. {} \in SUBSET Ids
    OBVIOUS
  <2>5. Sum({}, A) = 0
    BY <1>5, <2>3, <2>4
  <2>6. Signed(d, Outstanding(d)) = 0
    <3>1. \A n \in Int : n <= 0 /\ n >= 0 => Signed(d, n) = n
      BY ONLY DEF Signed
    <3>2. Outstanding(d) = 0
      BY <1>7 DEF Outstanding
    <3> HIDE DEF doc
    <3> QED
      BY <3>1, <3>2
  <2> HIDE DEF A
  <2> QED
    BY <1>6, <2>2, <2>5, <2>6
<1>8. CASE doc.status # "void"
  <2>1. {e \in EntriesOf(d) : Live(e)} = S \cup E
    BY <1>2, <1>3, <1>8
  <2>2. S \cup E \in SUBSET Ids
    BY <1>1
  <2>3. /\ IsFiniteSet(S) /\ IsFiniteSet(E)
        /\ \A e \in S \cup E : entries[e].lines \in Seq(Line)
    <3>1. S \in SUBSET Ids /\ E \in SUBSET Ids
      BY <1>1
    <3> HIDE DEF S, E
    <3> QED
      BY <1>0, <2>2, <3>1, BooksRows
  <2>4. OnRows(entries, S, A) = Side(doc.kind, doc.amount)
    <3>1. entries[doc.entry].lines \in Seq(Line)
      BY <2>3
    <3>2. OnRows(entries, {doc.entry}, A) = OnLines(entries[doc.entry].lines, A)
      BY <3>1, OneRow
    <3> QED
      BY <1>3, <3>2 DEF Puts
  <2>5. OnRows(entries, E, A) = -Side(doc.kind, doc.paid)
    BY <1>3, PaymentsPut
  <2>6. Owed(d) = Sum(S \cup E, A)
    BY <1>6, <2>1
  <2> HIDE DEF S, E, A
  <2>7. OnRows(entries, S \cup E, A) = OnRows(entries, S, A) + OnRows(entries, E, A)
    BY <1>4, <2>3, RowsUnion
  <2>8. Owed(d) = Side(doc.kind, doc.amount) + (-Side(doc.kind, doc.paid))
    BY <1>5, <2>2, <2>4, <2>5, <2>6, <2>7
  <2>9. Signed(d, Outstanding(d)) = Side(doc.kind, doc.amount - doc.paid)
    BY <1>8 DEF Signed, Outstanding, Remaining, Side
  <2> HIDE DEF doc
  <2> QED
    BY <1>1, <2>8, <2>9 DEF Side
<1> QED
  BY <1>7, <1>8

LEMMA Strengthened ==
  ASSUME ControlApart
  PROVE  DocSpec => [](DocBooks /\ AsPosted)
<1>1. DocBooks /\ AsPosted /\ [DocNext]_docVars => (DocBooks /\ AsPosted)'
  BY DocStep
<1> QED
  BY <1>1, DocInitInv, PTL DEF DocSpec

\* A document nobody touched in the journal is owed for what its row says, in
\* every order of issues, payments, voids and year ends.
THEOREM LedgerAgreement ==
  ASSUME ControlApart
  PROVE  DocSpec => []LedgerAgrees
<1>1. DocBooks /\ AsPosted => LedgerAgrees
  BY OwedIs DEF LedgerAgrees
<1> QED
  BY <1>1, Strengthened, PTL


-----------------------------------------------------------------------------
(***************************************************************************)
(* The ledger's view of documents is a specification of debts.  While rows *)
(* and ledger agree the view can be read off the rows.                     *)
(***************************************************************************)

Debt(d) ==
  IF Agreed(d) THEN [state |-> "agreed", whole |-> documents[d].amount, left |-> Outstanding(d)]
  ELSE [state |-> "disputed", whole |-> 0, left |-> 0]

Claims == [d \in Docs |-> Debt(d)]

DebtRecord == [state : {"agreed", "disputed"}, whole : Int, left : Int]

LEMMA OutstandingIs ==
  ASSUME DocBooks, NEW d \in Docs
  PROVE  Outstanding(d) \in Nat /\ documents[d].amount \in Nat /\ Debt(d) \in DebtRecord
<1>1. /\ documents[d].amount \in Nat /\ documents[d].paid \in Nat
      /\ documents[d].paid <= documents[d].amount
  BY DocFields DEF DocBooks, Papers, RowsAgree, RowAddsUp
<1>2. Outstanding(d) \in Nat
  BY <1>1 DEF Outstanding, Remaining
<1> QED
  BY <1>1, <1>2 DEF Debt, DebtRecord

LEMMA LedgerView == DocBooks /\ AsPosted => DebtsOfLedger = Claims
<1> SUFFICES ASSUME DocBooks, AsPosted, NEW d \in Docs, Agreed(d)
             PROVE  Signed(d, Owed(d)) = Outstanding(d)
  BY DEF DebtsOfLedger, Claims, Debt
<1>1. Owed(d) = Signed(d, Outstanding(d)) /\ Outstanding(d) \in Nat
  BY OwedIs, OutstandingIs
<1>2. \A n \in Nat : Signed(d, Signed(d, n)) = n
  BY DEF Signed
<1> QED
  BY <1>1, <1>2

LEMMA LedgerViewNext == (DocBooks /\ AsPosted)' => (DebtsOfLedger = Claims)'
BY LedgerView, PTL

LEMMA DebtKept ==
  ASSUME NEW c, documents'[c] = documents[c], Agreed(c)' <=> Agreed(c)
  PROVE  Debt(c)' = Debt(c)
BY DEF Debt, Outstanding, Remaining

LEMMA NextEntry == DocBooks => Len(entries) + 1 \notin Ids
<1> SUFFICES ASSUME DocBooks PROVE Len(entries) + 1 \notin Ids
  OBVIOUS
<1>1. Ids = 1..Len(entries) /\ Len(entries) \in Nat
  BY LenProperties DEF DocBooks, Books, IInv, Shape, Tuple, Ids
<1> QED
  BY <1>1

LEMMA IssueIncurs ==
  ASSUME DocBooks, DocBooks', NEW y \in Years, NEW n \in Issues, NEW control \in Control[n.kind],
         Issue(y, n, control), NEW m, m = Len(documents) + 1
  PROVE  Claims' = Append(Claims, [state |-> "agreed", whole |-> n.amount, left |-> n.amount])
<1> DEFINE k == Len(entries) + 1
           q == [kind |-> n.kind, amount |-> n.amount, entry |-> k,
                 paid |-> 0, status |-> "open", payments |-> {}]
           debt == [state |-> "agreed", whole |-> n.amount, left |-> n.amount]
<1>1. /\ touched' = touched /\ documents' = Append(documents, q)
      /\ documents \in Seq(Document) /\ documents' \in Seq(Document)
  BY DEF Issue, DocBooks, Papers, DocShape
<1>2. k \notin Ids /\ touched \subseteq Ids
  BY NextEntry DEF DocBooks, Papers, DocShape
<1>3. /\ q.amount = n.amount /\ q.entry = k /\ q.paid = 0
      /\ q.status = "open" /\ q.payments = {}
  OBVIOUS
<1>4. n.amount \in Nat
  BY DocumentsAssumption
<1>5. /\ Len(documents) \in Nat /\ Docs = 1..Len(documents) /\ Docs' = 1..m
      /\ documents'[m] = q
      /\ \A c \in Docs : documents'[c] = documents[c]
  <2> HIDE DEF q
  <2>1. q \in Document
    <3>1. m \in 1..Len(documents') /\ documents'[m] = q
      BY <1>1, AppendProperties, LenProperties
    <3> QED
      BY <1>1, <3>1, ElementOfSeq
  <2>2. /\ Len(documents') = Len(documents) + 1
        /\ \A c \in 1..Len(documents) : documents'[c] = documents[c]
        /\ documents'[Len(documents) + 1] = q
    BY <1>1, <2>1, AppendProperties
  <2> QED
    BY <1>1, <2>2, LenProperties DEF Docs
<1> HIDE DEF k, q
<1>6. \A c \in Docs : Debt(c)' = Debt(c)
  <2> SUFFICES ASSUME NEW c \in Docs
               PROVE  Debt(c)' = Debt(c)
    OBVIOUS
  <2>1. documents'[c] = documents[c]
    BY <1>5
  <2>2. EntriesOf(c)' = EntriesOf(c)
    BY <2>1 DEF EntriesOf
  <2>3. Agreed(c)' <=> Agreed(c)
    BY <1>1, <2>2 DEF Agreed
  <2> QED
    BY <2>1, <2>3, DebtKept
<1>7. Debt(m)' = debt
  <2>1. EntriesOf(m)' = {k}
    BY <1>3, <1>5 DEF EntriesOf
  <2>2. Agreed(m)'
    BY <1>1, <1>2, <2>1 DEF Agreed
  <2>3. Outstanding(m)' = n.amount
    BY <1>3, <1>4, <1>5 DEF Outstanding, Remaining
  <2> QED
    BY <1>3, <1>5, <2>2, <2>3 DEF Debt
<1>8. debt \in DebtRecord
  BY <1>4 DEF DebtRecord
<1> HIDE DEF debt
<1>9. Claims \in Seq(DebtRecord) /\ Len(Claims) = Len(documents)
  <2>1. \A c \in Docs : Debt(c) \in DebtRecord
    BY OutstandingIs
  <2>2. Claims \in [1..Len(documents) -> DebtRecord]
    BY <1>5, <2>1 DEF Claims
  <2> QED
    BY <1>5, <2>2, SeqDef, LenProperties
<1>10. /\ Append(Claims, debt) \in Seq(DebtRecord) /\ Len(Append(Claims, debt)) = m
       /\ \A c \in Docs : Append(Claims, debt)[c] = Claims[c]
       /\ Append(Claims, debt)[m] = debt
  BY <1>5, <1>8, <1>9, AppendProperties
<1>11. DOMAIN Append(Claims, debt) = 1..m
  BY <1>10, LenProperties
<1>12. \A c \in 1..m : Debt(c)' = Append(Claims, debt)[c]
  <2>1. \A c \in Docs : Claims[c] = Debt(c)
    BY DEF Claims
  <2>2. \A c \in 1..m : c \in Docs \/ c = m
    BY <1>5
  <2> QED
    BY <1>6, <1>7, <1>10, <2>1, <2>2
<1>13. Claims' = [c \in 1..m |-> Debt(c)']
  BY <1>5 DEF Claims
<1>14. Append(Claims, debt) = [c \in 1..m |-> Append(Claims, debt)[c]]
  BY <1>10, <1>11, LenProperties
<1> QED
  BY <1>12, <1>13, <1>14 DEF debt


LEMMA PaymentPays ==
  ASSUME DocBooks, NEW y \in Years, NEW d \in Docs, NEW cash \in PaidFrom,
         NEW control \in Control[documents[d].kind], NEW n \in Applied(d),
         ApplyPayment(y, d, control, cash, n)
  PROVE  /\ n \in 1..Outstanding(d)
         /\ Docs' = Docs
         /\ \A c \in Docs \ {d} : Debt(c)' = Debt(c)
         /\ Agreed(d)' <=> Agreed(d)
         /\ documents'[d].amount = documents[d].amount
         /\ Outstanding(d)' = Outstanding(d) - n
<1> DEFINE k == Len(entries) + 1
           doc == documents[d]
           q == [doc EXCEPT !.paid = @ + n, !.status = StatusFor(doc.amount, doc.paid + n),
                            !.payments = @ \cup {<<k, n>>}]
<1>1. /\ touched' = touched /\ documents' = [documents EXCEPT ![d] = q]
      /\ doc.status # "void" /\ n <= doc.amount - doc.paid
  BY DEF ApplyPayment, RecordPayment, Remaining
<1>2. doc \in Document /\ doc.amount \in Nat /\ doc.paid \in Nat
  BY DocFields DEF DocBooks, Papers
<1>3. k \notin Ids
  BY NextEntry
<1>4. n \in Nat \ {0}
  BY <1>2 DEF Applied, Whole
<1>5. /\ q.amount = doc.amount /\ q.entry = doc.entry /\ q.paid = doc.paid + n
      /\ q.status = StatusFor(doc.amount, doc.paid + n)
      /\ q.payments = doc.payments \cup {<<k, n>>}
  BY <1>2 DEF Document
<1> HIDE DEF q
<1>6. /\ Docs' = Docs /\ documents'[d] = q
      /\ \A c \in Docs : c # d => documents'[c] = documents[c]
  BY <1>1 DEF Docs
<1>7. /\ documents'[d].entry = doc.entry /\ documents'[d].amount = doc.amount
      /\ documents'[d].paid = doc.paid + n /\ documents'[d].status # "void"
      /\ documents'[d].payments = doc.payments \cup {<<k, n>>}
  BY <1>5, <1>6 DEF StatusFor
<1>8. ASSUME NEW c \in Docs \ {d}
      PROVE  Debt(c)' = Debt(c)
  <2>1. documents'[c] = documents[c]
    BY <1>6
  <2>2. EntriesOf(c)' = EntriesOf(c)
    BY <2>1 DEF EntriesOf
  <2>3. Agreed(c)' <=> Agreed(c)
    BY <1>1, <2>2 DEF Agreed
  <2> QED
    BY <2>1, <2>3, DebtKept
<1>9. Agreed(d)' <=> Agreed(d)
  <2> DEFINE x == <<k, n>>
  <2>1. documents'[d].payments = doc.payments \cup {x} /\ x[1] = k
    BY <1>7
  <2> HIDE DEF x, k
  <2>2. EntriesOf(d)' = EntriesOf(d) \cup {k}
    BY <1>7, <2>1 DEF EntriesOf
  <2>3. k \notin touched
    BY <1>3 DEF DocBooks, Papers, DocShape
  <2> QED
    BY <1>1, <2>2, <2>3 DEF Agreed
<1>10. /\ Outstanding(d) = doc.amount - doc.paid
       /\ Outstanding(d)' = doc.amount - (doc.paid + n)
  BY <1>1, <1>7 DEF Outstanding, Remaining
<1> HIDE DEF doc
<1> QED
  BY <1>1, <1>2, <1>4, <1>6, <1>7, <1>8, <1>9, <1>10 DEF doc

LEMMA VoidCancels ==
  ASSUME DocBooks, NEW d \in Docs, VoidDocument(d)
  PROVE  /\ Outstanding(d) = documents[d].amount
         /\ Docs' = Docs
         /\ \A c \in Docs \ {d} : Debt(c)' = Debt(c)
         /\ Agreed(d)' <=> Agreed(d)
         /\ documents'[d].amount = documents[d].amount
         /\ Outstanding(d)' = 0
<1> DEFINE doc == documents[d]
           q == [doc EXCEPT !.status = "void"]
<1>1. /\ touched' = touched /\ documents' = [documents EXCEPT ![d] = q]
      /\ doc.status # "void" /\ doc.paid = 0
  BY DEF VoidDocument, Voidable
<1>2. doc \in Document /\ doc.amount \in Nat
  BY DocFields DEF DocBooks, Papers
<1>3. /\ q.amount = doc.amount /\ q.entry = doc.entry /\ q.status = "void"
      /\ q.payments = doc.payments
  BY <1>2 DEF Document
<1> HIDE DEF q
<1>4. /\ Docs' = Docs /\ documents'[d] = q
      /\ \A c \in Docs : c # d => documents'[c] = documents[c]
  BY <1>1 DEF Docs
<1>5. \A c \in Docs : EntriesOf(c)' = EntriesOf(c)
  BY <1>3, <1>4 DEF EntriesOf
<1>6. \A c \in Docs : Agreed(c)' <=> Agreed(c)
  BY <1>1, <1>5 DEF Agreed
<1>7. ASSUME NEW c \in Docs \ {d}
      PROVE  Debt(c)' = Debt(c)
  BY <1>4, <1>6, DebtKept
<1>8. Outstanding(d) = doc.amount
  <2>1. Outstanding(d) = doc.amount - doc.paid
    BY <1>1 DEF Outstanding, Remaining
  <2> HIDE DEF doc
  <2> QED
    BY <1>1, <1>2, <2>1
<1>9. Outstanding(d)' = 0
  BY <1>3, <1>4 DEF Outstanding
<1> QED
  BY <1>3, <1>4, <1>6, <1>7, <1>8, <1>9

LEMMA LedgerDisputes ==
  ASSUME DocBooks, JournalStep, NEW D, D = {c \in Docs : ~Agreed(c)'}
  PROVE  /\ Docs' = Docs
         /\ \A c \in D : Debt(c)' = [state |-> "disputed", whole |-> 0, left |-> 0]
         /\ \A c \in Docs \ D : Debt(c)' = Debt(c)
<1>1. documents' = documents /\ touched \subseteq touched' /\ Docs' = Docs
  BY DEF JournalStep, Docs
<1>2. \A c \in D : Debt(c)' = [state |-> "disputed", whole |-> 0, left |-> 0]
  BY DEF Debt
<1>3. ASSUME NEW c \in Docs \ D
      PROVE  Debt(c)' = Debt(c)
  <2>1. EntriesOf(c)' = EntriesOf(c)
    BY <1>1 DEF EntriesOf
  <2>2. Agreed(c)' /\ Agreed(c)
    BY <1>1, <2>1 DEF Agreed
  <2> QED
    BY <1>1, <2>2, DebtKept
<1> QED
  BY <1>1, <1>2, <1>3

LEMMA DebtsStep ==
  ASSUME DocBooks, AsPosted, (DocBooks /\ AsPosted)', [DocNext]_docVars
  PROVE  [Abstract!Next]_DebtsOfLedger
<1>1. DebtsOfLedger = Claims /\ DebtsOfLedger' = Claims'
  BY LedgerView, LedgerViewNext
<1>2. DOMAIN Claims = Docs /\ \A c \in Docs : Claims[c] = Debt(c)
  BY DEF Claims
<1>3. CASE UNCHANGED docVars
  <2>1. documents' = documents /\ touched' = touched /\ Docs' = Docs
    BY <1>3 DEF docVars, Docs
  <2>2. \A c \in Docs : Debt(c)' = Debt(c)
    BY <2>1 DEF Debt, Agreed, EntriesOf, Outstanding, Remaining
  <2>3. Claims' = Claims
    BY <2>1, <2>2 DEF Claims
  <2> QED
    BY <1>1, <2>3
<1>4. CASE JournalStep
  <2>1. PICK D : D = {c \in Docs : ~Agreed(c)'}
    OBVIOUS
  <2>2. /\ Docs' = Docs
        /\ \A c \in D : Debt(c)' = [state |-> "disputed", whole |-> 0, left |-> 0]
        /\ \A c \in Docs \ D : Debt(c)' = Debt(c)
    BY <1>4, <2>1, LedgerDisputes
  <2>3. Claims' = [c \in Docs |-> IF c \in D THEN [state |-> "disputed", whole |-> 0, left |-> 0]
                                  ELSE Claims[c]]
    BY <1>2, <2>2 DEF Claims
  <2>4. D \in SUBSET DOMAIN Claims
    BY <1>2, <2>1
  <2>5. Abstract!Dispute(D)
    BY <1>1, <1>2, <2>3 DEF Abstract!Dispute
  <2> QED
    BY <1>1, <2>4, <2>5 DEF Abstract!Next
<1>5. ASSUME NEW y \in Years, NEW n \in Issues, NEW control \in Control[n.kind],
             Issue(y, n, control)
      PROVE  Abstract!Next
  <2>1. Claims' = Append(Claims, [state |-> "agreed", whole |-> n.amount, left |-> n.amount])
    BY <1>5, IssueIncurs
  <2>2. Abstract!Incur(n.amount)
    BY <1>1, <2>1 DEF Abstract!Incur
  <2> QED
    BY <2>2 DEF Abstract!Next
<1>6. ASSUME NEW y \in Years, NEW d \in Docs, NEW cash \in PaidFrom,
             NEW control \in Control[documents[d].kind], NEW n \in Applied(d),
             ApplyPayment(y, d, control, cash, n)
      PROVE  [Abstract!Next]_DebtsOfLedger
  <2>1. /\ n \in 1..Outstanding(d)
        /\ Docs' = Docs
        /\ \A c \in Docs \ {d} : Debt(c)' = Debt(c)
        /\ Agreed(d)' <=> Agreed(d)
        /\ documents'[d].amount = documents[d].amount
        /\ Outstanding(d)' = Outstanding(d) - n
    BY <1>6, PaymentPays
  <2>2. Outstanding(d) \in Nat
    BY OutstandingIs
  <2>3. CASE ~Agreed(d)
    <3>1. Debt(d)' = Debt(d)
      BY <2>1, <2>3 DEF Debt
    <3>2. Claims' = Claims
      BY <2>1, <3>1 DEF Claims
    <3> QED
      BY <1>1, <3>2
  <2>4. CASE Agreed(d)
    <3>1. Claims[d] = [state |-> "agreed", whole |-> documents[d].amount, left |-> Outstanding(d)]
      BY <1>2, <2>4 DEF Debt
    <3>2. Debt(d)' = [Claims[d] EXCEPT !.left = @ - n]
      BY <2>1, <2>4, <3>1 DEF Debt
    <3>3. Claims' = [Claims EXCEPT ![d].left = @ - n]
      BY <1>2, <2>1, <3>2 DEF Claims
    <3>4. Abstract!Pay(d, n)
      BY <1>1, <2>1, <2>2, <3>1, <3>3 DEF Abstract!Pay, Abstract!Disputed
    <3>5. d \in DOMAIN DebtsOfLedger /\ n \in 1..DebtsOfLedger[d].left
      BY <1>1, <1>2, <2>1, <3>1
    <3> QED
      BY <3>4, <3>5 DEF Abstract!Next
  <2> QED
    BY <2>3, <2>4
<1>7. ASSUME NEW d \in Docs, VoidDocument(d)
      PROVE  [Abstract!Next]_DebtsOfLedger
  <2>1. /\ Outstanding(d) = documents[d].amount
        /\ Docs' = Docs
        /\ \A c \in Docs \ {d} : Debt(c)' = Debt(c)
        /\ Agreed(d)' <=> Agreed(d)
        /\ documents'[d].amount = documents[d].amount
        /\ Outstanding(d)' = 0
    BY <1>7, VoidCancels
  <2>2. CASE ~Agreed(d)
    <3>1. Debt(d)' = Debt(d)
      BY <2>1, <2>2 DEF Debt
    <3>2. Claims' = Claims
      BY <2>1, <3>1 DEF Claims
    <3> QED
      BY <1>1, <3>2
  <2>3. CASE Agreed(d)
    <3>1. Claims[d] = [state |-> "agreed", whole |-> documents[d].amount, left |-> Outstanding(d)]
      BY <1>2, <2>3 DEF Debt
    <3>2. Debt(d)' = [Claims[d] EXCEPT !.left = 0]
      BY <2>1, <2>3, <3>1 DEF Debt
    <3>3. Claims' = [Claims EXCEPT ![d].left = 0]
      BY <1>2, <2>1, <3>2 DEF Claims
    <3>4. Abstract!Cancel(d)
      BY <1>1, <2>1, <3>1, <3>3 DEF Abstract!Cancel, Abstract!Disputed
    <3>5. d \in DOMAIN DebtsOfLedger
      BY <1>1, <1>2
    <3> QED
      BY <3>4, <3>5 DEF Abstract!Next
  <2> QED
    BY <2>2, <2>3
<1> QED
  BY <1>3, <1>4, <1>5, <1>6, <1>7 DEF DocNext

\* Bills and invoices over the journal implement debts: in the live entries a
\* document's debt comes whole, is only paid down, never beyond zero, and is
\* cancelled only while nothing was paid; what a journal command changes of it
\* takes it out of the document's hands for good.
THEOREM DocumentsAreDebts ==
  ASSUME ControlApart
  PROVE  DocSpec => ImplementsDebts
<1>1. DocInit => Abstract!Init
  <2> SUFFICES ASSUME DocInit PROVE DebtsOfLedger = << >>
    BY DEF Abstract!Init
  <2>1. Docs = {}
    BY EmptySeq, LenProperties DEF DocInit, Docs
  <2> QED
    BY <2>1 DEF DebtsOfLedger
<1>2. DocBooks /\ AsPosted /\ (DocBooks /\ AsPosted)' /\ [DocNext]_docVars
        => [Abstract!Next]_DebtsOfLedger
  BY DebtsStep
<1>3. DocSpec => [](DocBooks /\ AsPosted)
  BY Strengthened
<1> QED
  BY <1>1, <1>2, <1>3, PTL DEF DocSpec, ImplementsDebts, Abstract!Spec

=============================================================================
