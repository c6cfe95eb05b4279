--------------------------- MODULE BankFeed_proofs ---------------------------
(***************************************************************************)
(* Proofs about the bank feed, for any transactions, accounts, pulls and   *)
(* bounds.  The journal's own invariant is carried along: an import posts  *)
(* what the journal could have posted.                                     *)
(***************************************************************************)
EXTENDS BankFeed, Journal_proofs

Rows ==
  /\ mapping \in [Feeds -> Accounts \cup {Nowhere}]
  /\ review \in [Txns -> Statuses]
  /\ candidates \in SUBSET Candidate
  /\ imported \in [Txns -> Nat]

\* An entry of the feed is one the journal may post, and it mentions the
\* transactions it imports and no others.
FeedShape(r, T) ==
  /\ EntryShape(r)
  /\ r.source = "manual"
  /\ ~r.void
  /\ r.ref \in Refs
  /\ \A t \in Txns : Mentions(r.ref, t) <=> t \in T

\* An import under way carries such an entry of its legs, and while its candidate
\* has not been marked or deleted since, that stands open.
LoadShape(m) ==
  /\ m \in [legs : Txns \X Txns, entry : {m.entry},
            status : {"pending", "manual", "rejected", "confirmed", "deleted"}]
  /\ FeedShape(m.entry, Legs(m))
  /\ IsOpen(m) => RowOf(m) \in candidates

Loads == \A m \in loaded : LoadShape(m)

FeedInv ==
  /\ IInv
  /\ Rows
  /\ Loads
  /\ BookedOnce
  /\ ReviewAgrees

-----------------------------------------------------------------------------

\* A reference mentions its own transactions and no others: no reference of a
\* year end or of a posting mentions any.
LEMMA Mentioned ==
  /\ \A t \in Txns : \A u \in Txns : Mentions(t, u) <=> t = u
  /\ \A t, u, w \in Txns : Mentions(TransferRef(t, u), w) <=> w \in {t, u}
  /\ \A r \in OwnRefs, t \in Txns : ~Mentions(r, t)
<1> USE BankFeedAssumption, JournalAssumption
<1>1. \A t, u \in Txns : <<t, u>> \in Txns \X Txns
  OBVIOUS
<1>2. \A t \in Txns : \A u \in Txns : Mentions(t, u) <=> t = u
  BY <1>1 DEF Mentions, TransferRef
<1>3. \A t, u, w \in Txns : Mentions(TransferRef(t, u), w) <=> w \in {t, u}
  BY <1>1 DEF Mentions, TransferRef
<1>4. ASSUME NEW r \in OwnRefs, NEW t \in Txns, Mentions(r, t)
      PROVE  FALSE
  <2>1. r \in Txns \cup (Txns \X Txns)
    BY <1>1, <1>4 DEF Mentions, TransferRef
  <2>2. r \in YearRefs \/ \E p \in Postings : r = p[3]
    BY <1>4 DEF OwnRefs
  <2> QED
    BY <2>1, <2>2
<1> QED
  BY <1>2, <1>3, <1>4

\* A step that keeps every reference, adds none of the feed's and imports nothing
\* keeps the transactions where they are booked.
LEMMA BookedKept ==
  ASSUME BookedOnce, RefsKept, UNCHANGED imported
  PROVE  BookedOnce'
<1> SUFFICES ASSUME NEW t \in Txns
             PROVE  {e \in Ids' : Mentions(entries'[e].ref, t)}
                      = IF imported[t] = 0 THEN {} ELSE {imported[t]}
  BY DEF BookedOnce, Mentions, TransferRef
<1>1. {e \in Ids : Mentions(entries[e].ref, t)} = IF imported[t] = 0 THEN {} ELSE {imported[t]}
  BY DEF BookedOnce
<1>2. \A e \in Ids : e \in Ids' /\ entries'[e].ref = entries[e].ref
  BY DEF RefsKept
<1>3. \A e \in Ids' \ Ids : ~Mentions(entries'[e].ref, t)
  BY Mentioned DEF RefsKept
<1>4. {e \in Ids' : Mentions(entries'[e].ref, t)} = {e \in Ids : Mentions(entries[e].ref, t)}
  BY <1>2, <1>3
<1> QED
  BY <1>1, <1>4

\* What no command of the review changes.
LEMMA LedgerKept ==
  ASSUME UNCHANGED vars
  PROVE  /\ IInv => IInv'
         /\ RefsKept
<1>1. IInv => IInv'
  BY InvStep
<1> QED
  BY <1>1 DEF vars, RefsKept, Ids

-----------------------------------------------------------------------------
(* The review.                                                             *)

\* Setting the status of some rows.
LEMMA StatusSet ==
  ASSUME NEW rows \in [Txns -> Statuses], NEW T, NEW s \in Statuses
  PROVE  /\ SetStatus(rows, T, s) \in [Txns -> Statuses]
         /\ \A t \in Txns : SetStatus(rows, T, s)[t] = IF t \in T THEN s ELSE rows[t]
BY DEF SetStatus

\* Marking candidates closes them, and touches no other.
LEMMA Marked ==
  ASSUME candidates \in SUBSET Candidate, NEW C \in SUBSET candidates,
         NEW s \in {"rejected", "confirmed"}, candidates' = MarkAs(C, s)
  PROVE  /\ candidates' \in SUBSET Candidate
         /\ \A t : OpenWith(t)' = OpenWith(t) \ C
<1>1. \A c \in C : LET d == [c EXCEPT !.status = s] IN d \in Candidate /\ ~IsOpen(d)
  BY DEF Candidate, IsOpen
<1>2. candidates' \in SUBSET Candidate
  BY <1>1 DEF MarkAs
<1>3. ASSUME NEW t
      PROVE  OpenWith(t)' = OpenWith(t) \ C
  BY <1>1 DEF MarkAs, OpenWith
<1> QED
  BY <1>2, <1>3

\* ReviewAgrees, a row at a time.
Agrees(t) ==
  /\ review[t] = "imported" <=> imported[t] # 0
  /\ IF review[t] = "matched" THEN \E c \in candidates : OpenWith(t) = {c}
     ELSE OpenWith(t) = {}

\* The imports under way, when the rows of C are marked or deleted.
LEMMA LoadsFollow ==
  ASSUME Loads, NEW L \in SUBSET loaded, NEW C, candidates \ C \subseteq candidates',
         NEW s \in {"rejected", "confirmed", "deleted"}, loaded' = Follow(L, C, s)
  PROVE  /\ Loads'
         /\ \A m \in loaded' : \E n \in loaded : m.entry = n.entry
<1> SUFFICES ASSUME NEW m \in loaded'
             PROVE  LoadShape(m)' /\ \E n \in loaded : m.entry = n.entry
  BY DEF Loads
<1>1. PICK n \in L : m = IF RowOf(n) \in C THEN [n EXCEPT !.status = s] ELSE n
  BY DEF Follow
<1>2. LoadShape(n)
  BY DEF Loads
<1>3. CASE RowOf(n) \in C
  <2>1. /\ m \in [legs : Txns \X Txns, entry : {m.entry},
                  status : {"pending", "manual", "rejected", "confirmed", "deleted"}]
        /\ m.entry = n.entry /\ m.legs = n.legs /\ m.status = s
    BY <1>1, <1>2, <1>3 DEF LoadShape
  <2>2. ~IsOpen(m) /\ Legs(m) = Legs(n)
    BY <2>1 DEF IsOpen, Legs
  <2> QED
    BY <1>2, <2>1, <2>2 DEF LoadShape, FeedShape, Legs, IsOpen, Mentions, TransferRef
<1>4. CASE RowOf(n) \notin C
  <2>1. m = n /\ (IsOpen(n) => RowOf(n) \in candidates')
    BY <1>1, <1>2, <1>4 DEF LoadShape
  <2> QED
    BY <1>2, <2>1 DEF LoadShape, FeedShape, Legs, IsOpen, RowOf, Mentions, TransferRef
<1> QED
  BY <1>3, <1>4

LEMMA LoadStands ==
  ASSUME NEW m, LoadShape(m), candidates \subseteq candidates'
  PROVE  LoadShape(m)'
BY DEF LoadShape, FeedShape, Legs, IsOpen, RowOf, Mentions, TransferRef

\* Fewer imports, and more candidates.
LEMMA LoadsKept ==
  ASSUME Loads, loaded' \in SUBSET loaded, candidates \subseteq candidates'
  PROVE  Loads'
<1> SUFFICES ASSUME NEW m \in loaded PROVE LoadShape(m)'
  BY DEF Loads
<1> QED
  BY LoadStands DEF Loads

\* A pair found is a pair of different rows; two pairs found share none.
LEMMA DetectStep ==
  ASSUME Rows, NEW rows \in [Txns -> Statuses], Detect(rows),
         UNCHANGED <<mapping, imported>>
  PROVE  /\ Rows'
         /\ Loads => Loads'
         /\ \A t \in Txns :
              /\ Agrees(t)
              /\ rows[t] = "imported" <=> review[t] = "imported"
              /\ rows[t] = "matched" <=> review[t] = "matched"
              => Agrees(t)'
<1> DEFINE open == Reopened(rows)
           found == {p \in Txns \X Txns : Pairable(p[1], p[2], open)}
<1>1. PICK P \in SUBSET found :
        /\ Matching(P, found)
        /\ candidates' = (candidates \ Detected) \cup {[legs |-> p, status |-> "pending"] : p \in P}
        /\ review' = SetStatus(open, UNION {{p[1], p[2]} : p \in P}, "matched")
        /\ loaded' = Follow(loaded, Detected, "deleted")
  BY DEF Detect
<1>2. /\ open \in [Txns -> Statuses]
      /\ \A t \in Txns : open[t] = IF rows[t] = "matched" /\ t \notin HeldByHand
                                   THEN "pending" ELSE rows[t]
  BY StatusSet DEF Reopened, Statuses
<1> HIDE DEF open
<1>3. /\ review' \in [Txns -> Statuses]
      /\ \A t \in Txns : review'[t] = IF \E p \in P : t \in {p[1], p[2]}
                                      THEN "matched" ELSE open[t]
  BY <1>1, <1>2, StatusSet DEF Statuses
<1>4. \A p \in P : /\ p \in Txns \X Txns
                   /\ open[p[1]] = "pending" /\ open[p[2]] = "pending"
  BY DEF Pairable
<1>5. Rows'
  <2>1. \A p \in P : [legs |-> p, status |-> "pending"] \in Candidate
    BY <1>4 DEF Candidate
  <2>2. candidates' \in SUBSET Candidate
    BY <1>1, <2>1 DEF Rows
  <2> QED
    BY <1>3, <2>2 DEF Rows
<1>6. ASSUME NEW t \in Txns, Agrees(t),
             rows[t] = "imported" <=> review[t] = "imported",
             rows[t] = "matched" <=> review[t] = "matched"
      PROVE  Agrees(t)'
  <2> DEFINE new == {[legs |-> p, status |-> "pending"] : p \in {q \in P : t \in {q[1], q[2]}}}
             hand == {c \in OpenWith(t) : c.status = "manual"}
  <2>1. OpenWith(t)' = hand \cup new
    BY <1>1 DEF OpenWith, IsOpen, Legs, Detected
  <2>2. hand = {} <=> t \notin HeldByHand
    BY DEF OpenWith, IsOpen, HeldByHand
  <2>3. CASE \E p \in P : t \in {p[1], p[2]}
    <3>1. PICK p \in P : t \in {p[1], p[2]}
      BY <2>3
    <3>2. \A q \in P : t \in {q[1], q[2]} => q = p
      BY <1>1, <3>1 DEF Matching
    <3>3. new = {[legs |-> p, status |-> "pending"]}
      BY <3>1, <3>2
    <3>4. open[t] = "pending"
      BY <1>4, <3>1
    <3>5. hand = {}
      BY <1>2, <1>6, <2>2, <3>4 DEF Agrees
    <3>6. review'[t] = "matched" /\ imported[t] = 0
      BY <1>2, <1>3, <1>6, <2>3, <3>4 DEF Agrees
    <3>7. [legs |-> p, status |-> "pending"] \in candidates'
      BY <1>1
    <3> QED
      BY <1>6, <2>1, <3>3, <3>5, <3>6, <3>7 DEF Agrees
  <2>4. CASE ~\E p \in P : t \in {p[1], p[2]}
    <3>1. new = {} /\ review'[t] = open[t]
      BY <1>3, <2>4
    <3>2. CASE review[t] = "matched" /\ hand # {}
      <4>1. PICK c \in candidates : OpenWith(t) = {c}
        BY <1>6, <3>2 DEF Agrees
      <4>2. hand = {c} /\ c \in candidates'
        BY <1>1, <3>2, <4>1 DEF Detected
      <4>3. review'[t] = "matched"
        BY <1>2, <1>6, <2>2, <3>1, <3>2
      <4> QED
        BY <1>6, <2>1, <3>1, <3>2, <4>2, <4>3 DEF Agrees
    <3>3. CASE review[t] = "matched" /\ hand = {}
      <4>1. review'[t] = "pending"
        BY <1>2, <1>6, <2>2, <3>1, <3>3
      <4> QED
        BY <1>6, <2>1, <3>1, <3>3, <4>1 DEF Agrees
    <3>4. CASE review[t] # "matched"
      <4>1. hand = {} /\ review'[t] = rows[t]
        BY <1>2, <1>6, <3>1, <3>4 DEF Agrees
      <4> QED
        BY <1>6, <2>1, <3>1, <3>4, <4>1 DEF Agrees
    <3> QED
      BY <3>2, <3>3, <3>4
  <2> QED
    BY <2>3, <2>4
<1>7. ASSUME Loads PROVE Loads'
  BY <1>1, <1>7, LoadsFollow
<1> QED
  BY <1>5, <1>6, <1>7

\* A pull stages unknown rows that were never imported, and detects.
LEMMA StageStep ==
  ASSUME FeedInv, NEW T, NEW new \in SUBSET Fresh(T), Stage(T, new)
  PROVE  FeedInv'
<1> DEFINE rows == SetStatus(review, new, "pending")
<1>1. /\ Detect(rows)
      /\ UNCHANGED <<status, entries, closed, mapping, imported, stale>>
  BY DEF Stage, vars
<1>2. /\ rows \in [Txns -> Statuses]
      /\ \A t \in Txns : rows[t] = IF t \in new THEN "pending" ELSE review[t]
  BY StatusSet DEF FeedInv, Rows, Statuses
<1>3. \A t \in new : review[t] = "unknown"
  BY DEF Fresh
<1> HIDE DEF rows
<1>4. /\ Rows' /\ Loads'
      /\ \A t \in Txns : Agrees(t) => Agrees(t)'
  <2>1. \A t \in Txns : /\ rows[t] = "imported" <=> review[t] = "imported"
                        /\ rows[t] = "matched" <=> review[t] = "matched"
    BY <1>2, <1>3
  <2> QED
    BY <1>1, <1>2, <2>1, DetectStep DEF FeedInv
<1>5. ReviewAgrees'
  BY <1>1, <1>4 DEF FeedInv, ReviewAgrees, Agrees
<1>6. IInv' /\ BookedOnce'
  BY <1>1, LedgerKept, BookedKept DEF FeedInv, vars
<1> QED
  BY <1>4, <1>5, <1>6 DEF FeedInv

\* Pairing by hand takes two rows that no open candidate holds.
LEMMA ManualStep ==
  ASSUME FeedInv, NEW t \in Txns, NEW u \in Txns, CreateManualTransfer(t, u)
  PROVE  FeedInv'
<1> DEFINE c == [legs |-> <<t, u>>, status |-> "manual"]
<1>1. /\ review[t] = "pending" /\ review[u] = "pending"
      /\ candidates' = candidates \cup {c}
      /\ review' = SetStatus(review, {t, u}, "matched")
      /\ UNCHANGED <<status, entries, closed, mapping, imported, loaded, stale>>
  BY DEF CreateManualTransfer, vars
<1>2. /\ review' \in [Txns -> Statuses]
      /\ \A w \in Txns : review'[w] = IF w \in {t, u} THEN "matched" ELSE review[w]
  BY <1>1, StatusSet DEF FeedInv, Rows, Statuses
<1>3. c \in Candidate /\ IsOpen(c) /\ Legs(c) = {t, u}
  BY DEF Candidate, IsOpen, Legs
<1> HIDE DEF c
<1>4. Rows'
  BY <1>1, <1>2, <1>3 DEF FeedInv, Rows
<1>5. \A w \in Txns : OpenWith(w)' = IF w \in {t, u} THEN OpenWith(w) \cup {c} ELSE OpenWith(w)
  BY <1>1, <1>3 DEF OpenWith
<1>6. ASSUME NEW w \in Txns, Agrees(w)
      PROVE  Agrees(w)'
  <2>1. CASE w \in {t, u}
    BY <1>1, <1>2, <1>5, <1>6, <2>1 DEF Agrees
  <2>2. CASE w \notin {t, u}
    BY <1>1, <1>2, <1>5, <1>6, <2>2 DEF Agrees
  <2> QED
    BY <2>1, <2>2
<1>7. ReviewAgrees'
  BY <1>1, <1>6 DEF FeedInv, ReviewAgrees, Agrees
<1>8. IInv' /\ BookedOnce' /\ Loads'
  BY <1>1, LedgerKept, BookedKept, LoadsKept DEF FeedInv, vars
<1> QED
  BY <1>4, <1>7, <1>8 DEF FeedInv

\* The open candidate of a row that agrees is the only one, and the row is neither
\* imported nor dismissed.
LEMMA HeldRow ==
  ASSUME NEW t \in Txns, Agrees(t), NEW c \in OpenWith(t)
  PROVE  OpenWith(t) = {c} /\ review[t] = "matched" /\ imported[t] = 0
BY DEF Agrees

\* Rejecting an open candidate, or a closed one from an old page.
LEMMA RejectStep ==
  ASSUME FeedInv, NEW c \in candidates, RejectTransfer(c)
  PROVE  FeedInv'
<1>1. /\ review' = SetStatus(review, Legs(c), "pending")
      /\ candidates' = MarkAs({c}, "rejected")
      /\ loaded' = Follow(loaded, {c}, "rejected")
      /\ stale' = IF IsOpen(c) THEN stale ELSE stale \cup Legs(c)
      /\ UNCHANGED <<status, entries, closed, mapping, imported>>
  BY DEF RejectTransfer, vars
<1>2. /\ review' \in [Txns -> Statuses]
      /\ \A t \in Txns : review'[t] = IF t \in Legs(c) THEN "pending" ELSE review[t]
  BY <1>1, StatusSet DEF FeedInv, Rows, Statuses
<1>3. /\ candidates' \in SUBSET Candidate
      /\ \A t : OpenWith(t)' = OpenWith(t) \ {c}
  BY <1>1, Marked DEF FeedInv, Rows
<1>4. Rows'
  BY <1>1, <1>2, <1>3 DEF FeedInv, Rows
<1>5. ASSUME NEW t \in Txns \ stale', Agrees(t)
      PROVE  Agrees(t)'
  <2>1. CASE t \in Legs(c)
    <3>1. c \in OpenWith(t)
      BY <1>1, <1>5, <2>1 DEF OpenWith
    <3> QED
      BY <1>1, <1>2, <1>3, <1>5, <2>1, <3>1, HeldRow DEF Agrees
  <2>2. CASE t \notin Legs(c)
    <3>1. c \notin OpenWith(t)
      BY <2>2 DEF OpenWith
    <3>2. \A d \in candidates : OpenWith(t) = {d} => d \in candidates'
      BY <1>3, <3>1 DEF OpenWith
    <3> QED
      BY <1>1, <1>2, <1>3, <1>5, <2>2, <3>1, <3>2 DEF Agrees
  <2> QED
    BY <2>1, <2>2
<1>6. ReviewAgrees'
  BY <1>1, <1>5 DEF FeedInv, ReviewAgrees, Agrees
<1>7. IInv' /\ BookedOnce'
  BY <1>1, LedgerKept, BookedKept DEF FeedInv, vars
<1>8. candidates \ {c} \subseteq candidates'
  BY <1>1 DEF MarkAs
<1>9. Loads'
  BY <1>1, <1>8, LoadsFollow DEF FeedInv
<1> QED
  BY <1>4, <1>6, <1>7, <1>9 DEF FeedInv

\* A row that is dismissed takes its open candidates with it: their other legs
\* go back to pending.
LEMMA DismissStep ==
  ASSUME FeedInv, NEW t \in Txns, DismissStaged(t)
  PROVE  FeedInv'
<1> DEFINE C == OpenWith(t)
           held == UNION {Legs(c) : c \in C}
           rows == SetStatus(review, held, "pending")
<1>1. /\ candidates' = MarkAs(C, "rejected")
      /\ loaded' = Follow(loaded, C, "rejected")
      /\ review' = IF rows[t] \in {"pending", "matched"}
                   THEN SetStatus(rows, {t}, "dismissed") ELSE rows
      /\ UNCHANGED <<status, entries, closed, mapping, imported, stale>>
  BY DEF DismissStaged, vars
<1>2. /\ rows \in [Txns -> Statuses]
      /\ \A u \in Txns : rows[u] = IF u \in held THEN "pending" ELSE review[u]
  BY StatusSet DEF FeedInv, Rows, Statuses
<1> HIDE DEF rows
<1>3. /\ review' \in [Txns -> Statuses]
      /\ \A u \in Txns \ {t} : review'[u] = rows[u]
      /\ review'[t] = IF rows[t] \in {"pending", "matched"} THEN "dismissed" ELSE rows[t]
  BY <1>1, <1>2, StatusSet DEF Statuses
<1>4. C \in SUBSET candidates
  BY DEF OpenWith
<1>5. /\ candidates' \in SUBSET Candidate
      /\ \A u : OpenWith(u)' = OpenWith(u) \ C
  BY <1>1, <1>4, Marked DEF FeedInv, Rows
<1>6. Rows'
  BY <1>1, <1>3, <1>5 DEF FeedInv, Rows
<1>7. \A c \in C : IsOpen(c) /\ t \in Legs(c)
  BY DEF OpenWith
<1>8. ASSUME NEW u \in Txns, Agrees(u)
      PROVE  Agrees(u)'
  <2>1. CASE \E c \in C : u \in Legs(c)
    <3>1. PICK c \in C : u \in Legs(c)
      BY <2>1
    <3>2. c \in OpenWith(u)
      BY <1>4, <1>7, <3>1 DEF OpenWith
    <3>3. OpenWith(u) = {c} /\ review[u] = "matched" /\ imported[u] = 0
      BY <1>8, <3>2, HeldRow
    <3>4. rows[u] = "pending"
      BY <1>2, <3>1
    <3>5. review'[u] \in {"pending", "dismissed"}
      BY <1>3, <3>4
    <3>6. OpenWith(u)' = {}
      BY <1>5, <3>1, <3>3
    <3> QED
      BY <1>1, <3>3, <3>5, <3>6 DEF Agrees
  <2>2. CASE ~\E c \in C : u \in Legs(c)
    <3>1. rows[u] = review[u]
      BY <1>2, <2>2
    <3>2. OpenWith(u) \cap C = {}
      BY <2>2 DEF OpenWith
    <3>3. OpenWith(u)' = OpenWith(u)
      BY <1>5, <3>2
    <3>4. CASE u = t
      <4>1. OpenWith(u) = {}
        BY <3>2, <3>4
      <4>2. review[u] # "matched"
        BY <1>8, <4>1 DEF Agrees
      <4>3. review'[u] # "matched" /\ (review'[u] = "imported" <=> review[u] = "imported")
        BY <1>3, <3>1, <3>4, <4>2
      <4> QED
        BY <1>1, <1>8, <3>3, <4>1, <4>3 DEF Agrees
    <3>5. CASE u # t
      <4>1. review'[u] = review[u]
        BY <1>3, <3>1, <3>5
      <4>2. \A d \in candidates : OpenWith(u) = {d} => d \in candidates'
        BY <3>3 DEF OpenWith
      <4> QED
        BY <1>1, <1>8, <3>3, <4>1, <4>2 DEF Agrees
    <3> QED
      BY <3>4, <3>5
  <2> QED
    BY <2>1, <2>2
<1>9. ReviewAgrees'
  BY <1>1, <1>8 DEF FeedInv, ReviewAgrees, Agrees
<1>10. IInv' /\ BookedOnce'
  BY <1>1, LedgerKept, BookedKept DEF FeedInv, vars
<1>11. candidates \ C \subseteq candidates'
  BY <1>1 DEF MarkAs
<1>12. Loads'
  BY <1>1, <1>11, LoadsFollow DEF FeedInv
<1> QED
  BY <1>6, <1>9, <1>10, <1>12 DEF FeedInv

-----------------------------------------------------------------------------
(* Imports.                                                                *)

\* The entry is posted, and is the one entry of each transaction it imports.
LEMMA ImportStep ==
  ASSUME FeedInv, NEW r, NEW T \in SUBSET Txns, FeedShape(r, T), Import(r, T)
  PROVE  /\ IInv' /\ BookedOnce'
         /\ imported' \in [Txns -> Nat]
         /\ \A t \in Txns : imported'[t] # 0 <=> t \in T \/ imported[t] # 0
         /\ \A t \in T : imported[t] = 0
         /\ review' \in [Txns -> Statuses]
         /\ \A t \in Txns : review'[t] = IF t \in T THEN "imported" ELSE review[t]
         /\ mapping' = mapping
<1>1. /\ \A t \in T : imported[t] = 0
      /\ MayPost(r) /\ Post(<<r>>)
      /\ imported' = [t \in Txns |-> IF t \in T THEN Len(entries) + 1 ELSE imported[t]]
      /\ review' = SetStatus(review, T, "imported")
      /\ UNCHANGED <<status, closed, mapping>>
  BY DEF Import, NotImported, NewEntry
<1>2. Named(r)
  <2>1. \A y \in Years : CloseRef(y) \notin Refs /\ AllocationRef(y) \notin Refs
    BY RefsDiffer, JournalAssumption
  <2> QED
    BY <2>1 DEF FeedShape, Named
<1>3. IInv'
  BY <1>1, <1>2, PostOneStep DEF FeedInv, Postable, FeedShape, MayPost, Unfenced
<1>4. /\ Len(entries) \in Nat /\ Ids = 1..Len(entries)
      /\ Ids' = 1..(Len(entries) + 1)
      /\ \A e \in Ids : entries'[e] = entries[e]
      /\ entries'[Len(entries) + 1] = r
  <2>1. Tuple(<<r>>) /\ Len(<<r>>) = 1 /\ DOMAIN <<r>> = {1} /\ <<r>>[1] = r
    BY Tuples
  <2>2. Shape
    BY DEF FeedInv, IInv
  <2>3. /\ Len(entries) \in Nat /\ Ids = 1..Len(entries)
        /\ Ids' = 1..(Len(entries) + 1)
        /\ \A e \in Ids : entries'[e] = entries[e]
        /\ \A e \in Ids' \ Ids : \E i \in DOMAIN <<r>> : entries'[e] = <<r>>[i]
    BY <1>1, <2>1, <2>2, PostKeeps
  <2>4. Len(entries) + 1 \in Ids' \ Ids
    BY <2>3
  <2> QED
    BY <2>1, <2>3, <2>4
<1>5. ASSUME NEW t \in Txns
      PROVE  {e \in Ids' : Mentions(entries'[e].ref, t)}
               = IF imported'[t] = 0 THEN {} ELSE {imported'[t]}
  <2>1. {e \in Ids : Mentions(entries[e].ref, t)} = IF imported[t] = 0 THEN {} ELSE {imported[t]}
    BY DEF FeedInv, BookedOnce
  <2>2. Mentions(r.ref, t) <=> t \in T
    BY DEF FeedShape
  <2> DEFINE old == {e \in Ids : Mentions(entries[e].ref, t)}
  <2>3. {e \in Ids' : Mentions(entries'[e].ref, t)}
          = IF t \in T THEN old \cup {Len(entries) + 1} ELSE old
    BY <1>4, <2>2
  <2>4. imported'[t] = IF t \in T THEN Len(entries) + 1 ELSE imported[t]
    BY <1>1
  <2>5. Len(entries) + 1 # 0
    BY <1>4
  <2> QED
    BY <1>1, <2>1, <2>3, <2>4, <2>5
<1>6. BookedOnce'
  BY <1>5 DEF BookedOnce, Mentions, TransferRef
<1>7. /\ review' \in [Txns -> Statuses]
      /\ \A t \in Txns : review'[t] = IF t \in T THEN "imported" ELSE review[t]
  BY <1>1, StatusSet DEF FeedInv, Rows, Statuses
<1>8. /\ imported' \in [Txns -> Nat]
      /\ \A t \in Txns : imported'[t] # 0 <=> t \in T \/ imported[t] # 0
  BY <1>1, <1>4 DEF FeedInv, Rows
<1> QED
  BY <1>1, <1>3, <1>6, <1>7, <1>8

\* The lines of an import name accounts.
LEMMA FeedLines ==
  ASSUME NEW a \in Accounts, NEW b \in Accounts, NEW x, NEW y
  PROVE  LET s == <<[account |-> a, amount |-> x], [account |-> b, amount |-> y]>>
         IN LinesShape(s)
BY DEF LinesShape, LineShape

\* A transfer or a single import is such an entry.
LEMMA TransferShape ==
  ASSUME Rows, NEW t \in Txns, NEW u \in Txns, Local(t) # Nowhere, Local(u) # Nowhere
  PROVE  FeedShape(Transfer(t, u), {t, u})
<1> DEFINE size == IF Amount[t] > 0 THEN Amount[t] ELSE -Amount[t]
           lines == <<[account |-> Local(t), amount |-> -size],
                      [account |-> Local(u), amount |-> size]>>
<1>1. Transfer(t, u) = [date |-> DateOf[t], source |-> "manual", ref |-> TransferRef(t, u),
                        void |-> FALSE, lines |-> lines]
  BY DEF Transfer, FeedEntry
<1>2. Local(t) \in Accounts /\ Local(u) \in Accounts
  BY BankFeedAssumption DEF Local, Rows
<1>3. LinesShape(lines)
  BY <1>2, FeedLines
<1>4. DateOf[t] \in Years /\ TransferRef(t, u) \in Refs
  BY BankFeedAssumption DEF TransferRef
<1>5. \A w \in Txns : Mentions(TransferRef(t, u), w) <=> w \in {t, u}
  BY Mentioned
<1> HIDE DEF lines
<1> QED
  BY <1>1, <1>3, <1>4, <1>5 DEF FeedShape, EntryShape, References

LEMMA SingleShape ==
  ASSUME Rows, NEW t \in Txns
  PROVE  FeedShape(Single(t), {t})
<1> DEFINE lines == <<[account |-> AccountOrNone(t), amount |-> -Amount[t]],
                      [account |-> Uncategorized, amount |-> Amount[t]]>>
<1>1. Single(t) = [date |-> DateOf[t], source |-> "manual", ref |-> t,
                   void |-> FALSE, lines |-> lines]
  BY DEF Single, FeedEntry
<1>2. AccountOrNone(t) \in Accounts /\ Uncategorized \in Accounts
  BY BankFeedAssumption, JournalAssumption DEF AccountOrNone, Local, Rows
<1>3. LinesShape(lines)
  BY <1>2, FeedLines
<1>4. DateOf[t] \in Years /\ t \in Refs
  BY BankFeedAssumption
<1>5. \A w \in Txns : Mentions(t, w) <=> w \in {t}
  BY Mentioned
<1> HIDE DEF lines
<1> QED
  BY <1>1, <1>3, <1>4, <1>5 DEF FeedShape, EntryShape, References

\* What an import reads is an entry of its legs.
LEMMA LoadStep ==
  ASSUME FeedInv, NEW c \in candidates, LoadTransferPair(c)
  PROVE  FeedInv'
<1> DEFINE t == c.legs[1]
           u == c.legs[2]
<1>1. /\ c \in Candidate /\ c.legs \in Txns \X Txns
      /\ t \in Txns /\ u \in Txns /\ Legs(c) = {t, u}
  BY DEF FeedInv, Rows, Candidate, Legs
<1>2. PICK r : /\ r = Transfer(t, u) \/ r = Transfer(u, t)
               /\ loaded' = loaded \cup {[legs |-> c.legs, status |-> c.status, entry |-> r]}
  BY DEF LoadTransferPair
<1>3. /\ Local(t) # Nowhere /\ Local(u) # Nowhere
      /\ UNCHANGED <<status, entries, closed, mapping, review, candidates, imported, stale>>
  BY DEF LoadTransferPair, vars
<1>4. FeedShape(r, {t, u})
  <2> HIDE DEF t, u
  <2>1. FeedShape(Transfer(t, u), {t, u}) /\ FeedShape(Transfer(u, t), {u, t})
    BY <1>1, <1>3, TransferShape DEF FeedInv
  <2>2. {u, t} = {t, u}
    OBVIOUS
  <2> QED
    BY <1>2, <2>1, <2>2
<1> PICK m : m = [legs |-> c.legs, status |-> c.status, entry |-> r]
  OBVIOUS
<1>5. /\ m \in [legs : Txns \X Txns, entry : {m.entry},
                status : {"pending", "manual", "rejected", "confirmed", "deleted"}]
      /\ m.entry = r /\ Legs(m) = {t, u}
  BY <1>1 DEF Candidate, Legs
<1>6. RowOf(m) = c
  BY <1>1 DEF RowOf, Candidate
<1> HIDE DEF t, u
<1>7. LoadShape(m)
  <2>1. FeedShape(m.entry, Legs(m))
    BY <1>4, <1>5
  <2> QED
    BY <1>5, <1>6, <2>1 DEF LoadShape
<1>8. loaded' = loaded \cup {m}
  BY <1>2
<1>9. Loads'
  <2>1. \A n \in loaded : LoadShape(n)'
    BY <1>3, LoadStands DEF FeedInv, Loads
  <2>2. LoadShape(m)'
    BY <1>3, <1>7, LoadStands
  <2> QED
    BY <1>8, <2>1, <2>2 DEF Loads
<1>10. IInv' /\ BookedOnce'
  BY <1>3, LedgerKept, BookedKept DEF FeedInv, vars
<1>11. Rows' /\ ReviewAgrees'
  BY <1>3 DEF FeedInv, Rows, ReviewAgrees, OpenWith
<1> QED
  BY <1>9, <1>10, <1>11 DEF FeedInv

\* An import whose candidate still stood open takes the only one of its legs.
LEMMA ImportTransferStep ==
  ASSUME FeedInv, NEW m \in loaded, ImportTransfer(m)
  PROVE  FeedInv'
<1> DEFINE T == Legs(m)
           C == {RowOf(m)} \cap candidates
<1>1. LoadShape(m)
  BY DEF FeedInv, Loads
<1>2. T \in SUBSET Txns /\ FeedShape(m.entry, T)
  BY <1>1 DEF LoadShape, Legs
<1>3. \A c \in C : c = RowOf(m) /\ Legs(c) = T /\ (IsOpen(c) <=> IsOpen(m))
  BY DEF RowOf, Legs, IsOpen
<1>4. IsOpen(m) => C = {RowOf(m)} /\ RowOf(m) \in candidates
  BY <1>1 DEF LoadShape
<1>5. /\ Import(m.entry, T)
      /\ candidates' = MarkAs(C, "confirmed")
      /\ loaded' = Follow(loaded \ {m}, C, "confirmed")
      /\ stale' = IF IsOpen(m) THEN stale ELSE stale \cup T
  BY DEF ImportTransfer
<1>6. C \in SUBSET candidates
  OBVIOUS
<1> HIDE DEF T, C
<1>7. /\ IInv' /\ BookedOnce'
      /\ imported' \in [Txns -> Nat]
      /\ \A w \in Txns : imported'[w] # 0 <=> w \in T \/ imported[w] # 0
      /\ review' \in [Txns -> Statuses]
      /\ \A w \in Txns : review'[w] = IF w \in T THEN "imported" ELSE review[w]
      /\ mapping' = mapping
  BY <1>2, <1>5, ImportStep
<1>8. /\ candidates' \in SUBSET Candidate
      /\ \A w : OpenWith(w)' = OpenWith(w) \ C
  BY <1>5, <1>6, Marked DEF FeedInv, Rows
<1>9. ASSUME NEW w \in Txns \ stale', Agrees(w)
      PROVE  Agrees(w)'
  <2>1. CASE w \in T
    <3>1. IsOpen(m)
      BY <1>5, <1>9, <2>1
    <3>2. PICK c \in C : IsOpen(c) /\ Legs(c) = T
      BY <1>3, <1>4, <3>1
    <3>3. c \in OpenWith(w)
      BY <1>6, <2>1, <3>2 DEF OpenWith
    <3>4. OpenWith(w)' = {}
      BY <1>8, <1>9, <3>2, <3>3, HeldRow
    <3> QED
      BY <1>7, <2>1, <3>4 DEF Agrees
  <2>2. CASE w \notin T
    <3>1. OpenWith(w) \cap C = {}
      BY <1>3, <2>2 DEF OpenWith
    <3>2. OpenWith(w)' = OpenWith(w)
      BY <1>8, <3>1
    <3>3. \A d \in candidates : OpenWith(w) = {d} => d \in candidates'
      BY <3>2 DEF OpenWith
    <3> QED
      BY <1>7, <1>9, <2>2, <3>2, <3>3 DEF Agrees
  <2> QED
    BY <2>1, <2>2
<1>10. ReviewAgrees'
  BY <1>5, <1>9 DEF FeedInv, ReviewAgrees, Agrees
<1>11. Rows'
  BY <1>7, <1>8 DEF FeedInv, Rows
<1>12. candidates \ C \subseteq candidates'
  BY <1>5 DEF MarkAs
<1>13. Loads'
  BY <1>5, <1>12, LoadsFollow DEF FeedInv
<1> QED
  BY <1>7, <1>10, <1>11, <1>13 DEF FeedInv

\* A pending row is held by no open candidate: importing it alone leaves none
\* behind that could import it again.
LEMMA ImportSingleStep ==
  ASSUME FeedInv, NEW t \in Txns, ImportSingleStaged(t)
  PROVE  FeedInv'
<1>1. /\ Import(Single(t), {t})
      /\ stale' = IF review[t] = "pending" THEN stale ELSE stale \cup {t}
      /\ candidates' = candidates /\ loaded' = loaded
  BY DEF ImportSingleStaged
<1>2. FeedShape(Single(t), {t})
  BY SingleShape DEF FeedInv
<1>3. /\ IInv' /\ BookedOnce'
      /\ imported' \in [Txns -> Nat]
      /\ \A w \in Txns : imported'[w] # 0 <=> w \in {t} \/ imported[w] # 0
      /\ review' \in [Txns -> Statuses]
      /\ \A w \in Txns : review'[w] = IF w \in {t} THEN "imported" ELSE review[w]
      /\ mapping' = mapping
  BY <1>1, <1>2, ImportStep
<1>4. \A w : OpenWith(w)' = OpenWith(w)
  BY <1>1 DEF OpenWith
<1>5. ASSUME NEW w \in Txns \ stale', Agrees(w)
      PROVE  Agrees(w)'
  <2>1. CASE w = t
    <3>1. review[w] = "pending"
      BY <1>1, <1>5, <2>1
    <3> QED
      BY <1>3, <1>4, <1>5, <2>1, <3>1 DEF Agrees
  <2>2. CASE w # t
    BY <1>1, <1>3, <1>4, <1>5, <2>2 DEF Agrees
  <2> QED
    BY <2>1, <2>2
<1>6. ReviewAgrees'
  BY <1>1, <1>5 DEF FeedInv, ReviewAgrees, Agrees
<1>7. Rows' /\ Loads'
  BY <1>1, <1>3, LoadsKept DEF FeedInv, Rows
<1> QED
  BY <1>3, <1>6, <1>7 DEF FeedInv

-----------------------------------------------------------------------------

LEMMA FeedInitInv == FeedInit => FeedInv
<1> SUFFICES ASSUME FeedInit PROVE FeedInv
  OBVIOUS
<1>1. IInv
  BY InitInv DEF FeedInit
<1>2. Rows
  BY DEF FeedInit, Rows, Statuses
<1>3. Ids = {}
  BY EmptySeq, LenProperties DEF FeedInit, Init, Ids
<1>4. BookedOnce
  BY <1>3 DEF FeedInit, BookedOnce
<1>5. ReviewAgrees /\ Loads
  BY DEF FeedInit, ReviewAgrees, OpenWith, Loads
<1> QED
  BY <1>1, <1>2, <1>4, <1>5 DEF FeedInv

\* A step that leaves the review alone and books nothing of the feed.
LEMMA AsideStep ==
  ASSUME FeedInv, IInv', RefsKept, mapping' \in [Feeds -> Accounts \cup {Nowhere}],
         loaded' \in SUBSET loaded, UNCHANGED <<review, candidates, imported, stale>>
  PROVE  FeedInv'
<1>1. Rows' /\ Loads'
  BY LoadsKept DEF FeedInv, Rows
<1>2. ReviewAgrees'
  BY DEF FeedInv, ReviewAgrees, OpenWith
<1>3. BookedOnce'
  BY BookedKept DEF FeedInv
<1> QED
  BY <1>1, <1>2, <1>3 DEF FeedInv

LEMMA FeedInvStep == FeedInv /\ [FeedNext]_feedVars => FeedInv'
<1> SUFFICES ASSUME FeedInv, [FeedNext]_feedVars PROVE FeedInv'
  OBVIOUS
<1>1. CASE JournalStep
  <2>1. IInv' /\ RefsKept
    BY <1>1, InvStep, JournalKeepsRefs DEF JournalStep, FeedInv
  <2> QED
    BY <1>1, <2>1, AsideStep DEF JournalStep, FeedInv, Rows
<1>2. ASSUME UNCHANGED <<vars, review, candidates, imported, stale>>, loaded' \in SUBSET loaded,
             mapping' \in [Feeds -> Accounts \cup {Nowhere}]
      PROVE  FeedInv'
  BY <1>2, LedgerKept, AsideStep DEF FeedInv
<1>3. ASSUME NEW f \in Feeds, UnmapAccount(f) \/ \E a \in Accounts : MapAccount(f, a)
      PROVE  FeedInv'
  BY <1>2, <1>3 DEF MapAccount, UnmapAccount, FeedInv, Rows
<1>4. ASSUME NEW T \in Pulls, StageTransactions(T) \/ PlaidSync(T)
      PROVE  FeedInv'
  <2>1. Fresh(Mapped(T)) \subseteq Fresh(T)
    BY DEF Fresh, Mapped
  <2> QED
    BY <1>4, <2>1, StageStep DEF StageTransactions, PlaidSync
<1>5. ASSUME NEW t \in Txns, DismissStaged(t) \/ ImportSingleStaged(t)
      PROVE  FeedInv'
  BY <1>5, DismissStep, ImportSingleStep
<1>6. ASSUME NEW t \in Txns, NEW u \in Txns, CreateManualTransfer(t, u)
      PROVE  FeedInv'
  BY <1>6, ManualStep
<1>7. ASSUME NEW c \in candidates, RejectTransfer(c) \/ LoadTransferPair(c)
      PROVE  FeedInv'
  BY <1>7, RejectStep, LoadStep
<1>8. ASSUME NEW m \in loaded, ImportTransfer(m)
      PROVE  FeedInv'
  BY <1>8, ImportTransferStep
<1>9. ASSUME NEW m \in loaded, DropTransfer(m)
      PROVE  FeedInv'
  BY <1>2, <1>9 DEF DropTransfer, FeedInv, Rows
<1>10. CASE UNCHANGED feedVars
  BY <1>2, <1>10 DEF feedVars, FeedInv, Rows
<1> QED
  BY <1>1, <1>3, <1>4, <1>5, <1>6, <1>7, <1>8, <1>9, <1>10 DEF FeedNext

\* Whatever page the commands came from, and however often a transaction was
\* pulled, paired, rejected and dismissed: it is on one entry at most, ever, and
\* both legs of a transfer are on the transfer's.
THEOREM TransactionsBookedOnce == FeedSpec => []BookedOnce
<1>1. FeedInv => BookedOnce
  BY DEF FeedInv
<1> QED
  BY <1>1, FeedInitInv, FeedInvStep, PTL DEF FeedSpec

\* Commands that come from a page that is up to date keep the four records of a
\* transaction in agreement, whatever other commands do to other rows.
THEOREM ReviewConsistent == FeedSpec => []ReviewAgrees
<1>1. FeedInv => ReviewAgrees
  BY DEF FeedInv
<1> QED
  BY <1>1, FeedInitInv, FeedInvStep, PTL DEF FeedSpec

-----------------------------------------------------------------------------
(* The books under a feed.                                                 *)

\* What comes on top: lines that add up, and where rows were staged.
FeedBooks ==
  /\ FeedInv
  /\ AllBalanced
  /\ \A m \in loaded : BalancedLines(m.entry.lines)
  /\ stagedFor \in [Txns -> Accounts \cup {Nowhere}]
  /\ stale \in SUBSET Txns

\* Two accounts, or the uncategorized account twice: the lines add up.
LEMMA FeedBalances ==
  ASSUME Rows
  PROVE  /\ \A t, u \in Txns : Local(t) # Nowhere /\ Local(u) # Nowhere =>
              BalancedLines(Transfer(t, u).lines)
         /\ \A t \in Txns : BalancedLines(Single(t).lines)
<1>1. ASSUME NEW t \in Txns, NEW u \in Txns, Local(t) # Nowhere, Local(u) # Nowhere
      PROVE  BalancedLines(Transfer(t, u).lines)
  <2>1. PICK size \in Int : Transfer(t, u).lines = <<[account |-> Local(t), amount |-> -size],
                                                      [account |-> Local(u), amount |-> size]>>
    BY BankFeedAssumption DEF Transfer, FeedEntry
  <2>2. Local(t) \in Accounts /\ Local(u) \in Accounts
    BY <1>1, BankFeedAssumption DEF Local, Rows
  <2>3. -size \in Int /\ (-size) + size = 0
    OBVIOUS
  <2> QED
    BY <2>1, <2>2, <2>3, PairBalances
<1>2. ASSUME NEW t \in Txns
      PROVE  BalancedLines(Single(t).lines)
  <2>1. Single(t).lines = <<[account |-> AccountOrNone(t), amount |-> -Amount[t]],
                            [account |-> Uncategorized, amount |-> Amount[t]]>>
    BY DEF Single, FeedEntry
  <2>2. AccountOrNone(t) \in Accounts /\ Uncategorized \in Accounts
    BY BankFeedAssumption, JournalAssumption DEF AccountOrNone, Local, Rows
  <2>3. Amount[t] \in Int /\ -Amount[t] \in Int /\ (-Amount[t]) + Amount[t] = 0
    BY BankFeedAssumption
  <2> QED
    BY <2>1, <2>2, <2>3, PairBalances
<1> QED
  BY <1>1, <1>2

LEMMA ImportBalances ==
  ASSUME FeedBooks, NEW r, NEW T, BalancedLines(r.lines), Import(r, T)
  PROVE  AllBalanced' /\ stagedFor' = stagedFor
<1>1. Post(<<r>>) /\ stagedFor' = stagedFor
  BY DEF Import
<1>2. Shape /\ AllBalanced
  BY DEF FeedBooks, FeedInv, IInv
<1> DEFINE es == <<r>>
<1>3. Tuple(es) /\ DOMAIN es = {1} /\ es[1] = r /\ Post(es)
  BY <1>1, Tuples
<1> HIDE DEF es
<1> QED
  BY <1>1, <1>2, <1>3, PostBalances

LEMMA FeedBooksStep == FeedBooks /\ [FeedNext]_feedVars => FeedBooks'
<1> SUFFICES ASSUME FeedBooks, [FeedNext]_feedVars
             PROVE  /\ AllBalanced'
                    /\ \A m \in loaded' : BalancedLines(m.entry.lines)
                    /\ stagedFor' \in [Txns -> Accounts \cup {Nowhere}]
                    /\ stale' \in SUBSET Txns
  BY FeedInvStep DEF FeedBooks
<1>0. /\ FeedInv /\ Rows /\ Loads /\ IInv /\ AllBalanced /\ stale \in SUBSET Txns
      /\ \A m \in loaded : BalancedLines(m.entry.lines)
      /\ stagedFor \in [Txns -> Accounts \cup {Nowhere}]
  BY DEF FeedBooks, FeedInv
<1>1. ASSUME UNCHANGED entries
      PROVE  AllBalanced'
  BY <1>0, <1>1 DEF AllBalanced, Ids
<1>2. \A c \in candidates : c.legs[1] \in Txns /\ c.legs[2] \in Txns /\ Legs(c) \subseteq Txns
  BY <1>0 DEF Rows, Candidate, Legs
<1> DEFINE Same == \A m \in loaded' : \E n \in loaded : m.entry = n.entry
<1>3. ASSUME Same PROVE \A m \in loaded' : BalancedLines(m.entry.lines)
  BY <1>0, <1>3
<1>4. ASSUME NEW L \in SUBSET loaded, NEW C, NEW s, loaded' = Follow(L, C, s)
      PROVE  Same
  <2> SUFFICES ASSUME NEW m \in loaded' PROVE \E n \in loaded : m.entry = n.entry
    OBVIOUS
  <2>1. PICK n \in L : m = IF RowOf(n) \in C THEN [n EXCEPT !.status = s] ELSE n
    BY <1>4 DEF Follow
  <2>2. n \in [legs : Txns \X Txns, entry : {n.entry},
               status : {"pending", "manual", "rejected", "confirmed", "deleted"}]
    BY <1>0 DEF Loads, LoadShape
  <2>3. m.entry = n.entry
    BY <2>1, <2>2
  <2> QED
    BY <2>3
<1>5. CASE JournalStep
  <2>1. AllBalanced'
    BY <1>0, <1>5, BooksStep DEF JournalStep, Books
  <2> QED
    BY <1>0, <1>5, <2>1 DEF JournalStep
<1>6. ASSUME NEW f \in Feeds, UnmapAccount(f) \/ \E a \in Accounts : MapAccount(f, a)
      PROVE  UNCHANGED <<entries, stagedFor, loaded, stale>>
  BY <1>6 DEF UnmapAccount, MapAccount, vars
<1>7. ASSUME NEW T, StageTransactions(T) \/ PlaidSync(T)
      PROVE  /\ UNCHANGED <<entries, stale>>
             /\ Same
             /\ stagedFor' \in [Txns -> Accounts \cup {Nowhere}]
  <2>1. PICK new : Stage(T, new)
    BY <1>7 DEF StageTransactions, PlaidSync
  <2>2. \A t \in Txns : Local(t) \in Accounts \cup {Nowhere}
    BY <1>0, BankFeedAssumption DEF Local, Rows
  <2>3. loaded' = Follow(loaded, Detected, "deleted")
    BY <2>1 DEF Stage, Detect
  <2>4. Same
    BY <1>4, <2>3
  <2> QED
    BY <1>0, <2>1, <2>2, <2>4 DEF Stage, vars
<1>8. ASSUME NEW t \in Txns, DismissStaged(t)
      PROVE  UNCHANGED <<entries, stagedFor, stale>> /\ Same
  <2>1. loaded' = Follow(loaded, OpenWith(t), "rejected")
    BY <1>8 DEF DismissStaged
  <2>2. Same
    BY <1>4, <2>1
  <2> QED
    BY <1>8, <2>2 DEF DismissStaged, vars
<1>9. ASSUME NEW t \in Txns, ImportSingleStaged(t)
      PROVE  /\ AllBalanced' /\ stagedFor' = stagedFor /\ stale' \in SUBSET Txns
             /\ loaded' = loaded
  BY <1>0, <1>9, ImportBalances, FeedBalances DEF ImportSingleStaged
<1>10. ASSUME NEW t \in Txns, NEW u \in Txns, CreateManualTransfer(t, u)
       PROVE  UNCHANGED <<entries, stagedFor, loaded, stale>>
  BY <1>10 DEF CreateManualTransfer, vars
<1>11. ASSUME NEW c \in candidates, RejectTransfer(c)
       PROVE  UNCHANGED <<entries, stagedFor>> /\ stale' \in SUBSET Txns /\ Same
  <2>1. loaded' = Follow(loaded, {c}, "rejected")
    BY <1>11 DEF RejectTransfer
  <2>2. Same
    BY <1>4, <2>1
  <2> QED
    BY <1>0, <1>2, <1>11, <2>2 DEF RejectTransfer, vars
<1>12. ASSUME NEW c \in candidates, LoadTransferPair(c)
       PROVE  /\ UNCHANGED <<entries, stagedFor, stale>>
              /\ \A m \in loaded' : BalancedLines(m.entry.lines)
  <2> DEFINE t == c.legs[1]
             u == c.legs[2]
  <2>1. PICK r : /\ r = Transfer(t, u) \/ r = Transfer(u, t)
                 /\ loaded' = loaded \cup {[legs |-> c.legs, status |-> c.status, entry |-> r]}
    BY <1>12 DEF LoadTransferPair
  <2>2. /\ Local(t) # Nowhere /\ Local(u) # Nowhere
        /\ t \in Txns /\ u \in Txns
        /\ UNCHANGED <<entries, stagedFor, stale>>
    BY <1>2, <1>12 DEF LoadTransferPair, vars
  <2> HIDE DEF t, u
  <2>3. BalancedLines(r.lines)
    BY <1>0, <2>1, <2>2, FeedBalances
  <2> QED
    BY <1>0, <2>1, <2>2, <2>3
<1>13. ASSUME NEW m \in loaded, ImportTransfer(m)
       PROVE  AllBalanced' /\ stagedFor' = stagedFor /\ stale' \in SUBSET Txns /\ Same
  <2>1. /\ Import(m.entry, Legs(m))
        /\ loaded' = Follow(loaded \ {m}, {RowOf(m)} \cap candidates, "confirmed")
        /\ stale' = IF IsOpen(m) THEN stale ELSE stale \cup Legs(m)
    BY <1>13 DEF ImportTransfer
  <2>2. AllBalanced' /\ stagedFor' = stagedFor
    BY <1>0, <2>1, ImportBalances
  <2>3. Same
    BY <1>4, <2>1
  <2>4. Legs(m) \subseteq Txns
    BY <1>0 DEF Loads, LoadShape, Legs
  <2> QED
    BY <1>0, <2>1, <2>2, <2>3, <2>4
<1>14. ASSUME NEW m \in loaded, DropTransfer(m)
       PROVE  UNCHANGED <<entries, stagedFor, stale>> /\ Same
  BY <1>14 DEF DropTransfer, vars
<1>15. CASE UNCHANGED feedVars
  BY <1>0, <1>1, <1>15 DEF feedVars, vars
<1> HIDE DEF Same
<1> QED
  BY <1>0, <1>1, <1>3, <1>5, <1>6, <1>7, <1>8, <1>9, <1>10, <1>11, <1>12, <1>13, <1>14, <1>15
     DEF FeedNext, JournalStep

LEMMA FeedBooksInit == FeedInit => FeedBooks
<1> SUFFICES ASSUME FeedInit PROVE FeedBooks
  OBVIOUS
<1>1. FeedInv /\ AllBalanced
  BY FeedInitInv, BooksInit DEF FeedInit, Books
<1> QED
  BY <1>1 DEF FeedBooks, FeedInit

\* BankFeed.FeedTypeOK: among it that an imported transaction points at an entry
\* that is there, and that a row is staged for an account or for none.
THEOREM FeedTypeCorrect == FeedSpec => []FeedTypeOK
<1>1. FeedBooks => FeedTypeOK
  <2> SUFFICES ASSUME FeedBooks PROVE FeedTypeOK
    OBVIOUS
  <2>1. FeedInv /\ Rows /\ Books /\ Shape
    BY DEF FeedBooks, FeedInv, Books, IInv
  <2>2. TypeOK
    BY <2>1, BooksType
  <2>3. Len(entries) \in Nat /\ Ids = 1..Len(entries)
    BY <2>1, LenProperties DEF Shape, Tuple, Ids
  <2>4. ASSUME NEW t \in Txns
        PROVE  imported[t] \in 0..Len(entries)
    <3>1. {e \in Ids : Mentions(entries[e].ref, t)} = IF imported[t] = 0 THEN {} ELSE {imported[t]}
      BY <2>1 DEF FeedInv, BookedOnce
    <3>2. imported[t] = 0 \/ imported[t] \in Ids
      BY <3>1
    <3> QED
      BY <2>3, <3>2
  <2>5. imported \in [Txns -> 0..Len(entries)]
    BY <2>1, <2>4 DEF Rows
  <2>6. ASSUME NEW m \in loaded
        PROVE  m \in Loaded
    <3>1. LoadShape(m) /\ m.entry.lines \in Seq(Line)
      BY <2>1 DEF FeedBooks, FeedInv, Loads, BalancedLines
    <3>2. m.entry \in Entry
      BY <3>1 DEF LoadShape, FeedShape, EntryShape, Entry, References
    <3> QED
      BY <3>1, <3>2 DEF LoadShape, Loaded
  <2> QED
    BY <2>1, <2>2, <2>5, <2>6 DEF FeedTypeOK, FeedBooks, Rows
<1> QED
  BY <1>1, FeedBooksInit, FeedBooksStep, PTL DEF FeedSpec

\* The feed keeps the journal's own properties: its imports balance, name live
\* accounts and free references, and stay out of closed years.
THEOREM FeedKeepsJournal ==
  FeedSpec => [](RefsUnique /\ ClosedHasItsEntry /\ LinesHaveAccounts /\ BooksBalance)
<1>1. FeedBooks => RefsUnique /\ ClosedHasItsEntry /\ LinesHaveAccounts /\ BooksBalance
  BY BooksBalanced DEF FeedBooks, FeedInv, Books, IInv
<1> QED
  BY <1>1, FeedBooksInit, FeedBooksStep, PTL DEF FeedSpec
=============================================================================
