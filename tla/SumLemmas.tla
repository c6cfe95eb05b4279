------------------------------ MODULE SumLemmas ------------------------------
(***************************************************************************)
(* Sums over finite sets, which the books are made of.                     *)
(*                                                                         *)
(* MapThenSumSet is defined by a recursive function on the subsets of the  *)
(* set it sums over.  The lemmas say that this function exists and is      *)
(* unique, and from there what a sum is however its elements are taken.    *)
(* Induction is by a smallest counterexample among the subsets.            *)
(***************************************************************************)
EXTENDS Integers, FiniteSets, FiniteSetsExt, FiniteSetTheorems, WellFoundedInduction, TLAPS

-----------------------------------------------------------------------------
(* Smallest counterexamples.                                               *)

\* Of a collection of subsets of a finite set, one has no smaller one below it.
LEMMA SmallestSet ==
  ASSUME NEW S, IsFiniteSet(S), NEW W, W \subseteq SUBSET S, W # {}
  PROVE  \E s \in W : /\ IsFiniteSet(s)
                      /\ \A t \in SUBSET s : t # s => t \notin W
<1> DEFINE R == StrictSubsetOrdering(S)
<1>1. IsWellFoundedOn(R, FiniteSubsetsOf(S))
  BY FS_StrictSubsetOrderingWellFounded
<1>2. W \subseteq FiniteSubsetsOf(S)
  BY FS_Subset DEF FiniteSubsetsOf
<1>3. \E x \in W : \A y \in W : ~(<<y, x>> \in R)
  <2> HIDE DEF R
  <2> QED
    BY <1>1, <1>2, WFMin
<1> QED
  BY <1>2, <1>3 DEF StrictSubsetOrdering, FiniteSubsetsOf

-----------------------------------------------------------------------------
(* The recursive function under a sum.                                     *)

Chosen(s) == CHOOSE x \in s : TRUE

Iterates(it, F, S) ==
  it = [s \in SUBSET S |-> IF s = {} THEN 0 ELSE F[Chosen(s)] + it[s \ {Chosen(s)}]]

LEMMA ChosenIn == ASSUME NEW s, s # {} PROVE Chosen(s) \in s
BY DEF Chosen

LEMMA IterUnique ==
  ASSUME NEW S, IsFiniteSet(S), NEW F, NEW it, NEW ju, Iterates(it, F, S), Iterates(ju, F, S)
  PROVE  it = ju
<1> DEFINE W == {s \in SUBSET S : it[s] # ju[s]}
<1>1. ASSUME W # {} PROVE FALSE
  <2>1. PICK s \in W : \A t \in SUBSET s : t # s => t \notin W
    <3>1. W \subseteq SUBSET S
      OBVIOUS
    <3> HIDE DEF W
    <3> QED
      BY <1>1, <3>1, SmallestSet
  <2>2. CASE s = {}
    BY <2>2 DEF Iterates
  <2>3. CASE s # {}
    <3>1. Chosen(s) \in s
      BY <2>3, ChosenIn
    <3>2. it[s \ {Chosen(s)}] = ju[s \ {Chosen(s)}]
      BY <2>1, <3>1
    <3>3. /\ it[s] = F[Chosen(s)] + it[s \ {Chosen(s)}]
          /\ ju[s] = F[Chosen(s)] + ju[s \ {Chosen(s)}]
      BY <2>3 DEF Iterates
    <3> QED
      BY <3>2, <3>3
  <2> QED
    BY <2>2, <2>3
<1>2. \A s \in SUBSET S : it[s] = ju[s]
  BY <1>1
<1>3. it = [s \in SUBSET S |-> it[s]] /\ ju = [s \in SUBSET S |-> ju[s]]
  BY DEF Iterates
<1> QED
  BY <1>2, <1>3

\* What iterates over a set iterates over its subsets.
LEMMA IterRestricts ==
  ASSUME NEW S, NEW F, NEW it, Iterates(it, F, S), NEW T \in SUBSET S
  PROVE  Iterates([s \in SUBSET T |-> it[s]], F, T)
<1> DEFINE ju == [s \in SUBSET T |-> it[s]]
<1>1. ASSUME NEW s \in SUBSET T
      PROVE  ju[s] = IF s = {} THEN 0 ELSE F[Chosen(s)] + ju[s \ {Chosen(s)}]
  <2>1. it[s] = IF s = {} THEN 0 ELSE F[Chosen(s)] + it[s \ {Chosen(s)}]
    BY DEF Iterates
  <2> QED
    BY <2>1
<1> QED
  BY <1>1 DEF Iterates

\* Built up from the elements that are chosen last.
LEMMA IterExtends ==
  ASSUME NEW S, NEW F, NEW x \in S, x = Chosen(S), NEW g,
         \A s \in SUBSET S : s # S =>
            g[s] = IF s = {} THEN 0 ELSE F[Chosen(s)] + g[s \ {Chosen(s)}]
  PROVE  Iterates([s \in SUBSET S |-> IF s = S THEN F[x] + g[S \ {x}] ELSE g[s]], F, S)
<1> DEFINE ju == [s \in SUBSET S |-> IF s = S THEN F[x] + g[S \ {x}] ELSE g[s]]
<1>1. ASSUME NEW s \in SUBSET S
      PROVE  ju[s] = IF s = {} THEN 0 ELSE F[Chosen(s)] + ju[s \ {Chosen(s)}]
  <2>1. CASE s = S
    <3>1. S \ {x} # S
      OBVIOUS
    <3> QED
      BY <2>1, <3>1
  <2>2. CASE s # S
    <3>1. s \ {Chosen(s)} # S
      BY <2>2
    <3> QED
      BY <2>2, <3>1
  <2> QED
    BY <2>1, <2>2
<1> QED
  BY <1>1 DEF Iterates

LEMMA IterExists ==
  ASSUME NEW S, IsFiniteSet(S), NEW F
  PROVE  \E it : Iterates(it, F, S)
<1> DEFINE W == {T \in SUBSET S : ~ \E it : Iterates(it, F, T)}
<1>1. ASSUME W # {} PROVE FALSE
  <2>1. PICK T \in W : IsFiniteSet(T) /\ \A t \in SUBSET T : t # T => t \notin W
    <3>1. W \subseteq SUBSET S
      OBVIOUS
    <3> HIDE DEF W
    <3> QED
      BY <1>1, <3>1, SmallestSet
  <2>2. \A t \in SUBSET T : t # T => \E it : Iterates(it, F, t)
    BY <2>1
  <2>3. CASE T = {}
    <3>1. Iterates([s \in SUBSET T |-> 0], F, T)
      BY <2>3 DEF Iterates
    <3> QED
      BY <3>1
  <2>4. CASE T # {}
    <3> DEFINE At(t) == CHOOSE it : Iterates(it, F, t)
               g == [s \in SUBSET T |-> At(s)[s]]
    <3>1. ASSUME NEW s \in SUBSET T, s # T
          PROVE  g[s] = IF s = {} THEN 0 ELSE F[Chosen(s)] + g[s \ {Chosen(s)}]
      <4>1. Iterates(At(s), F, s)
        BY <2>2, <3>1
      <4>2. CASE s = {}
        BY <4>1, <4>2 DEF Iterates
      <4>3. CASE s # {}
        <5> DEFINE t == s \ {Chosen(s)}
        <5>1. Chosen(s) \in s
          BY <4>3, ChosenIn
        <5>2. t \in SUBSET s /\ t \in SUBSET T /\ t # T
          BY <3>1, <5>1
        <5>3. Iterates(At(t), F, t) /\ IsFiniteSet(t)
          BY <2>1, <2>2, <5>2, FS_Subset
        <5>4. Iterates([u \in SUBSET t |-> At(s)[u]], F, t)
          BY <4>1, <5>2, IterRestricts
        <5>5. At(t) = [u \in SUBSET t |-> At(s)[u]]
          <6> HIDE DEF At, t
          <6> QED
            BY <5>3, <5>4, IterUnique
        <5>6. At(t)[t] = At(s)[t]
          BY <5>5
        <5>7. At(s)[s] = F[Chosen(s)] + At(s)[t]
          BY <4>1, <4>3 DEF Iterates
        <5> QED
          BY <4>3, <5>2, <5>6, <5>7
      <4> QED
        BY <4>2, <4>3
    <3>2. Chosen(T) \in T
      BY <2>4, ChosenIn
    <3>3. \E it : Iterates(it, F, T)
      <4> HIDE DEF g
      <4> QED
        BY <3>1, <3>2, IterExtends
    <3> QED
      BY <3>3
  <2> QED
    BY <2>3, <2>4
<1> QED
  BY <1>1

-----------------------------------------------------------------------------
(* What a sum is.                                                          *)

\* The sum of the values of F over S.
Total(F, S) == MapThenSumSet(LAMBDA x : F[x], S)

LEMMA TotalIs ==
  ASSUME NEW S, IsFiniteSet(S), NEW F, NEW it, Iterates(it, F, S), NEW T \in SUBSET S
  PROVE  Total(F, T) = it[T]
<1> DEFINE ju == CHOOSE k : Iterates(k, F, T)
<1>1. Total(F, T) = ju[T]
  BY DEF Total, MapThenSumSet, MapThenFoldSet, Iterates, Chosen
<1>2. IsFiniteSet(T) /\ Iterates([s \in SUBSET T |-> it[s]], F, T)
  BY FS_Subset, IterRestricts
<1>3. Iterates(ju, F, T)
  BY <1>2
<1> HIDE DEF ju
<1>4. ju = [s \in SUBSET T |-> it[s]]
  BY <1>2, <1>3, IterUnique
<1> QED
  BY <1>1, <1>4

LEMMA TotalEmpty == ASSUME NEW F PROVE Total(F, {}) = 0
<1>1. IsFiniteSet({})
  BY FS_EmptySet
<1>2. PICK it : Iterates(it, F, {})
  BY <1>1, IterExists
<1>3. Total(F, {}) = it[{}]
  BY <1>1, <1>2, TotalIs
<1> QED
  BY <1>2, <1>3 DEF Iterates

LEMMA TotalChosen ==
  ASSUME NEW S, IsFiniteSet(S), NEW F, S # {}
  PROVE  Total(F, S) = F[Chosen(S)] + Total(F, S \ {Chosen(S)})
<1>1. PICK it : Iterates(it, F, S)
  BY IterExists
<1>2. Total(F, S) = it[S] /\ Total(F, S \ {Chosen(S)}) = it[S \ {Chosen(S)}]
  BY <1>1, TotalIs
<1>3. it[S] = F[Chosen(S)] + it[S \ {Chosen(S)}]
  BY <1>1 DEF Iterates
<1> QED
  BY <1>2, <1>3

\* Only the values on the set matter.
LEMMA TotalSame ==
  ASSUME NEW S, IsFiniteSet(S), NEW F, NEW G, \A x \in S : F[x] = G[x]
  PROVE  Total(F, S) = Total(G, S)
<1>1. PICK it : Iterates(it, F, S)
  BY IterExists
<1>2. \A s \in SUBSET S : s # {} => F[Chosen(s)] = G[Chosen(s)]
  BY ChosenIn
<1>3. Iterates(it, G, S)
  BY <1>1, <1>2 DEF Iterates
<1> QED
  BY <1>1, <1>3, TotalIs

LEMMA TotalInt ==
  ASSUME NEW S, IsFiniteSet(S), NEW F, \A x \in S : F[x] \in Int
  PROVE  Total(F, S) \in Int
<1> DEFINE W == {T \in SUBSET S : Total(F, T) \notin Int}
<1>1. ASSUME W # {} PROVE FALSE
  <2>1. PICK T \in W : IsFiniteSet(T) /\ \A t \in SUBSET T : t # T => t \notin W
    <3>1. W \subseteq SUBSET S
      OBVIOUS
    <3> HIDE DEF W
    <3> QED
      BY <1>1, <3>1, SmallestSet
  <2>2. T # {}
    BY TotalEmpty
  <2>3. Chosen(T) \in T
    BY <2>2, ChosenIn
  <2>4. Total(F, T \ {Chosen(T)}) \in Int
    BY <2>1, <2>3
  <2>5. Total(F, T) = F[Chosen(T)] + Total(F, T \ {Chosen(T)})
    BY <2>1, <2>2, TotalChosen
  <2> QED
    BY <2>3, <2>4, <2>5
<1> QED
  BY <1>1

\* Any element may be taken first.
LEMMA TotalTake ==
  ASSUME NEW S, IsFiniteSet(S), NEW F, \A y \in S : F[y] \in Int, NEW x \in S
  PROVE  Total(F, S) = F[x] + Total(F, S \ {x})
<1> DEFINE W == {T \in SUBSET S : \E y \in T : Total(F, T) # F[y] + Total(F, T \ {y})}
<1>1. ASSUME W # {} PROVE FALSE
  <2>1. PICK T \in W : IsFiniteSet(T) /\ \A t \in SUBSET T : t # T => t \notin W
    <3>1. W \subseteq SUBSET S
      OBVIOUS
    <3> HIDE DEF W
    <3> QED
      BY <1>1, <3>1, SmallestSet
  <2>2. PICK y \in T : Total(F, T) # F[y] + Total(F, T \ {y})
    BY <2>1
  <2> DEFINE c == Chosen(T)
  <2>3. c \in T
    BY ChosenIn
  <2> HIDE DEF c
  <2>4. Total(F, T) = F[c] + Total(F, T \ {c})
    BY <2>1, <2>3, TotalChosen DEF c
  <2>5. y # c
    BY <2>2, <2>4
  <2>6. Total(F, T \ {c}) = F[y] + Total(F, (T \ {c}) \ {y})
    BY <2>1, <2>3, <2>5
  <2>7. Total(F, T \ {y}) = F[c] + Total(F, (T \ {y}) \ {c})
    BY <2>1, <2>3, <2>5
  <2>8. (T \ {c}) \ {y} = (T \ {y}) \ {c}
    OBVIOUS
  <2>9. Total(F, (T \ {c}) \ {y}) \in Int /\ F[c] \in Int /\ F[y] \in Int
    <3>1. IsFiniteSet((T \ {c}) \ {y})
      BY <2>1, FS_Subset
    <3> QED
      BY <2>3, <3>1, TotalInt
  <2> DEFINE z == Total(F, (T \ {c}) \ {y})
  <2>10. F[c] + (F[y] + z) = F[y] + (F[c] + z)
    <3> HIDE DEF z
    <3>1. z \in Int /\ F[c] \in Int /\ F[y] \in Int
      BY <2>9 DEF z
    <3> QED
      BY <3>1
  <2> QED
    BY <2>2, <2>4, <2>6, <2>7, <2>8, <2>10
<1>2. S \notin W
  BY <1>1
<1> QED
  BY <1>2

LEMMA TotalAdd ==
  ASSUME NEW S, IsFiniteSet(S), NEW F, NEW x, x \notin S, \A y \in S \cup {x} : F[y] \in Int
  PROVE  Total(F, S \cup {x}) = Total(F, S) + F[x]
<1>1. IsFiniteSet(S \cup {x}) /\ (S \cup {x}) \ {x} = S
  BY FS_AddElement
<1>2. Total(F, S \cup {x}) = F[x] + Total(F, S)
  BY <1>1, TotalTake
<1> QED
  BY <1>2, TotalInt

LEMMA TotalOne ==
  ASSUME NEW F, NEW x, F[x] \in Int
  PROVE  Total(F, {x}) = F[x]
<1>1. IsFiniteSet({}) /\ {} \cup {x} = {x}
  BY FS_EmptySet
<1>2. Total(F, {} \cup {x}) = Total(F, {}) + F[x]
  BY <1>1, TotalAdd
<1> QED
  BY <1>1, <1>2, TotalEmpty

LEMMA TotalTwo ==
  ASSUME NEW F, NEW x, NEW y, x # y, F[x] \in Int, F[y] \in Int, NEW T, T = {x, y}
  PROVE  Total(F, T) = F[x] + F[y]
<1> DEFINE S == {x}
<1>1. IsFiniteSet(S) /\ Total(F, S) = F[x]
  BY FS_Singleton, TotalOne
<1>2. y \notin S /\ (\A z \in S \cup {y} : F[z] \in Int)
  OBVIOUS
<1>3. T = S \cup {y}
  OBVIOUS
<1> HIDE DEF S
<1>4. Total(F, S \cup {y}) = Total(F, S) + F[y]
  BY ONLY <1>1, <1>2, TotalAdd
<1> QED
  BY <1>1, <1>3, <1>4

\* The sum of sums.
LEMMA TotalUnion ==
  ASSUME NEW S, IsFiniteSet(S), NEW T, IsFiniteSet(T), S \cap T = {},
         NEW F, \A y \in S \cup T : F[y] \in Int
  PROVE  Total(F, S \cup T) = Total(F, S) + Total(F, T)
<1> DEFINE W == {U \in SUBSET T : Total(F, S \cup U) # Total(F, S) + Total(F, U)}
<1>0. Total(F, S) \in Int
  BY TotalInt
<1>1. ASSUME W # {} PROVE FALSE
  <2>1. PICK U \in W : IsFiniteSet(U) /\ \A t \in SUBSET U : t # U => t \notin W
    <3>1. W \subseteq SUBSET T
      OBVIOUS
    <3> HIDE DEF W
    <3> QED
      BY <1>1, <3>1, SmallestSet
  <2>2. CASE U = {}
    <3>1. S \cup U = S
      BY <2>2
    <3> QED
      BY <1>0, <2>1, <2>2, <3>1, TotalEmpty
  <2>3. CASE U # {}
    <3>1. PICK x \in U : TRUE
      BY <2>3
    <3> DEFINE V == U \ {x}
    <3>2. Total(F, S \cup V) = Total(F, S) + Total(F, V)
      BY <2>1
    <3>3. /\ S \cup U = (S \cup V) \cup {x} /\ x \notin S \cup V
          /\ U = V \cup {x} /\ x \notin V
      OBVIOUS
    <3>4. IsFiniteSet(V) /\ IsFiniteSet(S \cup V)
      BY <2>1, FS_Subset, FS_Union
    <3>5. /\ \A y \in (S \cup V) \cup {x} : F[y] \in Int
          /\ \A y \in V \cup {x} : F[y] \in Int
      OBVIOUS
    <3> HIDE DEF V, W
    <3> DEFINE A == S \cup V
    <3>6. Total(F, S \cup U) = Total(F, S \cup V) + F[x]
      <4>1. IsFiniteSet(A) /\ x \notin A /\ \A y \in A \cup {x} : F[y] \in Int
        BY <3>3, <3>4, <3>5
      <4>2. S \cup U = A \cup {x}
        BY <3>3
      <4> HIDE DEF A
      <4>3. Total(F, A \cup {x}) = Total(F, A) + F[x]
        BY <4>1, TotalAdd
      <4> QED
        BY <4>2, <4>3 DEF A
    <3>7. Total(F, U) = Total(F, V) + F[x]
      BY <3>3, <3>4, <3>5, TotalAdd
    <3>8. Total(F, V) \in Int /\ F[x] \in Int
      BY <3>4, <3>5, TotalInt
    <3>9. Total(F, S \cup U) = Total(F, S) + Total(F, U)
      BY <1>0, <3>2, <3>6, <3>7, <3>8
    <3> QED
      BY <2>1, <3>9 DEF W
  <2> QED
    BY <2>2, <2>3
<1>2. T \notin W
  BY <1>1
<1> QED
  BY <1>2

LEMMA TotalZero ==
  ASSUME NEW S, IsFiniteSet(S), NEW F, \A x \in S : F[x] = 0
  PROVE  Total(F, S) = 0
<1> DEFINE W == {T \in SUBSET S : Total(F, T) # 0}
<1>1. ASSUME W # {} PROVE FALSE
  <2>1. PICK T \in W : IsFiniteSet(T) /\ \A t \in SUBSET T : t # T => t \notin W
    <3>1. W \subseteq SUBSET S
      OBVIOUS
    <3> HIDE DEF W
    <3> QED
      BY <1>1, <3>1, SmallestSet
  <2>2. T # {}
    BY TotalEmpty
  <2>3. Chosen(T) \in T
    BY <2>2, ChosenIn
  <2>4. Total(F, T \ {Chosen(T)}) = 0
    BY <2>1, <2>3
  <2>5. Total(F, T) = F[Chosen(T)] + Total(F, T \ {Chosen(T)})
    BY <2>1, <2>2, TotalChosen
  <2> QED
    BY <2>3, <2>4, <2>5
<1>2. S \notin W
  BY <1>1
<1> QED
  BY <1>2

\* Term by term.
LEMMA TotalPlus ==
  ASSUME NEW S, IsFiniteSet(S), NEW F, NEW G, NEW H,
         \A x \in S : F[x] \in Int /\ G[x] \in Int /\ H[x] = F[x] + G[x]
  PROVE  Total(H, S) = Total(F, S) + Total(G, S)
<1> DEFINE W == {T \in SUBSET S : Total(H, T) # Total(F, T) + Total(G, T)}
<1>1. ASSUME W # {} PROVE FALSE
  <2>1. PICK T \in W : IsFiniteSet(T) /\ \A t \in SUBSET T : t # T => t \notin W
    <3>1. W \subseteq SUBSET S
      OBVIOUS
    <3> HIDE DEF W
    <3> QED
      BY <1>1, <3>1, SmallestSet
  <2>2. T # {}
    <3>1. CASE T = {}
      BY <2>1, <3>1, TotalEmpty
    <3> QED
      BY <3>1
  <2> DEFINE c == Chosen(T)
             U == T \ {c}
  <2>3. c \in T
    BY <2>2, ChosenIn
  <2>4. Total(H, U) = Total(F, U) + Total(G, U)
    BY <2>1, <2>3
  <2>5. /\ Total(F, T) = F[c] + Total(F, U)
        /\ Total(G, T) = G[c] + Total(G, U)
        /\ Total(H, T) = H[c] + Total(H, U)
    BY <2>1, <2>2, TotalChosen
  <2>6. Total(F, U) \in Int /\ Total(G, U) \in Int
    <3>1. IsFiniteSet(U) /\ \A x \in U : F[x] \in Int /\ G[x] \in Int
      BY <2>1, FS_Subset
    <3> QED
      BY <3>1, TotalInt
  <2>7. F[c] \in Int /\ G[c] \in Int /\ H[c] = F[c] + G[c]
    BY <2>3
  <2> HIDE DEF c, U
  <2> QED
    BY <2>1, <2>4, <2>5, <2>6, <2>7
<1>2. S \notin W
  BY <1>1
<1> QED
  BY <1>2

LEMMA TotalMinus ==
  ASSUME NEW S, IsFiniteSet(S), NEW F, NEW G, \A x \in S : F[x] \in Int /\ G[x] = -F[x]
  PROVE  Total(G, S) = -Total(F, S)
<1> DEFINE H == [x \in S |-> 0]
<1>1. \A x \in S : F[x] \in Int /\ G[x] \in Int /\ H[x] = F[x] + G[x]
  OBVIOUS
<1>2. \A x \in S : H[x] = 0
  OBVIOUS
<1> HIDE DEF H
<1>3. Total(H, S) = Total(F, S) + Total(G, S)
  BY <1>1, TotalPlus
<1>4. Total(H, S) = 0
  BY <1>2, TotalZero
<1>5. Total(F, S) \in Int /\ Total(G, S) \in Int
  BY <1>1, TotalInt
<1> QED
  BY <1>3, <1>4, <1>5

\* Elements renamed.
LEMMA TotalMap ==
  ASSUME NEW S, IsFiniteSet(S), NEW F, NEW G, NEW h, DOMAIN h = S,
         \A x, y \in S : h[x] = h[y] => x = y,
         \A x \in S : F[x] \in Int /\ G[h[x]] = F[x]
  PROVE  Total(G, {h[x] : x \in S}) = Total(F, S)
<1> DEFINE Im(T) == {h[x] : x \in T}
           W == {T \in SUBSET S : ~(IsFiniteSet(Im(T)) /\ Total(G, Im(T)) = Total(F, T))}
<1>1. ASSUME W # {} PROVE FALSE
  <2>1. PICK T \in W : IsFiniteSet(T) /\ \A t \in SUBSET T : t # T => t \notin W
    <3>1. W \subseteq SUBSET S
      OBVIOUS
    <3> HIDE DEF W
    <3> QED
      BY <1>1, <3>1, SmallestSet
  <2>2. CASE T = {}
    <3>1. Im(T) = {}
      BY <2>2
    <3> QED
      BY <2>1, <2>2, <3>1, TotalEmpty, FS_EmptySet
  <2>3. CASE T # {}
    <3>1. PICK x \in T : TRUE
      BY <2>3
    <3> DEFINE V == T \ {x}
    <3>2. IsFiniteSet(Im(V)) /\ Total(G, Im(V)) = Total(F, V)
      BY <2>1
    <3>3. Im(T) = Im(V) \cup {h[x]} /\ h[x] \notin Im(V) /\ T = V \cup {x} /\ x \notin V
      OBVIOUS
    <3>4. /\ \A y \in Im(V) \cup {h[x]} : G[y] \in Int
          /\ \A y \in V \cup {x} : F[y] \in Int
          /\ G[h[x]] = F[x]
      OBVIOUS
    <3>5. IsFiniteSet(V)
      BY <2>1, FS_Subset
    <3> HIDE DEF V, W, Im
    <3>6. Total(G, Im(T)) = Total(G, Im(V)) + G[h[x]]
      BY <3>2, <3>3, <3>4, TotalAdd
    <3>7. Total(F, T) = Total(F, V) + F[x]
      BY <3>3, <3>4, <3>5, TotalAdd
    <3>8. IsFiniteSet(Im(T)) /\ Total(G, Im(T)) = Total(F, T)
      BY <3>2, <3>3, <3>4, <3>6, <3>7, FS_AddElement
    <3> QED
      BY <2>1, <3>8 DEF W
  <2> QED
    BY <2>2, <2>3
<1>2. S \notin W
  BY <1>1
<1> QED
  BY <1>2

\* What pairs carry: a sum over their second parts.
Seconds(W) == [w \in W |-> w[2]]

LEMMA SecondsAddUp ==
  ASSUME NEW W, IsFiniteSet(W)
  PROVE  MapThenSumSet(LAMBDA w : w[2], W) = Total(Seconds(W), W)
<1> DEFINE F == Seconds(W)
           ju == CHOOSE k : k = [s \in SUBSET W |->
                   IF s = {} THEN 0 ELSE Chosen(s)[2] + k[s \ {Chosen(s)}]]
<1>1. MapThenSumSet(LAMBDA w : w[2], W) = ju[W]
  BY DEF MapThenSumSet, MapThenFoldSet, Chosen
<1>2. PICK it : Iterates(it, F, W)
  BY IterExists
<1>3. \A s \in SUBSET W : s # {} => F[Chosen(s)] = Chosen(s)[2]
  BY ChosenIn DEF Seconds
<1> HIDE DEF F
<1>4. it = [s \in SUBSET W |-> IF s = {} THEN 0 ELSE Chosen(s)[2] + it[s \ {Chosen(s)}]]
  BY <1>2, <1>3 DEF Iterates
<1>5. ju = [s \in SUBSET W |-> IF s = {} THEN 0 ELSE Chosen(s)[2] + ju[s \ {Chosen(s)}]]
  BY <1>4
<1> HIDE DEF ju
<1>6. Iterates(ju, F, W)
  BY <1>5, <1>3 DEF Iterates
<1>7. Total(F, W) = ju[W]
  BY <1>6, TotalIs
<1> QED
  BY <1>1, <1>7 DEF F

=============================================================================
