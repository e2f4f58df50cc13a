----------------------------- MODULE FoldLemmas -----------------------------
(***************************************************************************)
(* Induction and recursion over the subsets of a finite set, stated for    *)
(* sets and functions, and what they say of the folds of the community     *)
(* modules: MapThenFoldSet is a recursive function on the subsets of the   *)
(* set that it folds.                                                      *)
(***************************************************************************)
EXTENDS Integers, FiniteSets, FiniteSetTheorems, TLAPS

(* Natural induction: what holds of 0 and of the successor of each number  *)
(* it holds of, holds of every natural number.                             *)
LEMMA NaturalsBelong ==
  ASSUME NEW G, 0 \in G, \A n \in Nat : n \in G => n + 1 \in G
  PROVE  \A n \in Nat : n \in G
<1> DEFINE Bad == {n \in Nat : n \notin G}
<1>1. SUFFICES ASSUME Bad # {} PROVE FALSE
  OBVIOUS
<1>2. PICK n \in Bad : \A m \in Bad : ~ (<<m, n>> \in OpToRel(<, Nat))
  <2>1. Bad \subseteq Nat
    OBVIOUS
  <2> HIDE DEF Bad
  <2> QED
    BY <1>1, <2>1, NatLessThanWellFounded, WFMin
<1>3. \A m \in Bad : ~ (m < n)
  BY <1>2 DEF OpToRel
<1>4. n # 0 /\ n - 1 \in Nat
  OBVIOUS
<1>5. n - 1 \notin Bad
  BY <1>3, <1>4
<1> QED
  BY <1>4, <1>5

(* Induction over the subsets of a finite set, from the smaller ones.      *)
LEMMA SubsetsBelong ==
  ASSUME NEW S, IsFiniteSet(S), NEW G,
         \A T \in SUBSET S : (\A U \in (SUBSET T) \ {T} : U \in G) => T \in G
  PROVE  \A T \in SUBSET S : T \in G
<1> DEFINE Bad == {T \in SUBSET S : T \notin G}
<1>1. SUFFICES ASSUME Bad # {} PROVE FALSE
  OBVIOUS
<1>2. PICK T \in Bad : \A U \in Bad : ~ (<<U, T>> \in StrictSubsetOrdering(S))
  <2>1. Bad \subseteq FiniteSubsetsOf(S)
    BY FS_FiniteSubsetsOfFinite
  <2> HIDE DEF Bad
  <2> QED
    BY <1>1, <2>1, FS_StrictSubsetOrderingWellFounded, WFMin
<1>3. \A U \in (SUBSET T) \ {T} : U \notin Bad
  BY <1>2 DEF StrictSubsetOrdering
<1> QED
  BY <1>3

(* A set of numbers that is not empty has a smallest one.                  *)
LEMMA HasSmallest ==
  ASSUME NEW S, S # {}, S \subseteq Nat
  PROVE  \E m \in S : \A n \in S : m <= n
<1>1. PICK m \in S : \A n \in S : ~ (<<n, m>> \in OpToRel(<, Nat))
  BY NatLessThanWellFounded, WFMin
<1>2. m \in Nat /\ \A n \in S : n \in Nat
  OBVIOUS
<1>3. \A n \in S : ~ (n < m)
  BY <1>1, <1>2 DEF OpToRel
<1> QED
  BY <1>2, <1>3

(* A finite set of numbers that is not empty has a largest one.            *)
LEMMA FiniteHasLargest ==
  ASSUME NEW S, IsFiniteSet(S), S # {}, S \subseteq Nat
  PROVE  \E b \in S : \A c \in S : c <= b
<1> DEFINE G == {T \in SUBSET S : T # {} => \E b \in T : \A c \in T : c <= b}
<1>1. ASSUME NEW T \in SUBSET S, \A U \in (SUBSET T) \ {T} : U \in G, T # {}
      PROVE  \E b \in T : \A c \in T : c <= b
  <2>1. PICK x \in T : TRUE
    BY <1>1
  <2>2. T \ {x} \in G
    BY <1>1
  <2>3. CASE T \ {x} = {}
    BY <2>1, <2>3
  <2>4. CASE T \ {x} # {}
    <3>1. PICK b \in T \ {x} : \A c \in T \ {x} : c <= b
      BY <2>2, <2>4
    <3>2. x \in Nat /\ b \in Nat
      OBVIOUS
    <3>3. CASE x <= b
      BY <3>1, <3>3
    <3>4. CASE b < x
      BY <3>1, <3>2, <3>4
    <3> QED
      BY <3>2, <3>3, <3>4
  <2> QED
    BY <2>3, <2>4
<1> HIDE DEF G
<1>2. S \in G
  BY <1>1, SubsetsBelong DEF G
<1> QED
  BY <1>2 DEF G

(* pick takes an element of every set of the subsets of S but the empty    *)
(* one.                                                                    *)
Picks(pick, S) == \A s \in SUBSET S : s # {} => pick[s] \in s

(* What it means for g to map every set of D to the result of folding it.  *)
IsFold(g, D, base, F, pick) ==
  \A s \in D :
    g[s] = IF s = {} THEN base ELSE F[<<pick[s], g[s \ {pick[s]}]>>]

(* A fold exists. Whatever order pick takes the elements in, there is a    *)
(* function that maps every subset of S to the result of folding it.       *)
LEMMA FoldExists ==
  ASSUME NEW S, IsFiniteSet(S), NEW X, NEW base \in X,
         NEW F \in [S \X X -> X], NEW pick, Picks(pick, S)
  PROVE  \E g \in [SUBSET S -> X] : IsFold(g, SUBSET S, base, F, pick)
<1> DEFINE Upto(n) == {s \in SUBSET S : Cardinality(s) <= n}
           G == {n \in Nat :
                   \E g \in [Upto(n) -> X] : IsFold(g, Upto(n), base, F, pick)}
<1>1. \A s \in SUBSET S : IsFiniteSet(s) /\ Cardinality(s) \in Nat
                            /\ (Cardinality(s) = 0 <=> s = {})
  BY FS_Subset, FS_CardinalityType, FS_EmptySet
<1>2. \A s \in (SUBSET S) \ {{}} :
         Cardinality(s \ {pick[s]}) = Cardinality(s) - 1
  BY <1>1, FS_RemoveElement DEF Picks
<1>3. 0 \in G
  <2>1. Upto(0) = {{}}
    BY <1>1
  <2> DEFINE g == [s \in Upto(0) |-> base]
  <2>2. g \in [Upto(0) -> X] /\ IsFold(g, Upto(0), base, F, pick)
    BY <2>1 DEF IsFold
  <2> QED
    BY <2>2
<1>4. ASSUME NEW n \in Nat, n \in G PROVE n + 1 \in G
  <2>1. PICK g \in [Upto(n) -> X] : IsFold(g, Upto(n), base, F, pick)
    BY <1>4
  <2> DEFINE h == [s \in Upto(n + 1) |->
                     IF s = {} THEN base ELSE F[<<pick[s], g[s \ {pick[s]}]>>]]
  <2>2. \A s \in Upto(n + 1) : s # {} => s \ {pick[s]} \in Upto(n)
    BY <1>1, <1>2 DEF Picks
  <2>3. \A s \in Upto(n) : s \in Upto(n + 1)
    BY <1>1
  <2>4. \A s \in Upto(n) : h[s] = g[s]
    BY <2>1, <2>3 DEF IsFold
  <2>5. h \in [Upto(n + 1) -> X]
    <3>1. ASSUME NEW s \in Upto(n + 1), s # {}
          PROVE  F[<<pick[s], g[s \ {pick[s]}]>>] \in X
      <4>1. s \ {pick[s]} \in Upto(n)
        BY <2>2, <3>1
      <4>2. pick[s] \in S
        BY <3>1 DEF Picks
      <4> QED
        BY <4>1, <4>2
    <3> QED
      BY <3>1
  <2>6. IsFold(h, Upto(n + 1), base, F, pick)
    <3>1. \A s \in Upto(n + 1) : s # {} => h[s \ {pick[s]}] = g[s \ {pick[s]}]
      BY <2>2, <2>4
    <3> QED
      BY <3>1 DEF IsFold
  <2> HIDE DEF h, Upto
  <2> QED
    BY <2>5, <2>6
<1>5. Cardinality(S) \in G
  <2> HIDE DEF G
  <2> QED
    BY <1>3, <1>4, NaturalsBelong, FS_CardinalityType
<1>6. Upto(Cardinality(S)) = SUBSET S
  BY <1>1, FS_Subset
<1> HIDE DEF Upto
<1> QED
  BY <1>5, <1>6

(* There is only one.                                                      *)
LEMMA FoldUnique ==
  ASSUME NEW S, IsFiniteSet(S), NEW base, NEW F, NEW pick, Picks(pick, S),
         NEW g, IsFold(g, SUBSET S, base, F, pick),
         NEW h, IsFold(h, SUBSET S, base, F, pick)
  PROVE  \A s \in SUBSET S : g[s] = h[s]
<1> DEFINE G == {s \in SUBSET S : g[s] = h[s]}
<1>1. ASSUME NEW s \in SUBSET S, \A u \in (SUBSET s) \ {s} : u \in G
      PROVE  s \in G
  <2>1. CASE s = {}
    BY <2>1 DEF IsFold
  <2>2. CASE s # {}
    <3>1. s \ {pick[s]} \in G
      BY <1>1, <2>2 DEF Picks
    <3> QED
      BY <3>1, <2>2 DEF IsFold
  <2> QED
    BY <2>1, <2>2
<1> HIDE DEF G
<1>2. \A s \in SUBSET S : s \in G
  BY <1>1, SubsetsBelong
<1> QED
  BY <1>2 DEF G
=============================================================================
