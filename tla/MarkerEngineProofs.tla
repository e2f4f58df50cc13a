------------------------- MODULE MarkerEngineProofs -------------------------
(***************************************************************************)
(* Proofs about the marker calls of OsmTileEngine, for any number of       *)
(* callers, markers and calls: the map stays in order, one call works on   *)
(* it at a time, and the calls look atomic, that is, MarkerEngine          *)
(* implements AtomicMarkers.                                               *)
(***************************************************************************)
EXTENDS MarkerEngine, FoldLemmas, SequenceTheorems

---------------------------------------------------------------------------
(* Sorting. A key is a number that no two elements share.                  *)

IsKey(key, S) ==
  /\ \A x \in S : key[x] \in Int
  /\ \A x, y \in S : key[x] = key[y] => x = y

Rank(S, key, x) == Cardinality({y \in S : key[y] < key[x]})

(* There are as many keys as elements.                                     *)
LEMMA KeysCounted ==
  ASSUME NEW S, IsFiniteSet(S), NEW key, \A x, y \in S : key[x] = key[y] => x = y
  PROVE  /\ IsFiniteSet({key[x] : x \in S})
         /\ Cardinality({key[x] : x \in S}) = Cardinality(S)
<1> DEFINE K == {key[x] : x \in S}
           f == [x \in S |-> key[x]]
<1>1. f \in Bijection(S, K)
  BY DEF Bijection, Injection, Surjection, IsInjective
<1> HIDE DEF f, K
<1>2. ExistsBijection(S, K)
  BY <1>1 DEF ExistsBijection
<1>3. IsFiniteSet(K) /\ Cardinality(K) = Cardinality(S)
  BY <1>2, FS_Bijection
<1> QED
  BY <1>3 DEF K

(* The ranks are 0..(Cardinality(S) - 1), each once.                       *)
LEMMA RanksArePlaces ==
  ASSUME NEW S, IsFiniteSet(S), NEW key, IsKey(key, S)
  PROVE  /\ Cardinality(S) \in Nat
         /\ \A x, y \in S : Rank(S, key, x) = Rank(S, key, y) => x = y
         /\ \A i \in 1..Cardinality(S) : \E x \in S : Rank(S, key, x) = i - 1
         /\ \A x \in S : Rank(S, key, x) \in 0..(Cardinality(S) - 1)
<1> DEFINE n == Cardinality(S)
           below(x) == {y \in S : key[y] < key[x]}
           f == [x \in S |-> 1 + Rank(S, key, x)]
<1>1. n \in Nat
  BY FS_CardinalityType
<1>2. ASSUME NEW x \in S
      PROVE  /\ IsFiniteSet(below(x)) /\ Rank(S, key, x) = Cardinality(below(x))
             /\ Rank(S, key, x) \in 0..(n - 1)
  <2>1. below(x) \subseteq S \ {x}
    BY DEF IsKey
  <2>2. IsFiniteSet(S \ {x}) /\ Cardinality(S \ {x}) = n - 1
    BY FS_RemoveElement
  <2>3. Rank(S, key, x) = Cardinality(below(x))
    BY DEF Rank
  <2> HIDE DEF below, n
  <2>4. IsFiniteSet(below(x)) /\ Cardinality(below(x)) <= n - 1
    BY <2>1, <2>2, FS_Subset
  <2>5. Cardinality(below(x)) \in Nat
    BY <2>4, FS_CardinalityType
  <2> QED
    BY <1>1, <2>3, <2>4, <2>5
<1>3. ASSUME NEW x \in S, NEW y \in S, key[x] < key[y]
      PROVE  Rank(S, key, x) < Rank(S, key, y)
  <2>1. below(x) \subseteq below(y) /\ x \in below(y) /\ x \notin below(x)
    BY <1>3 DEF IsKey
  <2>2. IsFiniteSet(below(y)) /\ Rank(S, key, x) \in Int /\ Rank(S, key, y) \in Int
    <3> HIDE DEF below, n
    <3> QED
      BY <1>1, <1>2
  <2>3. Rank(S, key, x) = Cardinality(below(x)) /\ Rank(S, key, y) = Cardinality(below(y))
    BY DEF Rank
  <2> HIDE DEF below
  <2>4. /\ Cardinality(below(x)) <= Cardinality(below(y))
        /\ Cardinality(below(x)) # Cardinality(below(y))
    BY <2>1, <2>2, FS_Subset
  <2> QED
    BY <2>2, <2>3, <2>4
<1> HIDE DEF below
<1>4. \A x, y \in S : Rank(S, key, x) = Rank(S, key, y) => x = y
  <2> SUFFICES ASSUME NEW x \in S, NEW y \in S, x # y
               PROVE  Rank(S, key, x) # Rank(S, key, y)
    OBVIOUS
  <2>1. key[x] < key[y] \/ key[y] < key[x]
    BY DEF IsKey
  <2>2. Rank(S, key, x) \in Int /\ Rank(S, key, y) \in Int
    BY <1>1, <1>2
  <2> QED
    BY <1>3, <2>1, <2>2
<1>5. f \in Surjection(S, 1..n)
  <2>1. f \in [S -> 1..n]
    BY <1>1, <1>2
  <2>2. \A x, y \in S : f[x] = f[y] => x = y
    <3> SUFFICES ASSUME NEW x \in S, NEW y \in S, f[x] = f[y] PROVE x = y
      OBVIOUS
    <3>1. Rank(S, key, x) \in Int /\ Rank(S, key, y) \in Int
      BY <1>1, <1>2
    <3> QED
      BY <1>4, <3>1
  <2>3. IsFiniteSet(1..n) /\ Cardinality(1..n) = n
    BY <1>1, FS_Interval
  <2> HIDE DEF f
  <2>4. f \in Injection(S, 1..n)
    BY <2>1, <2>2 DEF Injection, IsInjective
  <2> QED
    BY <2>3, <2>4, FS_Injection
<1>6. ASSUME NEW i \in 1..n PROVE \E x \in S : Rank(S, key, x) = i - 1
  <2>1. PICK x \in S : f[x] = i
    BY <1>5 DEF Surjection
  <2>2. 1 + Rank(S, key, x) = i /\ Rank(S, key, x) \in Int
    BY <1>1, <1>2, <2>1
  <2> QED
    BY <2>2
<1> QED
  BY <1>1, <1>2, <1>4, <1>6

(* A sorted set has each element at the place of its rank.                 *)
LEMMA SortedByRank ==
  ASSUME NEW S, IsFiniteSet(S), NEW key, IsKey(key, S)
  PROVE  \A i \in 1..Cardinality(S) : /\ SortedBy(S, key)[i] \in S
                                      /\ Rank(S, key, SortedBy(S, key)[i]) = i - 1
<1> SUFFICES ASSUME NEW i \in 1..Cardinality(S)
             PROVE  /\ SortedBy(S, key)[i] \in S
                    /\ Rank(S, key, SortedBy(S, key)[i]) = i - 1
  OBVIOUS
<1>1. SortedBy(S, key)[i] = CHOOSE x \in S : Rank(S, key, x) = i - 1
  BY DEF SortedBy, Rank
<1>2. \E x \in S : Rank(S, key, x) = i - 1
  BY RanksArePlaces
<1> QED
  BY <1>1, <1>2

(* It holds all of them.                                                   *)
LEMMA SortedByCovers ==
  ASSUME NEW S, IsFiniteSet(S), NEW key, IsKey(key, S)
  PROVE  {SortedBy(S, key)[i] : i \in 1..Cardinality(S)} = S
<1>1. Cardinality(S) \in Nat
  BY RanksArePlaces
<1>2. ASSUME NEW x \in S
      PROVE  \E i \in 1..Cardinality(S) : SortedBy(S, key)[i] = x
  <2> DEFINE i == 1 + Rank(S, key, x)
  <2>1. Rank(S, key, x) \in 0..(Cardinality(S) - 1)
    BY RanksArePlaces
  <2>2. i \in 1..Cardinality(S) /\ i - 1 = Rank(S, key, x)
    BY <1>1, <2>1
  <2> HIDE DEF i
  <2>3. /\ SortedBy(S, key)[i] \in S
        /\ Rank(S, key, SortedBy(S, key)[i]) = Rank(S, key, x)
    BY <2>2, SortedByRank
  <2>4. SortedBy(S, key)[i] = x
    BY <2>3, RanksArePlaces
  <2> QED
    BY <2>2, <2>4
<1>3. \A i \in 1..Cardinality(S) : SortedBy(S, key)[i] \in S
  BY SortedByRank
<1> QED
  BY <1>2, <1>3

(* AtomicMarkers has a copy of Cardinality.                                *)
LEMMA CountsAgree == \A S : Service!Cardinality(S) = Cardinality(S)
  BY DEF Service!Cardinality, Cardinality, Service!IsFiniteSet, IsFiniteSet

LEMMA InOrderLists ==
  ASSUME NEW ids
  PROVE  Service!InOrder(ids) = [i \in 1..Cardinality(ids) |-> Service!InOrder(ids)[i]]
<1> DEFINE at(i) == CHOOSE id \in ids :
                      Service!Cardinality({o \in ids : o < id}) = i - 1
<1>1. Service!InOrder(ids) = [i \in 1..Cardinality(ids) |-> at(i)]
  BY CountsAgree DEF Service!InOrder
<1> HIDE DEF at
<1> QED
  BY <1>1

(* AtomicMarkers sorts ids by themselves.                                  *)
LEMMA InOrderByRank ==
  ASSUME NEW ids, IsFiniteSet(ids), ids \subseteq Int,
         NEW self, \A id \in ids : self[id] = id
  PROVE  /\ DOMAIN Service!InOrder(ids) = 1..Cardinality(ids)
         /\ \A i \in 1..Cardinality(ids) :
              /\ Service!InOrder(ids)[i] \in ids
              /\ Rank(ids, self, Service!InOrder(ids)[i]) = i - 1
<1>1. IsKey(self, ids)
  BY DEF IsKey
<1>2. \A id \in ids : Service!Cardinality({o \in ids : o < id}) = Rank(ids, self, id)
  <2>1. \A id \in ids : {o \in ids : o < id} = {o \in ids : self[o] < self[id]}
    OBVIOUS
  <2> QED
    BY <2>1, CountsAgree DEF Rank
<1>3. DOMAIN Service!InOrder(ids) = 1..Cardinality(ids)
  BY CountsAgree DEF Service!InOrder
<1>4. /\ \A x, y \in ids : Rank(ids, self, x) = Rank(ids, self, y) => x = y
      /\ \A i \in 1..Cardinality(ids) : \E x \in ids : Rank(ids, self, x) = i - 1
  <2>1. IsFiniteSet(ids) /\ IsKey(self, ids)
    BY <1>1
  <2> QED
    BY ONLY <2>1, RanksArePlaces
<1>5. ASSUME NEW i \in 1..Cardinality(ids)
      PROVE  /\ Service!InOrder(ids)[i] \in ids
             /\ Rank(ids, self, Service!InOrder(ids)[i]) = i - 1
  <2>1. PICK id \in ids : Rank(ids, self, id) = i - 1
    BY <1>4
  <2>2. Service!Cardinality({o \in ids : o < id}) = i - 1
    BY <1>2, <2>1
  <2>3. Service!InOrder(ids)[i]
          = CHOOSE x \in ids : Service!Cardinality({o \in ids : o < x}) = i - 1
    BY CountsAgree DEF Service!InOrder
  <2>4. /\ Service!InOrder(ids)[i] \in ids
        /\ Service!Cardinality({o \in ids : o < Service!InOrder(ids)[i]}) = i - 1
    BY <2>2, <2>3
  <2> QED
    BY <1>2, <2>4
<1> QED
  BY <1>3, <1>5

(* What has the i-th place has the i-th key.                               *)
LEMMA SortedByKeys ==
  ASSUME NEW S, IsFiniteSet(S), NEW key, IsKey(key, S)
  PROVE  \A i \in 1..Cardinality(S) :
           /\ SortedBy(S, key)[i] \in S
           /\ key[SortedBy(S, key)[i]] = Service!InOrder({key[x] : x \in S})[i]
<1> DEFINE K == {key[x] : x \in S}
           self == [k \in K |-> k]
<1>1. IsFiniteSet(K) /\ Cardinality(K) = Cardinality(S)
  BY KeysCounted DEF IsKey
<1>2. IsKey(self, K)
  BY DEF IsKey
<1>3. ASSUME NEW x \in S PROVE Rank(K, self, key[x]) = Rank(S, key, x)
  <2> DEFINE below == {y \in S : key[y] < key[x]}
  <2>1. IsFiniteSet(below) /\ IsKey(key, below)
    BY FS_Subset DEF IsKey
  <2>2. {k \in K : self[k] < self[key[x]]} = {key[y] : y \in below}
    OBVIOUS
  <2> HIDE DEF below
  <2>3. Cardinality({key[y] : y \in below}) = Cardinality(below)
    BY <2>1, KeysCounted DEF IsKey
  <2> QED
    BY <2>2, <2>3 DEF Rank, below
<1> SUFFICES ASSUME NEW i \in 1..Cardinality(S)
             PROVE  /\ SortedBy(S, key)[i] \in S
                    /\ key[SortedBy(S, key)[i]] = Service!InOrder(K)[i]
  OBVIOUS
<1> DEFINE x == SortedBy(S, key)[i]
           k == Service!InOrder(K)[i]
<1>4. x \in S /\ Rank(S, key, x) = i - 1
  BY SortedByRank
<1>5. K \subseteq Int
  BY DEF IsKey
<1>6. key[x] \in K
  BY <1>4
<1> HIDE DEF K
<1>7. k \in K /\ Rank(K, self, k) = i - 1
  <2>1. \A o \in K : self[o] = o
    OBVIOUS
  <2> HIDE DEF self
  <2> QED
    BY <1>1, <1>5, <2>1, InOrderByRank
<1> HIDE DEF self
<1> HIDE DEF x, k
<1>8. key[x] = k
  <2>1. Rank(K, self, key[x]) = Rank(K, self, k)
    BY <1>3, <1>4, <1>7
  <2> QED
    BY <1>1, <1>2, <1>6, <1>7, <2>1, RanksArePlaces
<1> QED
  BY <1>4, <1>8 DEF x, k

---------------------------------------------------------------------------
(* Folds over sequences.                                                   *)

(* FoldLeft takes the elements from the last to the first.                 *)
LEMMA LastIsLargest ==
  ASSUME NEW N \in Nat
  PROVE  /\ IsFiniteSet(1..N)
         /\ Picks([s \in SUBSET (1..N) |-> Max(s)], 1..N)
         /\ \A n \in 1..N : Max(1..n) = n /\ (1..n) \ {n} = 1..(n - 1)
         /\ \A n \in 1..N : 1..n \in SUBSET (1..N) /\ 1..n # {}
<1>1. IsFiniteSet(1..N)
  BY FS_Interval
<1>2. ASSUME NEW s \in SUBSET (1..N), s # {} PROVE Max(s) \in s
  <2>1. IsFiniteSet(s) /\ s \subseteq Nat
    <3>1. s \subseteq Nat
      OBVIOUS
    <3>2. IsFiniteSet(s)
      BY <1>1, FS_Subset
    <3> QED
      BY <3>1, <3>2
  <2>2. \E b \in s : \A c \in s : c <= b
    BY <1>2, <2>1, FiniteHasLargest
  <2>3. \E b \in s : \A c \in s : b >= c
    BY <2>1, <2>2
  <2> QED
    BY <2>3 DEF Max
<1>3. ASSUME NEW n \in 1..N PROVE Max(1..n) = n
  <2>1. n \in 1..n /\ \A m \in 1..n : n >= m
    OBVIOUS
  <2>2. Max(1..n) \in 1..n /\ \A m \in 1..n : Max(1..n) >= m
    BY <2>1 DEF Max
  <2> QED
    BY <2>1, <2>2
<1>4. ASSUME NEW n \in 1..N
      PROVE  (1..n) \ {n} = 1..(n - 1) /\ 1..n \in SUBSET (1..N) /\ 1..n # {}
  <2>1. (1..n) \ {n} = 1..(n - 1)
    OBVIOUS
  <2>2. n \in 1..n /\ \A m \in 1..n : m \in 1..N
    OBVIOUS
  <2> QED
    BY <2>1, <2>2
<1> QED
  BY <1>1, <1>2, <1>3, <1>4 DEF Picks

(* InsertedAll inserts one marker after another.                           *)
LEMMA InsertedStepwise ==
  ASSUME NEW batch \in Seq(Marker), NEW map, map = [id \in DOMAIN map |-> map[id]]
  PROVE  \E h : /\ InsertedAll(map, batch) = h[Len(batch)]
                /\ h[0] = map
                /\ \A n \in 1..Len(batch) : h[n] = Inserted(h[n - 1], batch[n])
<1> DEFINE N == Len(batch)
           I == DOMAIN map \cup {batch[n].id : n \in 1..N}
           V == {map[id] : id \in DOMAIN map} \cup {batch[n] : n \in 1..N}
           X == UNION {[D -> V] : D \in SUBSET I}
           F == [p \in (1..N) \X X |-> Inserted(p[2], batch[p[1]])]
           pick == [s \in SUBSET (1..N) |-> Max(s)]
           IsIter(g) == g = [s \in SUBSET (1..N) |->
                               IF s = {} THEN map
                               ELSE Inserted(g[s \ {Max(s)}], batch[Max(s)])]
           iter == CHOOSE g : IsIter(g)
           h == [n \in 0..N |-> iter[1..n]]
<1>1. N \in Nat /\ DOMAIN batch = 1..N
  OBVIOUS
<1>2. InsertedAll(map, batch) = iter[1..N]
  BY <1>1 DEF InsertedAll, FoldLeft, MapThenFoldSet
<1>3. map \in X
  <2>1. map \in [DOMAIN map -> V]
    OBVIOUS
  <2> QED
    BY <2>1
<1>4. F \in [(1..N) \X X -> X]
  <2>1. ASSUME NEW n \in 1..N, NEW x \in X PROVE Inserted(x, batch[n]) \in X
    <3>1. PICK D \in SUBSET I : x \in [D -> V]
      OBVIOUS
    <3>2. batch[n] \in V /\ batch[n].id \in I
      OBVIOUS
    <3> HIDE DEF V, I
    <3>3. Inserted(x, batch[n]) \in [D \cup {batch[n].id} -> V]
      BY <3>1, <3>2 DEF Inserted
    <3>4. D \cup {batch[n].id} \in SUBSET I
      BY <3>2
    <3> QED
      BY <3>3, <3>4
  <2> HIDE DEF X
  <2> QED
    BY <2>1
<1> HIDE DEF X, F, N
<1>5. PICK g \in [SUBSET (1..N) -> X] : IsFold(g, SUBSET (1..N), map, F, pick)
  <2> HIDE DEF pick
  <2>1. IsFiniteSet(1..N) /\ Picks(pick, 1..N)
    BY <1>1, LastIsLargest DEF pick
  <2> QED
    BY <1>3, <1>4, <2>1, FoldExists
<1>6. IsIter(g)
  <2>1. ASSUME NEW s \in SUBSET (1..N), s # {}
        PROVE  g[s] = Inserted(g[s \ {Max(s)}], batch[Max(s)])
    <3>1. g[s] = F[<<pick[s], g[s \ {pick[s]}]>>]
      BY <1>5, <2>1 DEF IsFold
    <3>2. pick[s] = Max(s) /\ Max(s) \in 1..N
      BY <1>1, <2>1, LastIsLargest DEF Picks
    <3> QED
      BY <3>1, <3>2 DEF F
  <2>2. g[{}] = map
    BY <1>5 DEF IsFold
  <2> QED
    BY <2>1, <2>2
<1>7. IsIter(iter)
  <2> HIDE DEF IsIter
  <2> QED
    BY <1>6
<1> HIDE DEF iter
<1>8. h[0] = map /\ InsertedAll(map, batch) = h[N]
  <2>1. 1..0 = {}
    OBVIOUS
  <2> QED
    BY <1>1, <1>2, <1>7, <2>1
<1>9. ASSUME NEW n \in 1..N PROVE h[n] = Inserted(h[n - 1], batch[n])
  <2>1. 1..n \in SUBSET (1..N) /\ 1..n # {}
    BY ONLY <1>1, <1>9, LastIsLargest
  <2>2. iter[1..n] = Inserted(iter[(1..n) \ {Max(1..n)}], batch[Max(1..n)])
    BY <1>7, <2>1
  <2>3. iter[1..n] = Inserted(iter[1..(n - 1)], batch[n])
    BY <1>1, <2>2, LastIsLargest
  <2>4. n - 1 \in 0..N /\ n \in 0..N
    BY <1>1
  <2> QED
    BY <2>3, <2>4
<1> QED
  BY <1>8, <1>9 DEF N

---------------------------------------------------------------------------
(* Batches.                                                                *)

(* m is what the first n markers of a batch make of a map: the last one    *)
(* with an id counts.                                                      *)
MergedUpto(m, map, batch, n) ==
  /\ m = [id \in DOMAIN map \cup {batch[i].id : i \in 1..n} |-> m[id]]
  /\ \A id \in DOMAIN map : (\A i \in 1..n : batch[i].id # id) => m[id] = map[id]
  /\ \A i \in 1..n :
       (\A j \in 1..n : batch[j].id = batch[i].id => j <= i) => m[batch[i].id] = batch[i]

LEMMA InsertedMerges ==
  ASSUME NEW batch \in Seq(Marker), NEW map, NEW n \in 1..Len(batch), NEW m,
         MergedUpto(m, map, batch, n - 1)
  PROVE  MergedUpto(Inserted(m, batch[n]), map, batch, n)
<1> DEFINE D(k) == DOMAIN map \cup {batch[i].id : i \in 1..k}
           new == Inserted(m, batch[n])
<1>1. n \in Nat /\ n >= 1 /\ \A i \in 1..n : i = n \/ i \in 1..(n - 1)
  OBVIOUS
<1>2. \A i \in 1..(n - 1) : i \in 1..n /\ i < n
  OBVIOUS
<1>3. DOMAIN m = D(n - 1)
  BY DEF MergedUpto
<1>4. D(n - 1) \cup {batch[n].id} = D(n)
  BY <1>1, <1>2
<1> HIDE DEF D
<1>5. new = [id \in D(n) |-> IF id = batch[n].id THEN batch[n] ELSE m[id]]
  BY <1>3, <1>4 DEF Inserted
<1> HIDE DEF new
<1>6. new = [id \in D(n) |-> new[id]]
  BY <1>5
<1>7. ASSUME NEW id \in DOMAIN map, \A i \in 1..n : batch[i].id # id
      PROVE  new[id] = map[id]
  <2>1. id \in D(n) /\ id # batch[n].id /\ \A i \in 1..(n - 1) : batch[i].id # id
    BY <1>1, <1>2, <1>7 DEF D
  <2>2. m[id] = map[id]
    BY <2>1 DEF MergedUpto
  <2> QED
    BY <1>5, <2>1, <2>2
<1>8. ASSUME NEW i \in 1..n, \A j \in 1..n : batch[j].id = batch[i].id => j <= i
      PROVE  new[batch[i].id] = batch[i]
  <2>1. batch[i].id \in D(n)
    BY DEF D
  <2>2. CASE i = n
    BY <1>5, <2>1, <2>2
  <2>3. CASE i # n
    <3>1. i \in 1..(n - 1) /\ n \in 1..n /\ ~(n <= i)
      BY <1>1, <2>3
    <3>2. batch[n].id # batch[i].id
      BY <1>8, <3>1
    <3>3. \A j \in 1..(n - 1) : batch[j].id = batch[i].id => j <= i
      BY <1>2, <1>8
    <3>4. m[batch[i].id] = batch[i]
      BY <3>1, <3>3 DEF MergedUpto
    <3> QED
      BY <1>5, <2>1, <3>2, <3>4
  <2> QED
    BY <2>2, <2>3
<1> QED
  BY <1>6, <1>7, <1>8 DEF MergedUpto, D, new

(* What replace and upsert make of a map is what AtomicMarkers says.       *)
LEMMA InsertedAllMerges ==
  ASSUME NEW batch \in Seq(Marker), NEW map, map = [id \in DOMAIN map |-> map[id]]
  PROVE  InsertedAll(map, batch) = Service!Merged(map, batch)
<1> DEFINE N == Len(batch)
           B == Service!BatchIds(batch)
           all == InsertedAll(map, batch)
<1>1. N \in Nat /\ DOMAIN batch = 1..N
  OBVIOUS
<1>2. PICK h : /\ all = h[N] /\ h[0] = map
               /\ \A n \in 1..N : h[n] = Inserted(h[n - 1], batch[n])
  BY InsertedStepwise
<1> HIDE DEF all
<1> DEFINE G == {n \in Nat : n \in 0..N => MergedUpto(h[n], map, batch, n)}
<1>3. 0 \in G
  <2>1. 1..0 = {}
    OBVIOUS
  <2> QED
    BY <1>2, <2>1 DEF MergedUpto
<1>4. ASSUME NEW n \in Nat, n \in G PROVE n + 1 \in G
  <2> SUFFICES ASSUME n + 1 \in 0..N
               PROVE  MergedUpto(h[n + 1], map, batch, n + 1)
    OBVIOUS
  <2>1. n + 1 \in 1..N /\ (n + 1) - 1 = n /\ n \in 0..N
    BY <1>1
  <2>2. MergedUpto(h[(n + 1) - 1], map, batch, (n + 1) - 1)
    BY <1>4, <2>1
  <2>3. MergedUpto(Inserted(h[(n + 1) - 1], batch[n + 1]), map, batch, n + 1)
    BY <2>1, <2>2, InsertedMerges
  <2> QED
    BY <1>2, <2>1, <2>3
<1>5. MergedUpto(all, map, batch, N)
  <2>1. N \in G
    <3> HIDE DEF G
    <3> QED
      BY <1>1, <1>3, <1>4, NaturalsBelong
  <2> QED
    BY <1>1, <1>2, <2>1
<1>6. B = {batch[i].id : i \in 1..N}
  BY <1>1 DEF Service!BatchIds
<1>7. all = [id \in DOMAIN map \cup B |-> all[id]]
  BY <1>5, <1>6 DEF MergedUpto
<1>8. ASSUME NEW id \in B PROVE all[id] = Service!LastWith(batch, id)
  <2> DEFINE P == {i \in 1..N : batch[i].id = id}
             k == CHOOSE i \in DOMAIN batch :
                    batch[i].id = id /\ \A j \in DOMAIN batch : batch[j].id = id => j <= i
  <2>1. IsFiniteSet(P) /\ P # {} /\ P \subseteq Nat
    <3>0. IsFiniteSet(1..N)
      <4> HIDE DEF N
      <4> QED
        BY ONLY <1>1, LastIsLargest
    <3>1. P \in SUBSET (1..N)
      OBVIOUS
    <3>2. P # {} /\ P \subseteq Nat
      BY <1>6
    <3> HIDE DEF P
    <3> QED
      BY <3>0, <3>1, <3>2, FS_Subset
  <2>2. \E b \in P : \A c \in P : c <= b
    <3> HIDE DEF P
    <3> QED
      BY <2>1, FiniteHasLargest
  <2>3. PICK b \in 1..N : batch[b].id = id /\ \A c \in 1..N : batch[c].id = id => c <= b
    BY <2>2
  <2>4. /\ k \in 1..N /\ batch[k].id = id
        /\ \A j \in 1..N : batch[j].id = id => j <= k
    BY <1>1, <2>3
  <2>5. Service!LastWith(batch, id) = batch[k]
    BY DEF Service!LastWith
  <2> HIDE DEF k
  <2> QED
    BY <1>5, <2>4, <2>5 DEF MergedUpto
<1>9. ASSUME NEW id \in DOMAIN map, id \notin B PROVE all[id] = map[id]
  BY <1>5, <1>6, <1>9 DEF MergedUpto
<1> HIDE DEF B
<1> QED
  <2>1. \A id \in DOMAIN map \cup B :
          all[id] = IF id \in B THEN Service!LastWith(batch, id) ELSE map[id]
    BY <1>8, <1>9
  <2> QED
    BY <1>7, <2>1 DEF Service!Merged, B, all

---------------------------------------------------------------------------
(* The cells of the grid.                                                  *)

(* CellsOf pushes one marker after another.                                *)
LEMMA CellsStepwise ==
  ASSUME NEW ms \in Seq(Marker), NEW zoom
  PROVE  \E h : /\ CellsOf(ms, zoom) = h[Len(ms)]
                /\ h[0] = [k \in {} |-> <<>>]
                /\ \A n \in 1..Len(ms) :
                     h[n] = Pushed(h[n - 1], Cell(ms[n], zoom), ms[n])
<1> DEFINE N == Len(ms)
           C == {Cell(ms[n], zoom) : n \in 1..N}
           X == UNION {[D -> Seq(Marker)] : D \in SUBSET C}
           none == [k \in {} |-> <<>>]
           F == [p \in (1..N) \X X |-> Pushed(p[2], Cell(ms[p[1]], zoom), ms[p[1]])]
           pick == [s \in SUBSET (1..N) |-> Max(s)]
           IsIter(g) == g = [s \in SUBSET (1..N) |->
                               IF s = {} THEN none
                               ELSE Pushed(g[s \ {Max(s)}], Cell(ms[Max(s)], zoom),
                                           ms[Max(s)])]
           iter == CHOOSE g : IsIter(g)
           h == [n \in 0..N |-> iter[1..n]]
<1>1. N \in Nat /\ DOMAIN ms = 1..N
  OBVIOUS
<1>2. CellsOf(ms, zoom) = iter[1..N]
  BY <1>1 DEF CellsOf, FoldLeft, MapThenFoldSet
<1>3. none \in X
  <2>1. none \in [{} -> Seq(Marker)]
    OBVIOUS
  <2> QED
    BY <2>1
<1>4. F \in [(1..N) \X X -> X]
  <2>1. ASSUME NEW n \in 1..N, NEW x \in X
        PROVE  Pushed(x, Cell(ms[n], zoom), ms[n]) \in X
    <3> DEFINE cell == Cell(ms[n], zoom)
    <3>1. PICK D \in SUBSET C : x \in [D -> Seq(Marker)]
      OBVIOUS
    <3>2. cell \in C /\ ms[n] \in Marker
      BY <1>1
    <3> HIDE DEF C, cell
    <3>3. <<ms[n]>> \in Seq(Marker) /\ \A k \in D : Append(x[k], ms[n]) \in Seq(Marker)
      BY <3>1, <3>2
    <3>4. Pushed(x, cell, ms[n]) \in [D \cup {cell} -> Seq(Marker)]
      BY <3>1, <3>3 DEF Pushed
    <3>5. D \cup {cell} \in SUBSET C
      BY <3>2
    <3>6. Pushed(x, cell, ms[n]) \in X
      BY <3>4, <3>5
    <3> QED
      BY <3>6 DEF cell
  <2> HIDE DEF X
  <2> QED
    BY <2>1
<1> HIDE DEF X, F, N, none, C
<1>5. PICK g \in [SUBSET (1..N) -> X] : IsFold(g, SUBSET (1..N), none, F, pick)
  <2> HIDE DEF pick
  <2>1. IsFiniteSet(1..N) /\ Picks(pick, 1..N)
    BY <1>1, LastIsLargest DEF pick
  <2> QED
    BY <1>3, <1>4, <2>1, FoldExists
<1>6. IsIter(g)
  <2>1. ASSUME NEW s \in SUBSET (1..N), s # {}
        PROVE  g[s] = Pushed(g[s \ {Max(s)}], Cell(ms[Max(s)], zoom), ms[Max(s)])
    <3>1. g[s] = F[<<pick[s], g[s \ {pick[s]}]>>]
      BY <1>5, <2>1 DEF IsFold
    <3>2. pick[s] = Max(s) /\ Max(s) \in 1..N
      BY <1>1, <2>1, LastIsLargest DEF Picks
    <3> QED
      BY <3>1, <3>2 DEF F
  <2>2. g[{}] = none
    BY <1>5 DEF IsFold
  <2> QED
    BY <2>1, <2>2
<1>7. IsIter(iter)
  <2> HIDE DEF IsIter
  <2> QED
    BY <1>6
<1> HIDE DEF iter, pick
<1>8. h[0] = none /\ CellsOf(ms, zoom) = h[N]
  <2>1. 1..0 = {}
    OBVIOUS
  <2>2. 0 \in 0..N /\ N \in 0..N /\ {} \in SUBSET (1..N)
    BY <1>1
  <2>3. iter[{}] = none
    BY <1>7, <2>2
  <2> QED
    BY <1>2, <2>1, <2>2, <2>3
<1>9. ASSUME NEW n \in 1..N PROVE h[n] = Pushed(h[n - 1], Cell(ms[n], zoom), ms[n])
  <2>1. 1..n \in SUBSET (1..N) /\ 1..n # {}
    BY ONLY <1>1, <1>9, LastIsLargest
  <2>2. iter[1..n] = Pushed(iter[(1..n) \ {Max(1..n)}], Cell(ms[Max(1..n)], zoom),
                            ms[Max(1..n)])
    BY <1>7, <2>1
  <2>3. iter[1..n] = Pushed(iter[1..(n - 1)], Cell(ms[n], zoom), ms[n])
    BY <1>1, <2>2, LastIsLargest
  <2>4. n - 1 \in 0..N /\ n \in 0..N
    BY <1>1
  <2> QED
    BY <2>3, <2>4
<1> QED
  BY <1>8, <1>9 DEF N, none

(* cells is what the first n markers make.                                 *)
CellsUpto(cells, ms, zoom, n) ==
  /\ DOMAIN cells = {Cell(ms[i], zoom) : i \in 1..n}
  /\ \A k \in DOMAIN cells :
       /\ cells[k] \in Seq(Marker)
       /\ \A m : (\E j \in DOMAIN cells[k] : cells[k][j] = m)
                   <=> \E i \in 1..n : Cell(ms[i], zoom) = k /\ ms[i] = m

LEMMA PushedHolds ==
  ASSUME NEW ms \in Seq(Marker), NEW zoom, NEW n \in 1..Len(ms), NEW cells,
         CellsUpto(cells, ms, zoom, n - 1)
  PROVE  CellsUpto(Pushed(cells, Cell(ms[n], zoom), ms[n]), ms, zoom, n)
<1> DEFINE D(p) == {Cell(ms[i], zoom) : i \in 1..p}
           cell == Cell(ms[n], zoom)
           new == Pushed(cells, cell, ms[n])
<1>1. n \in 1..n /\ \A i : i \in 1..n <=> i = n \/ i \in 1..(n - 1)
  OBVIOUS
<1>2. D(n - 1) \cup {cell} = D(n)
  BY <1>1
<1>3. DOMAIN cells = D(n - 1) /\ ms[n] \in Marker
  BY DEF CellsUpto
<1>4. ASSUME NEW k \in D(n - 1)
      PROVE  /\ cells[k] \in Seq(Marker)
             /\ \A m : (\E j \in DOMAIN cells[k] : cells[k][j] = m)
                         <=> \E i \in 1..(n - 1) : Cell(ms[i], zoom) = k /\ ms[i] = m
  <2> HIDE DEF D
  <2> QED
    BY <1>3 DEF CellsUpto
<1> HIDE DEF D
<1>5. new = [k \in D(n) |-> IF k # cell THEN cells[k]
                            ELSE IF k \in D(n - 1) THEN Append(cells[k], ms[n])
                            ELSE <<ms[n]>>]
  BY <1>2, <1>3 DEF Pushed
<1> HIDE DEF new
<1>6. ASSUME NEW k \in D(n)
      PROVE  /\ new[k] \in Seq(Marker)
             /\ \A m : (\E j \in DOMAIN new[k] : new[k][j] = m)
                         <=> \E i \in 1..n : Cell(ms[i], zoom) = k /\ ms[i] = m
  <2>1. CASE k # cell
    <3>1. new[k] = cells[k] /\ k \in DOMAIN cells
      BY <1>2, <1>3, <1>5, <2>1
    <3>2. \A i : i \in 1..n /\ Cell(ms[i], zoom) = k
                   <=> i \in 1..(n - 1) /\ Cell(ms[i], zoom) = k
      BY <1>1, <2>1
    <3>3. k \in D(n - 1)
      BY <1>3, <3>1
    <3>4. /\ cells[k] \in Seq(Marker)
          /\ \A m : (\E j \in DOMAIN cells[k] : cells[k][j] = m)
                      <=> \E i \in 1..(n - 1) : Cell(ms[i], zoom) = k /\ ms[i] = m
      BY <1>4, <3>3
    <3> HIDE DEF cell
    <3> QED
      BY <3>1, <3>2, <3>4
  <2>2. CASE k = cell /\ k \in D(n - 1)
    <3> DEFINE old == cells[k]
    <3>1. new[k] = Append(old, ms[n]) /\ old \in Seq(Marker)
      BY <1>4, <1>5, <2>2
    <3>2. \A m : (\E j \in DOMAIN old : old[j] = m)
                   <=> \E i \in 1..(n - 1) : Cell(ms[i], zoom) = k /\ ms[i] = m
      BY <1>4, <2>2
    <3> HIDE DEF old
    <3>3. /\ new[k] \in Seq(Marker) /\ DOMAIN new[k] = 1..(Len(old) + 1)
          /\ DOMAIN old = 1..Len(old) /\ Len(old) \in Nat
          /\ \A j \in 1..Len(old) : new[k][j] = old[j]
          /\ new[k][Len(old) + 1] = ms[n]
      BY <1>3, <3>1
    <3>4. \A m : (\E j \in DOMAIN new[k] : new[k][j] = m)
                   <=> (\E j \in DOMAIN old : old[j] = m) \/ ms[n] = m
      BY <3>3
    <3>5. Cell(ms[n], zoom) = k
      BY <2>2
    <3> QED
      BY <1>1, <3>2, <3>3, <3>4, <3>5
  <2>3. CASE k = cell /\ k \notin D(n - 1)
    <3>1. new[k] = <<ms[n]>>
      BY <1>5, <2>3
    <3>2. \A i \in 1..(n - 1) : Cell(ms[i], zoom) # k
      BY <2>3 DEF D
    <3>3. Cell(ms[n], zoom) = k
      BY <2>3
    <3>4. new[k] \in Seq(Marker) /\ DOMAIN new[k] = {1} /\ new[k][1] = ms[n]
      BY <1>3, <3>1
    <3> QED
      BY <1>1, <3>2, <3>3, <3>4
  <2> QED
    BY <2>1, <2>2, <2>3
<1>7. DOMAIN new = D(n)
  BY <1>5
<1> QED
  BY <1>6, <1>7 DEF CellsUpto, D, new, cell

(* Each cell holds the markers that fall into it.                          *)
LEMMA CellsHold ==
  ASSUME NEW ms \in Seq(Marker), NEW zoom
  PROVE  CellsUpto(CellsOf(ms, zoom), ms, zoom, Len(ms))
<1> DEFINE N == Len(ms)
<1>1. N \in Nat
  OBVIOUS
<1>2. PICK h : /\ CellsOf(ms, zoom) = h[N] /\ h[0] = [k \in {} |-> <<>>]
               /\ \A n \in 1..N : h[n] = Pushed(h[n - 1], Cell(ms[n], zoom), ms[n])
  BY CellsStepwise
<1> DEFINE G == {n \in Nat : n \in 0..N => CellsUpto(h[n], ms, zoom, n)}
<1>3. 0 \in G
  <2>1. 1..0 = {}
    OBVIOUS
  <2> QED
    BY <1>2, <2>1 DEF CellsUpto
<1>4. ASSUME NEW n \in Nat, n \in G PROVE n + 1 \in G
  <2> SUFFICES ASSUME n + 1 \in 0..N
               PROVE  CellsUpto(h[n + 1], ms, zoom, n + 1)
    OBVIOUS
  <2>1. n + 1 \in 1..N /\ (n + 1) - 1 = n /\ n \in 0..N
    BY <1>1
  <2>2. CellsUpto(h[(n + 1) - 1], ms, zoom, (n + 1) - 1)
    BY <1>4, <2>1
  <2>3. CellsUpto(Pushed(h[(n + 1) - 1], Cell(ms[n + 1], zoom), ms[n + 1]),
                  ms, zoom, n + 1)
    BY <2>1, <2>2, PushedHolds
  <2> QED
    BY <1>2, <2>1, <2>3
<1>5. N \in G
  <2> HIDE DEF G
  <2> QED
    BY <1>1, <1>3, <1>4, NaturalsBelong
<1> QED
  BY <1>1, <1>2, <1>5

---------------------------------------------------------------------------
(* The queries.                                                            *)

(* AtomicMarkers has copies of osm-core's places.                          *)
LEMMA PlacesAgree ==
  /\ \A z : Service!ValidZoom(z) <=> ValidZoom(z)
  /\ \A p : Service!ValidPoint(p) <=> ValidPoint(p)
  /\ \A b : Service!ValidBounds(b) <=> ValidBounds(b)
  /\ \A b, p : Service!BoundsContain(b, p) <=> BoundsContain(b, p)
  /\ \A m, zoom : Service!CellOf(m, zoom) = Cell(m, zoom)
<1>1. /\ \A x : Service!ValidLatitude(x) <=> ValidLatitude(x)
      /\ \A x : Service!ValidLongitude(x) <=> ValidLongitude(x)
  BY DEF Service!ValidLatitude, ValidLatitude, Service!ValidLongitude, ValidLongitude,
         Service!MaxLatitude, MaxLatitude, Service!HalfWorld, HalfWorld
<1>2. \A z : Service!ValidZoom(z) <=> ValidZoom(z)
  BY DEF Service!ValidZoom, ValidZoom
<1>3. \A p : Service!ValidPoint(p) <=> ValidPoint(p)
  BY <1>1 DEF Service!ValidPoint, ValidPoint
<1>4. \A b : Service!ValidBounds(b) <=> ValidBounds(b)
  BY <1>1 DEF Service!ValidBounds, ValidBounds
<1>5. \A b, p : Service!BoundsContain(b, p) <=> BoundsContain(b, p)
  BY DEF Service!BoundsContain, BoundsContain,
         Service!CrossesAntimeridian, CrossesAntimeridian
<1>6. \A m, zoom : Service!CellOf(m, zoom) = Cell(m, zoom)
  BY DEF Service!CellOf, Cell, Service!WorldX, WorldX, Service!WorldY, WorldY,
         Service!Clamped, Clamped, Service!MaxLatitude, MaxLatitude,
         Service!HalfWorld, HalfWorld, Service!Pow2, Pow2
<1> QED
  BY <1>2, <1>3, <1>4, <1>5, <1>6

(* The map of a MapState.                                                  *)
StoreOK(map) ==
  /\ map = [id \in DOMAIN map |-> map[id]]
  /\ IsFiniteSet(DOMAIN map)
  /\ \A id \in DOMAIN map : map[id] \in Marker /\ map[id].id = id /\ MarkerConverts(map[id])

Having(ids) == {markers[id] : id \in ids}

LEMMA IdsAreNumbers ==
  ASSUME StoreOK(markers)
  PROVE  DOMAIN markers \subseteq Nat
<1> SUFFICES ASSUME NEW id \in DOMAIN markers PROVE id \in Nat
  OBVIOUS
<1>1. markers[id] \in Marker /\ markers[id].id = id /\ markers[id].id >= 0
  BY DEF StoreOK, MarkerConverts
<1>2. id \in Int
  BY <1>1 DEF Marker
<1> QED
  BY <1>1, <1>2

(* Markers sorted by id are those of their ids in order.                   *)
LEMMA ByIdOrdered ==
  ASSUME StoreOK(markers), NEW ids \in SUBSET DOMAIN markers
  PROVE  /\ IsFiniteSet(ids) /\ Cardinality(ids) \in Nat
         /\ DOMAIN ById(Having(ids)) = 1..Cardinality(ids)
         /\ \A i \in 1..Cardinality(ids) :
              /\ Service!InOrder(ids)[i] \in ids
              /\ ById(Having(ids))[i] = markers[Service!InOrder(ids)[i]]
         /\ {ById(Having(ids))[i] : i \in 1..Cardinality(ids)} = Having(ids)
<1> DEFINE key == [m \in Having(ids) |-> m.id]
<1>1. IsFiniteSet(ids) /\ ids \subseteq Int
  BY IdsAreNumbers, FS_Subset DEF StoreOK
<1>2. Cardinality(ids) \in Nat
  BY <1>1, FS_CardinalityType
<1>3. \A id \in ids : markers[id].id = id
  BY DEF StoreOK
<1>4. IsFiniteSet(Having(ids)) /\ Cardinality(Having(ids)) = Cardinality(ids)
  <2>1. \A x, y \in ids : markers[x] = markers[y] => x = y
    BY <1>3
  <2> QED
    BY <1>1, <2>1, KeysCounted DEF Having
<1>5. IsKey(key, Having(ids))
  <2>1. \A m \in Having(ids) : m.id \in ids /\ m = markers[m.id]
    BY <1>3 DEF Having
  <2> QED
    BY <1>1, <2>1 DEF IsKey
<1>6. {key[m] : m \in Having(ids)} = ids
  <2>1. \A m \in Having(ids) : m.id \in ids
    BY <1>3 DEF Having
  <2>2. \A id \in ids : \E m \in Having(ids) : m.id = id
    BY <1>3 DEF Having
  <2> QED
    BY <2>1, <2>2
<1>7. ById(Having(ids)) = SortedBy(Having(ids), key)
  BY DEF ById
<1>8. DOMAIN ById(Having(ids)) = 1..Cardinality(ids)
  BY <1>4, <1>7 DEF SortedBy
<1>9. ASSUME NEW i \in 1..Cardinality(ids)
      PROVE  /\ Service!InOrder(ids)[i] \in ids
             /\ ById(Having(ids))[i] = markers[Service!InOrder(ids)[i]]
  <2> DEFINE m == SortedBy(Having(ids), key)[i]
  <2>1. m \in Having(ids) /\ key[m] = Service!InOrder(ids)[i]
    <3> HIDE DEF key
    <3> QED
      BY <1>4, <1>5, <1>6, SortedByKeys
  <2> HIDE DEF m
  <2>2. m.id = Service!InOrder(ids)[i]
    BY <2>1
  <2>3. m.id \in ids /\ m = markers[m.id]
    BY <1>3, <2>1 DEF Having
  <2> QED
    BY <1>7, <2>2, <2>3 DEF m
<1>10. {ById(Having(ids))[i] : i \in 1..Cardinality(ids)} = Having(ids)
  <2> HIDE DEF key
  <2> QED
    BY <1>4, <1>5, <1>7, SortedByCovers
<1> QED
  BY <1>1, <1>2, <1>8, <1>9, <1>10

LEMMA MarkersAnswered ==
  ASSUME StoreOK(markers), NEW ids \in SUBSET DOMAIN markers
  PROVE  /\ ById(Having(ids)) = [i \in 1..Cardinality(ids) |->
                                   markers[Service!InOrder(ids)[i]]]
         /\ ById(Having(ids)) \in Seq(Marker) /\ Len(ById(Having(ids))) = Cardinality(ids)
<1> DEFINE ms == ById(Having(ids))
           n == Cardinality(ids)
<1>1. /\ n \in Nat /\ DOMAIN ms = 1..n
      /\ \A i \in 1..n : Service!InOrder(ids)[i] \in ids
                         /\ ms[i] = markers[Service!InOrder(ids)[i]]
  BY ByIdOrdered
<1>2. ms = [i \in 1..n |-> ms[i]]
  BY <1>1 DEF ById, SortedBy
<1>3. \A i \in 1..n : ms[i] \in Marker
  BY <1>1 DEF StoreOK
<1> HIDE DEF ms, n
<1>4. ms = [i \in 1..n |-> markers[Service!InOrder(ids)[i]]]
  BY <1>1, <1>2
<1>5. ms \in Seq(Marker) /\ Len(ms) = n
  BY <1>1, <1>2, <1>3
<1> QED
  BY <1>4, <1>5 DEF ms, n

(* The cells of some markers, and which of them each cell holds.           *)
LEMMA CellsOfIds ==
  ASSUME StoreOK(markers), NEW ids \in SUBSET DOMAIN markers, NEW zoom
  PROVE  LET cells == CellsOf(ById(Having(ids)), zoom)
             members(k) == {o \in ids : Cell(markers[o], zoom) = k}
         IN /\ DOMAIN cells = {Cell(markers[o], zoom) : o \in ids}
            /\ \A k \in DOMAIN cells :
                 {cells[k][j] : j \in DOMAIN cells[k]} = {markers[o] : o \in members(k)}
<1> DEFINE ms == ById(Having(ids))
           n == Len(ms)
           cells == CellsOf(ms, zoom)
           members(k) == {o \in ids : Cell(markers[o], zoom) = k}
<1>1. ms \in Seq(Marker) /\ n = Cardinality(ids)
  BY MarkersAnswered
<1>2. {ms[i] : i \in 1..n} = {markers[o] : o \in ids}
  BY <1>1, ByIdOrdered DEF Having
<1> HIDE DEF ms
<1>3. CellsUpto(cells, ms, zoom, n)
  BY <1>1, CellsHold
<1> HIDE DEF cells, n
<1>4. DOMAIN cells = {Cell(markers[o], zoom) : o \in ids}
  <2>1. DOMAIN cells = {Cell(ms[i], zoom) : i \in 1..n}
    BY <1>3 DEF CellsUpto
  <2>2. \A i \in 1..n : \E o \in ids : ms[i] = markers[o]
    BY <1>2
  <2>3. \A o \in ids : \E i \in 1..n : ms[i] = markers[o]
    BY <1>2
  <2> QED
    BY <2>1, <2>2, <2>3
<1>5. ASSUME NEW k \in DOMAIN cells
      PROVE  {cells[k][j] : j \in DOMAIN cells[k]} = {markers[o] : o \in members(k)}
  <2>1. \A m : (\E j \in DOMAIN cells[k] : cells[k][j] = m)
                 <=> \E i \in 1..n : Cell(ms[i], zoom) = k /\ ms[i] = m
    BY <1>3 DEF CellsUpto
  <2>2. \A m : (\E i \in 1..n : Cell(ms[i], zoom) = k /\ ms[i] = m)
                 <=> \E o \in ids : Cell(markers[o], zoom) = k /\ markers[o] = m
    BY <1>2
  <2> QED
    BY <2>1, <2>2
<1> QED
  BY <1>4, <1>5 DEF cells, ms

(* What cluster_markers makes of markers is what AtomicMarkers says of     *)
(* their ids.                                                              *)
LEMMA ClustersAgree ==
  ASSUME StoreOK(markers), StoreSeen = markers, NEW ids \in SUBSET DOMAIN markers, NEW zoom
  PROVE  ClusterMarkers(ById(Having(ids)), zoom) = Service!Items(ids, zoom)
<1> DEFINE cells == CellsOf(ById(Having(ids)), zoom)
           cell(id) == Cell(markers[id], zoom)
           members(k) == {o \in ids : cell(o) = k}
           smallest == [k \in DOMAIN cells |->
                          Min({cells[k][i].id : i \in DOMAIN cells[k]})]
           order == SortedBy(DOMAIN cells, smallest)
           item(k) ==
             LET sorted == ById({cells[k][i] : i \in DOMAIN cells[k]}) IN
             IF Len(sorted) = 1 THEN [type |-> "marker", marker |-> sorted[1]]
             ELSE [type |-> "cluster", zoom |-> zoom, cell |-> k,
                   ids |-> [i \in DOMAIN sorted |-> sorted[i].id]]
           leaders == {id \in ids : \A o \in members(cell(id)) : id <= o}
           seen(id) ==
             IF members(cell(id)) = {id} THEN [type |-> "marker", marker |-> markers[id]]
             ELSE [type |-> "cluster", zoom |-> zoom, cell |-> cell(id),
                   ids |-> Service!InOrder(members(cell(id)))]
<1>1. ClusterMarkers(ById(Having(ids)), zoom) = [i \in DOMAIN order |-> item(order[i])]
  BY DEF ClusterMarkers
<1>2. Service!Items(ids, zoom)
        = [i \in 1..Cardinality(leaders) |-> seen(Service!InOrder(leaders)[i])]
  BY PlacesAgree, CountsAgree DEF Service!Items
<1>3. /\ DOMAIN cells = {cell(o) : o \in ids}
      /\ \A k \in DOMAIN cells :
           {cells[k][j] : j \in DOMAIN cells[k]} = {markers[o] : o \in members(k)}
  BY CellsOfIds
<1>4. IsFiniteSet(ids) /\ ids \subseteq Nat
  BY IdsAreNumbers, FS_Subset DEF StoreOK
<1> HIDE DEF cells, cell
<1>5. \A k \in DOMAIN cells : members(k) # {} /\ members(k) \in SUBSET ids
  BY <1>3
<1>6. ASSUME NEW k \in DOMAIN cells
      PROVE  smallest[k] \in members(k) /\ \A o \in members(k) : smallest[k] <= o
  <2>1. {cells[k][i].id : i \in DOMAIN cells[k]} = members(k)
    <3>1. \A o \in members(k) : markers[o].id = o
      BY DEF StoreOK
    <3>2. \A i \in DOMAIN cells[k] : \E o \in members(k) : cells[k][i] = markers[o]
      BY <1>3
    <3>3. \A o \in members(k) : \E i \in DOMAIN cells[k] : cells[k][i] = markers[o]
      BY <1>3
    <3> HIDE DEF members
    <3> QED
      BY <3>1, <3>2, <3>3
  <2>2. smallest[k] = Min(members(k))
    BY <2>1
  <2>3. members(k) # {} /\ members(k) \subseteq Nat
    BY <1>4, <1>5
  <2> HIDE DEF members, smallest
  <2>4. \E m \in members(k) : \A o \in members(k) : m <= o
    BY <2>3, HasSmallest
  <2> QED
    BY <2>2, <2>4 DEF Min
<1> HIDE DEF smallest
<1>7. \A k \in DOMAIN cells : smallest[k] \in ids /\ cell(smallest[k]) = k
  BY <1>6
<1>8. IsFiniteSet(DOMAIN cells) /\ IsKey(smallest, DOMAIN cells)
  <2> DEFINE f == [o \in ids |-> cell(o)]
  <2>1. f \in Surjection(ids, DOMAIN cells)
    BY <1>3 DEF Surjection
  <2> HIDE DEF f
  <2>2. IsFiniteSet(DOMAIN cells)
    BY <1>4, <2>1, FS_Surjection
  <2>3. IsKey(smallest, DOMAIN cells)
    BY <1>4, <1>7 DEF IsKey
  <2> QED
    BY <2>2, <2>3
<1>9. {smallest[k] : k \in DOMAIN cells} = leaders
  <2>1. ASSUME NEW k \in DOMAIN cells PROVE smallest[k] \in leaders
    BY <1>6, <1>7
  <2>2. ASSUME NEW id \in leaders PROVE \E k \in DOMAIN cells : smallest[k] = id
    <3> DEFINE k == cell(id)
    <3>1. id \in ids /\ k \in DOMAIN cells /\ id \in members(k)
      BY <1>3
    <3>2. smallest[k] \in members(k) /\ smallest[k] <= id
      BY <1>6, <3>1
    <3>3. id <= smallest[k]
      BY <3>2
    <3>4. smallest[k] = id
      BY <1>4, <1>7, <3>1, <3>2, <3>3
    <3> QED
      BY <3>1, <3>4
  <2> QED
    BY <2>1, <2>2
<1> HIDE DEF leaders
<1>10. /\ Cardinality(leaders) = Cardinality(DOMAIN cells)
       /\ DOMAIN order = 1..Cardinality(leaders)
  <2>1. Cardinality(leaders) = Cardinality(DOMAIN cells)
    BY <1>8, <1>9, KeysCounted DEF IsKey
  <2> QED
    BY <2>1 DEF SortedBy
<1>11. ASSUME NEW i \in 1..Cardinality(leaders)
       PROVE  /\ order[i] \in DOMAIN cells
              /\ smallest[order[i]] = Service!InOrder(leaders)[i]
  <2>1. \A j \in 1..Cardinality(DOMAIN cells) :
          /\ SortedBy(DOMAIN cells, smallest)[j] \in DOMAIN cells
          /\ smallest[SortedBy(DOMAIN cells, smallest)[j]]
               = Service!InOrder({smallest[k] : k \in DOMAIN cells})[j]
    BY ONLY <1>8, SortedByKeys
  <2> QED
    BY <1>9, <1>10, <2>1
<1> HIDE DEF order
<1>12. ASSUME NEW k \in DOMAIN cells PROVE item(k) = seen(smallest[k])
  <2> DEFINE l == smallest[k]
             M == members(k)
             sorted == ById(Having(M))
  <2>1. l \in ids /\ cell(l) = k /\ l \in M
    BY <1>6, <1>7
  <2>2. M \in SUBSET DOMAIN markers
    BY <1>5
  <2>3. {cells[k][j] : j \in DOMAIN cells[k]} = Having(M)
    BY <1>3 DEF Having
  <2> HIDE DEF l, members
  <2>4. /\ IsFiniteSet(M) /\ DOMAIN sorted = 1..Cardinality(M)
        /\ \A j \in 1..Cardinality(M) : /\ Service!InOrder(M)[j] \in M
                                        /\ sorted[j] = markers[Service!InOrder(M)[j]]
    BY <2>2, ByIdOrdered
  <2>5. Len(sorted) = Cardinality(M)
    BY <2>2, MarkersAnswered
  <2>6. [j \in DOMAIN sorted |-> sorted[j].id] = Service!InOrder(M)
    <3>1. Service!InOrder(M) = [j \in 1..Cardinality(M) |-> Service!InOrder(M)[j]]
      BY InOrderLists
    <3>2. \A j \in 1..Cardinality(M) : sorted[j].id = Service!InOrder(M)[j]
      BY <2>2, <2>4 DEF StoreOK
    <3> HIDE DEF sorted, M
    <3> QED
      BY <2>4, <3>1, <3>2
  <2>7. Cardinality(M) = 1 <=> M = {l}
    <3> HIDE DEF M
    <3>1. IsFiniteSet(M)
      BY <2>4
    <3>2. Cardinality(M) = 1 <=> \E x : M = {x}
      BY ONLY <3>1, FS_Singleton
    <3> QED
      BY <2>1, <3>2
  <2>8. Cardinality(M) = 1 => sorted[1] = markers[l]
    <3> HIDE DEF M, sorted
    <3> QED
      BY <2>4, <2>7
  <2>9. item(k) = IF Cardinality(M) = 1 THEN [type |-> "marker", marker |-> sorted[1]]
                  ELSE [type |-> "cluster", zoom |-> zoom, cell |-> k,
                        ids |-> [j \in DOMAIN sorted |-> sorted[j].id]]
    BY <2>3, <2>5
  <2> HIDE DEF M, sorted, item
  <2>10. item(k) = IF M = {l} THEN [type |-> "marker", marker |-> markers[l]]
                   ELSE [type |-> "cluster", zoom |-> zoom, cell |-> k,
                         ids |-> Service!InOrder(M)]
    BY <2>6, <2>7, <2>8, <2>9
  <2> QED
    BY <2>1, <2>10 DEF M, l
<1> HIDE DEF item, seen
<1>13. \A i \in 1..Cardinality(leaders) :
         item(order[i]) = seen(Service!InOrder(leaders)[i])
  BY <1>11, <1>12
<1> QED
  BY <1>1, <1>2, <1>10, <1>13

---------------------------------------------------------------------------
(* The invariant: the map is in order, and who works on it has the lock    *)
(* alone, with a request that has been checked.                            *)

Checked(r) == r \in Request /\ Converts(r)

CallOK(call) ==
  \/ call = Idle
  \/ call.op \in {"answer", "failure"}
  \/ call \in [op : {"convert"}, request : Request]
  \/ call \in [op : {"lock", "run"}, request : Request] /\ Checked(call.request)

Running(cs) == {c \in Callers : cs[c].op = "run"}

CallsOK ==
  /\ calls = [c \in Callers |-> calls[c]]
  /\ \A c \in Callers : CallOK(calls[c])
  /\ lock = Running(calls)
  /\ \A c, d \in lock : c = d

ViewportOK ==
  viewport # NoViewport => ValidBounds(viewport.bounds) /\ ValidZoom(viewport.zoom)

EngineInv == StoreOK(markers) /\ ViewportOK /\ CallsOK /\ callsMade \in 0..MaxCalls

(* Only a call that runs has the op "run", and so on.                      *)
LEMMA CallFields ==
  ASSUME CallsOK, NEW c \in Callers
  PROVE  /\ calls[c].op \in {"idle", "answer", "failure", "convert", "lock", "run"}
         /\ calls[c].op = "idle" => calls[c] = Idle
         /\ calls[c].op \in {"convert", "lock", "run"} =>
              /\ calls[c].request \in Request
              /\ calls[c] \in [op : {"convert", "lock", "run"}, request : Request]
         /\ calls[c].op \in {"lock", "run"} => Converts(calls[c].request)
  BY DEF CallsOK, CallOK, Checked, Idle

(* One call changes.                                                       *)
LEMMA CallChanges ==
  ASSUME CallsOK, NEW c \in Callers, NEW call, CallOK(call), Becomes(c, call),
         lock' = IF call.op = "run" THEN lock \cup {c} ELSE lock \ {c},
         call.op = "run" => lock \subseteq {c}
  PROVE  CallsOK'
<1>1. calls' = [calls EXCEPT ![c] = call] /\ calls = [d \in Callers |-> calls[d]]
  BY DEF Becomes, CallsOK
<1>2. /\ calls' = [d \in Callers |-> calls'[d]]
      /\ calls'[c] = call
      /\ \A d \in Callers : d # c => calls'[d] = calls[d]
  BY <1>1
<1>3. \A d \in Callers : CallOK(calls'[d])
  BY <1>2 DEF CallsOK
<1>4. lock' = Running(calls')
  BY <1>2 DEF CallsOK, Running
<1>5. \A d, e \in lock' : d = e
  BY DEF CallsOK
<1> QED
  BY <1>2, <1>3, <1>4, <1>5 DEF CallsOK

(* The caller that runs has the lock, and nobody else.                     *)
LEMMA RunnerHasLock ==
  ASSUME CallsOK, NEW c \in Callers, calls[c].op = "run"
  PROVE  lock = {c}
  BY DEF CallsOK, Running

LEMMA RequestFields ==
  ASSUME NEW r \in Request
  PROVE  /\ r.op \in {"setViewport", "replace", "upsert", "remove", "clear", "visible",
                      "clustered", "clusteredAll"}
         /\ r.op = "setViewport" => r.bounds \in Bounds /\ r.zoom \in Int
         /\ r.op \in {"replace", "upsert"} =>
              r \in [op : {"replace", "upsert"}, markers : Seq(Marker)]
         /\ r.op = "clusteredAll" => r.zoom \in Int
  BY DEF Request

(* Some of a batch is checked when all of it is.                           *)
LEMMA TailChecked ==
  ASSUME NEW r \in Request, Checked(r), r.op = "upsert", r.markers # <<>>
  PROVE  /\ [r EXCEPT !.markers = Tail(r.markers)] \in Request
         /\ Checked([r EXCEPT !.markers = Tail(r.markers)])
         /\ Head(r.markers) \in Marker /\ MarkerConverts(Head(r.markers))
<1> DEFINE batch == r.markers
           q == [r EXCEPT !.markers = Tail(batch)]
<1>1. r \in [op : {"replace", "upsert"}, markers : Seq(Marker)]
  BY RequestFields
<1>2. batch \in Seq(Marker) /\ batch # <<>> /\ Tail(batch) \in Seq(Marker)
  BY <1>1
<1>3. /\ q.op = "upsert" /\ q.markers = Tail(batch)
      /\ q \in [op : {"replace", "upsert"}, markers : Seq(Marker)]
  BY <1>1, <1>2
<1>4. q \in Request
  BY <1>3 DEF Request
<1>5. \A i \in DOMAIN batch : MarkerConverts(batch[i])
  BY DEF Checked, Converts
<1> HIDE DEF batch, q
<1>6. \A i \in DOMAIN Tail(batch) : i + 1 \in DOMAIN batch /\ Tail(batch)[i] = batch[i + 1]
  BY <1>2
<1>7. 1 \in DOMAIN batch /\ Head(batch) = batch[1] /\ Head(batch) \in Marker
  BY <1>2
<1>8. \A i \in DOMAIN q.markers : MarkerConverts(q.markers[i])
  BY <1>3, <1>5, <1>6
<1>9. Converts(q)
  BY <1>3, <1>8 DEF Converts
<1> QED
  BY <1>4, <1>5, <1>7, <1>9 DEF Checked, batch, q

(* An insertion keeps the map in order.                                    *)
LEMMA InsertedKeeps ==
  ASSUME NEW map, StoreOK(map), NEW m \in Marker, MarkerConverts(m)
  PROVE  StoreOK(Inserted(map, m))
<1> DEFINE new == Inserted(map, m)
<1>1. new = [id \in DOMAIN map \cup {m.id} |-> IF id = m.id THEN m ELSE map[id]]
  BY DEF Inserted
<1>2. IsFiniteSet(DOMAIN map \cup {m.id})
  BY FS_AddElement DEF StoreOK
<1> HIDE DEF new
<1>3. new = [id \in DOMAIN new |-> new[id]] /\ DOMAIN new = DOMAIN map \cup {m.id}
  BY <1>1
<1>4. \A id \in DOMAIN new : new[id] \in Marker /\ new[id].id = id /\ MarkerConverts(new[id])
  BY <1>1 DEF StoreOK
<1> QED
  BY <1>2, <1>3, <1>4 DEF StoreOK, new

LEMMA EmptyStore == StoreOK([id \in {} |-> id])
  BY FS_EmptySet DEF StoreOK

(* So does a batch.                                                        *)
LEMMA InsertedAllKeeps ==
  ASSUME NEW batch \in Seq(Marker), \A i \in DOMAIN batch : MarkerConverts(batch[i])
  PROVE  StoreOK(InsertedAll([id \in {} |-> id], batch))
<1> DEFINE N == Len(batch)
           none == [id \in {} |-> id]
<1>1. N \in Nat /\ DOMAIN batch = 1..N /\ \A i \in 1..N : batch[i] \in Marker
  OBVIOUS
<1>2. none = [id \in DOMAIN none |-> none[id]] /\ StoreOK(none)
  BY EmptyStore
<1> HIDE DEF none
<1>3. PICK h : /\ InsertedAll(none, batch) = h[N] /\ h[0] = none
               /\ \A n \in 1..N : h[n] = Inserted(h[n - 1], batch[n])
  BY <1>2, InsertedStepwise
<1> HIDE DEF N
<1> DEFINE G == {n \in Nat : n \in 0..N => StoreOK(h[n])}
<1>4. 0 \in G
  BY <1>2, <1>3
<1>5. ASSUME NEW n \in Nat, n \in G PROVE n + 1 \in G
  <2> SUFFICES ASSUME n + 1 \in 0..N PROVE StoreOK(h[n + 1])
    OBVIOUS
  <2>1. n + 1 \in 1..N /\ (n + 1) - 1 = n /\ n \in 0..N
    BY <1>1
  <2>2. StoreOK(h[n]) /\ h[n + 1] = Inserted(h[n], batch[n + 1])
    BY <1>3, <1>5, <2>1
  <2>3. batch[n + 1] \in Marker /\ MarkerConverts(batch[n + 1])
    BY <1>1, <2>1
  <2> QED
    BY <2>2, <2>3, InsertedKeeps
<1>6. N \in G
  <2> HIDE DEF G
  <2> QED
    BY <1>1, <1>4, <1>5, NaturalsBelong
<1> QED
  BY <1>1, <1>3, <1>6 DEF none

(* A call that is over, and one whose op or batch changes.                 *)
LEMMA CallMoves ==
  ASSUME CallsOK, NEW c \in Callers, calls[c].op \in {"convert", "lock"},
         NEW op \in {"lock", "run"}, Converts(calls[c].request)
  PROVE  /\ CallOK([calls[c] EXCEPT !.op = op])
         /\ [calls[c] EXCEPT !.op = op].op = op
         /\ [calls[c] EXCEPT !.op = op].request = calls[c].request
<1> DEFINE call == calls[c]
           new == [call EXCEPT !.op = op]
<1>1. call \in [op : {"convert", "lock", "run"}, request : Request] /\ call.request \in Request
  BY CallFields
<1>2. Converts(call.request)
  OBVIOUS
<1> HIDE DEF call
<1>3. new \in [op : {"lock", "run"}, request : Request]
  BY <1>1
<1>4. new.op = op /\ new.request = call.request
  BY <1>1
<1> HIDE DEF new
<1>5. Checked(new.request)
  BY <1>1, <1>2, <1>4 DEF Checked
<1>6. CallOK(new)
  BY <1>3, <1>5 DEF CallOK
<1> QED
  BY <1>4, <1>6 DEF new, call

LEMMA BatchShrinks ==
  ASSUME CallsOK, NEW c \in Callers, Runs(c, "upsert"), calls[c].request.markers # <<>>
  PROVE  LET r == calls[c].request
             new == [calls[c] EXCEPT !.request.markers = Tail(r.markers)] IN
         /\ CallOK(new) /\ new.op = "run" /\ new.request.op = "upsert"
         /\ new.request.markers = Tail(r.markers)
         /\ r.markers \in Seq(Marker)
         /\ Head(r.markers) \in Marker /\ MarkerConverts(Head(r.markers))
<1> DEFINE call == calls[c]
           r == call.request
           q == [r EXCEPT !.markers = Tail(r.markers)]
           new == [call EXCEPT !.request = q]
<1>1. /\ call \in [op : {"convert", "lock", "run"}, request : Request]
      /\ r \in Request /\ Checked(r) /\ call.op = "run" /\ r.op = "upsert"
  BY CallFields DEF Runs, Checked
<1>2. /\ q \in Request /\ Checked(q)
      /\ Head(r.markers) \in Marker /\ MarkerConverts(Head(r.markers))
  BY <1>1, TailChecked
<1>3. r \in [op : {"replace", "upsert"}, markers : Seq(Marker)]
  BY <1>1, RequestFields
<1>4. q.op = "upsert" /\ q.markers = Tail(r.markers)
  BY <1>1, <1>3
<1>5. [call EXCEPT !.request.markers = Tail(r.markers)] = new
  OBVIOUS
<1> HIDE DEF call, q
<1>6. new.op = "run" /\ new.request = q
  BY <1>1
<1>7. new \in [op : {"lock", "run"}, request : Request]
  BY <1>1, <1>2
<1> HIDE DEF new
<1>8. CallOK(new)
  BY <1>2, <1>6, <1>7 DEF CallOK
<1>9. r.markers \in Seq(Marker)
  BY <1>3
<1> QED
  BY <1>2, <1>4, <1>5, <1>6, <1>8, <1>9 DEF call

(* A call returns.                                                         *)
LEMMA CallReturns ==
  ASSUME CallsOK, NEW c \in Callers, NEW answer, answer.op \in {"answer", "failure"},
         Return(c, answer)
  PROVE  CallsOK' /\ callsMade' = callsMade
<1>1. CallOK(answer) /\ answer.op # "run"
  BY DEF CallOK
<1>2. Becomes(c, answer) /\ lock' = lock \ {c} /\ callsMade' = callsMade
  BY DEF Return
<1> QED
  BY <1>1, <1>2, CallChanges

---------------------------------------------------------------------------
(* The invariant holds.                                                    *)

LEMMA InvInit ==
  ASSUME EngineInit
  PROVE  EngineInv
<1>1. calls = [c \in Callers |-> calls[c]] /\ \A c \in Callers : calls[c] = Idle
  BY DEF EngineInit
<1>2. lock = Running(calls)
  BY <1>1 DEF EngineInit, Running, Idle
<1>3. CallsOK
  BY <1>1, <1>2 DEF CallsOK, CallOK, EngineInit
<1>4. StoreOK(markers)
  BY EmptyStore DEF EngineInit
<1>5. ViewportOK /\ callsMade \in 0..MaxCalls
  BY EngineAssumption DEF EngineInit, ViewportOK
<1> QED
  BY <1>3, <1>4, <1>5 DEF EngineInv

LEMMA InvBegin ==
  ASSUME EngineInv, NEW c \in Callers, NEW r \in Requests, Begin(c, r)
  PROVE  EngineInv'
<1> DEFINE new == Call("convert", r)
<1>1. r \in Request
  BY EngineAssumption
<1>2. new \in [op : {"convert"}, request : Request] /\ new.op = "convert"
  BY <1>1 DEF Call
<1>3. CallOK(new)
  BY <1>2 DEF CallOK
<1>4. /\ CallsOK /\ calls[c] = Idle /\ Becomes(c, new) /\ lock' = lock
      /\ UNCHANGED <<markers, viewport>>
  BY DEF Begin, EngineInv, stateVars
<1>5. lock' = lock \ {c}
  BY <1>4 DEF CallsOK, Running, Idle
<1> HIDE DEF new
<1>6. CallsOK'
  BY <1>2, <1>3, <1>4, <1>5, CallChanges
<1>7. callsMade' \in 0..MaxCalls
  BY EngineAssumption DEF Begin, EngineInv
<1> QED
  BY <1>4, <1>6, <1>7 DEF EngineInv, StoreOK, ViewportOK

LEMMA InvConvert ==
  ASSUME EngineInv, NEW c \in Callers, Convert(c)
  PROVE  EngineInv'
<1>1. /\ CallsOK /\ calls[c].op = "convert" /\ lock' = lock /\ callsMade' = callsMade
      /\ UNCHANGED <<markers, viewport>>
  BY DEF Convert, EngineInv, stateVars
<1>2. lock' = lock \ {c}
  BY <1>1 DEF CallsOK, Running
<1>3. CASE Converts(calls[c].request)
  <2> DEFINE new == [calls[c] EXCEPT !.op = "lock"]
  <2>1. CallOK(new) /\ new.op = "lock"
    BY <1>1, <1>3, CallMoves
  <2>2. Becomes(c, new)
    BY <1>3 DEF Convert
  <2> HIDE DEF new
  <2>3. CallsOK'
    BY <1>1, <1>2, <2>1, <2>2, CallChanges
  <2> QED
    BY <1>1, <2>3 DEF EngineInv, StoreOK, ViewportOK
<1>4. CASE ~Converts(calls[c].request)
  <2> DEFINE new == Failure("invalid input")
  <2>1. CallOK(new) /\ new.op = "failure"
    BY DEF CallOK, Failure
  <2>2. Becomes(c, new)
    BY <1>4 DEF Convert
  <2> HIDE DEF new
  <2>3. CallsOK'
    BY <1>1, <1>2, <2>1, <2>2, CallChanges
  <2> QED
    BY <1>1, <2>3 DEF EngineInv, StoreOK, ViewportOK
<1> QED
  BY <1>3, <1>4

LEMMA InvLock ==
  ASSUME EngineInv, NEW c \in Callers, Lock(c)
  PROVE  EngineInv'
<1> DEFINE new == [calls[c] EXCEPT !.op = "run"]
<1>1. /\ CallsOK /\ calls[c].op = "lock" /\ lock = {} /\ lock' = {c} /\ callsMade' = callsMade
      /\ UNCHANGED <<markers, viewport>> /\ Becomes(c, new)
  BY DEF Lock, EngineInv, stateVars
<1>2. Converts(calls[c].request)
  BY <1>1, CallFields
<1>3. CallOK(new) /\ new.op = "run"
  BY <1>1, <1>2, CallMoves
<1> HIDE DEF new
<1>4. lock' = lock \cup {c} /\ lock \subseteq {c}
  BY <1>1
<1>5. CallsOK'
  BY <1>1, <1>3, <1>4, CallChanges
<1> QED
  BY <1>1, <1>5 DEF EngineInv, StoreOK, ViewportOK

LEMMA InvSetViewport ==
  ASSUME EngineInv, NEW c \in Callers, SetViewport(c)
  PROVE  EngineInv'
<1> DEFINE r == calls[c].request
<1>1. CallsOK /\ Runs(c, "setViewport") /\ Return(c, Answer(<<>>)) /\ markers' = markers
  BY DEF SetViewport, EngineInv
<1>2. CallsOK' /\ callsMade' = callsMade
  BY <1>1, CallReturns DEF Answer
<1>3. r.op = "setViewport" /\ Converts(r)
  BY <1>1, CallFields DEF Runs
<1>4. ValidBounds(r.bounds) /\ ValidZoom(r.zoom)
  BY <1>3 DEF Converts
<1>5. viewport' = [bounds |-> r.bounds, zoom |-> r.zoom]
  BY DEF SetViewport
<1> HIDE DEF r
<1>6. ViewportOK'
  BY <1>4, <1>5 DEF ViewportOK
<1> QED
  BY <1>1, <1>2, <1>6 DEF EngineInv, StoreOK

LEMMA InvReplaceMarkers ==
  ASSUME EngineInv, NEW c \in Callers, ReplaceMarkers(c)
  PROVE  EngineInv'
<1> DEFINE r == calls[c].request
<1>1. CallsOK /\ Runs(c, "replace") /\ Return(c, Answer(<<>>)) /\ viewport' = viewport
  BY DEF ReplaceMarkers, EngineInv
<1>2. CallsOK' /\ callsMade' = callsMade
  BY <1>1, CallReturns DEF Answer
<1>3. r.op = "replace" /\ Converts(r) /\ r \in Request
  BY <1>1, CallFields DEF Runs
<1>4. \A i \in DOMAIN r.markers : MarkerConverts(r.markers[i])
  BY <1>3 DEF Converts
<1>5. r.markers \in Seq(Marker)
  <2> HIDE DEF r
  <2>1. r \in [op : {"replace", "upsert"}, markers : Seq(Marker)]
    BY <1>3, RequestFields
  <2> QED
    BY <2>1
<1>6. StoreOK(InsertedAll([id \in {} |-> id], r.markers))
  <2> HIDE DEF r
  <2> QED
    BY <1>4, <1>5, InsertedAllKeeps
<1>7. markers' = InsertedAll([id \in {} |-> id], r.markers)
  BY DEF ReplaceMarkers
<1>8. StoreOK(markers')
  BY <1>6, <1>7
<1> QED
  BY <1>1, <1>2, <1>8 DEF EngineInv, StoreOK, ViewportOK

LEMMA InvUpsertMarker ==
  ASSUME EngineInv, NEW c \in Callers, UpsertMarker(c)
  PROVE  EngineInv'
<1> DEFINE r == calls[c].request
           new == [calls[c] EXCEPT !.request.markers = Tail(r.markers)]
<1>1. CallsOK /\ Runs(c, "upsert") /\ viewport' = viewport
  BY DEF UpsertMarker, EngineInv
<1>2. CASE r.markers = <<>>
  <2>1. Return(c, Answer(<<>>)) /\ markers' = markers
    BY <1>2 DEF UpsertMarker
  <2>2. CallsOK' /\ callsMade' = callsMade
    BY <1>1, <2>1, CallReturns DEF Answer
  <2> QED
    BY <1>1, <2>1, <2>2 DEF EngineInv, StoreOK, ViewportOK
<1>3. CASE r.markers # <<>>
  <2>1. /\ markers' = Inserted(markers, Head(r.markers))
        /\ Becomes(c, new) /\ lock' = lock /\ callsMade' = callsMade
    BY <1>3 DEF UpsertMarker
  <2>2. /\ CallOK(new) /\ new.op = "run"
        /\ Head(r.markers) \in Marker /\ MarkerConverts(Head(r.markers))
    BY <1>1, <1>3, BatchShrinks
  <2>3. StoreOK(Inserted(markers, Head(r.markers)))
    <3> HIDE DEF r
    <3> QED
      BY <2>2, InsertedKeeps DEF EngineInv
  <2>4. lock = {c}
    BY <1>1, RunnerHasLock DEF Runs
  <2> HIDE DEF new, r
  <2>5. CallsOK'
    <3>1. lock' = lock \cup {c} /\ lock \subseteq {c}
      BY <2>1, <2>4
    <3> QED
      BY <1>1, <2>1, <2>2, <3>1, CallChanges
  <2>6. StoreOK(markers')
    BY <2>1, <2>3
  <2> QED
    BY <1>1, <2>1, <2>5, <2>6 DEF EngineInv, StoreOK, ViewportOK
<1> QED
  BY <1>2, <1>3

LEMMA InvRemoveMarker ==
  ASSUME EngineInv, NEW c \in Callers, RemoveMarker(c)
  PROVE  EngineInv'
<1> DEFINE left == DOMAIN markers \ {calls[c].request.id}
<1>1. /\ CallsOK /\ Return(c, Answer(<<>>)) /\ viewport' = viewport
      /\ markers' = [id \in left |-> markers[id]] /\ StoreOK(markers)
  BY DEF RemoveMarker, EngineInv
<1>2. CallsOK' /\ callsMade' = callsMade
  BY <1>1, CallReturns DEF Answer
<1>3. left \subseteq DOMAIN markers /\ IsFiniteSet(left)
  BY <1>1, FS_Subset DEF StoreOK
<1> HIDE DEF left
<1>4. DOMAIN markers' = left /\ \A id \in left : markers'[id] = markers[id]
  BY <1>1
<1>5. markers' = [id \in DOMAIN markers' |-> markers'[id]]
  BY <1>1
<1>6. StoreOK(markers')
  BY <1>1, <1>3, <1>4, <1>5 DEF StoreOK
<1> QED
  BY <1>1, <1>2, <1>6 DEF EngineInv, StoreOK, ViewportOK

LEMMA InvClearMarkers ==
  ASSUME EngineInv, NEW c \in Callers, ClearMarkers(c)
  PROVE  EngineInv'
<1>1. /\ CallsOK /\ Return(c, Answer(<<>>)) /\ viewport' = viewport
      /\ markers' = [id \in {} |-> id]
  BY DEF ClearMarkers, EngineInv
<1>2. CallsOK' /\ callsMade' = callsMade
  BY <1>1, CallReturns DEF Answer
<1>3. StoreOK(markers')
  BY <1>1, EmptyStore
<1> QED
  BY <1>1, <1>2, <1>3 DEF EngineInv, StoreOK, ViewportOK

LEMMA InvQuery ==
  ASSUME EngineInv, NEW c \in Callers, VisibleMarkers(c) \/ ClusteredMarkers(c) \/ ClusteredAll(c)
  PROVE  EngineInv'
<1>1. CallsOK /\ UNCHANGED <<markers, viewport>>
  BY DEF VisibleMarkers, ClusteredMarkers, ClusteredAll, EngineInv, stateVars
<1>2. PICK answer : answer.op \in {"answer", "failure"} /\ Return(c, answer)
  <2>1. \A items : Answer(items).op = "answer"
    BY DEF Answer
  <2>2. \A error : Failure(error).op = "failure"
    BY DEF Failure
  <2>3. CASE VisibleMarkers(c)
    BY <2>1, <2>2, <2>3 DEF VisibleMarkers
  <2>4. CASE ClusteredMarkers(c)
    BY <2>1, <2>2, <2>4 DEF ClusteredMarkers
  <2>5. CASE ClusteredAll(c)
    <3> DEFINE zoom == calls[c].request.zoom
               items == ClusterMarkers(MarkersAtZoom(zoom), zoom)
               answer == IF ~ValidZoom(zoom) THEN Failure("invalid input") ELSE Answer(items)
    <3>1. Return(c, answer)
      BY <2>5 DEF ClusteredAll
    <3> HIDE DEF items
    <3>2. answer.op \in {"answer", "failure"}
      BY <2>1, <2>2
    <3> HIDE DEF answer
    <3> QED
      BY <3>1, <3>2
  <2> QED
    BY <2>3, <2>4, <2>5
<1>3. CallsOK' /\ callsMade' = callsMade
  BY <1>1, <1>2, CallReturns
<1> QED
  BY <1>1, <1>3 DEF EngineInv, StoreOK, ViewportOK

LEMMA InvEnd ==
  ASSUME EngineInv, NEW c \in Callers, End(c)
  PROVE  EngineInv'
<1>1. /\ CallsOK /\ calls[c].op # "run" /\ Becomes(c, Idle) /\ lock' = lock
      /\ callsMade' = callsMade /\ UNCHANGED <<markers, viewport>>
  BY DEF End, EngineInv, stateVars
<1>2. CallOK(Idle) /\ Idle.op # "run"
  BY DEF CallOK, Idle
<1>3. lock' = lock \ {c}
  BY <1>1 DEF CallsOK, Running
<1> HIDE DEF Idle
<1>4. CallsOK'
  BY <1>1, <1>2, <1>3, CallChanges
<1> QED
  BY <1>1, <1>4 DEF EngineInv, StoreOK, ViewportOK

LEMMA InvNext ==
  ASSUME EngineInv, [EngineNext]_engineVars
  PROVE  EngineInv'
<1>1. CASE EngineNext
  <2> PICK c \in Callers :
        \/ \E r \in Requests : Begin(c, r)
        \/ Convert(c) \/ Lock(c)
        \/ SetViewport(c) \/ ReplaceMarkers(c) \/ UpsertMarker(c)
        \/ RemoveMarker(c) \/ ClearMarkers(c)
        \/ VisibleMarkers(c) \/ ClusteredMarkers(c) \/ ClusteredAll(c)
        \/ End(c)
    BY <1>1 DEF EngineNext
  <2> QED
    BY InvBegin, InvConvert, InvLock, InvSetViewport, InvReplaceMarkers, InvUpsertMarker,
       InvRemoveMarker, InvClearMarkers, InvQuery, InvEnd
<1>2. CASE UNCHANGED engineVars
  <2>1. UNCHANGED <<markers, viewport, lock, calls, callsMade>>
    BY <1>2 DEF engineVars, stateVars
  <2> QED
    BY <2>1 DEF EngineInv, StoreOK, ViewportOK, CallsOK, Running
<1> QED
  BY <1>1, <1>2

LEMMA InvAlways == EngineSpec => []EngineInv
<1>1. EngineInit => EngineInv
  BY InvInit
<1>2. EngineInv /\ [EngineNext]_engineVars => EngineInv'
  BY InvNext
<1> QED
  BY <1>1, <1>2, PTL DEF EngineSpec

(* In every reachable state the markers are stored under their ids, all    *)
(* places are on the map, and at most one call works on the map.           *)
THEOREM EngineTyped == EngineSpec => []EngineTypeOK
<1>1. ASSUME EngineInv PROVE EngineTypeOK
  <2>1. \A id \in DOMAIN markers : markers[id].id = id /\ ValidPoint(markers[id])
    BY <1>1 DEF EngineInv, StoreOK, MarkerConverts
  <2>2. lock \subseteq Callers /\ Cardinality(lock) <= 1
    <3>1. lock \subseteq Callers /\ \A c, d \in lock : c = d
      BY <1>1 DEF EngineInv, CallsOK, Running
    <3>2. lock = {} \/ \E c : lock = {c}
      BY <3>1
    <3>3. Cardinality({}) = 0 /\ \A c : Cardinality({c}) = 1
      BY FS_EmptySet, FS_Singleton
    <3>4. Cardinality(lock) \in {0, 1}
      BY ONLY <3>2, <3>3
    <3> QED
      BY <3>1, <3>4
  <2>3. \A c \in Callers : calls[c].op \in {"idle", "answer", "failure", "convert", "lock", "run"}
    BY <1>1, CallFields DEF EngineInv
  <2>4. /\ viewport # NoViewport => ValidBounds(viewport.bounds) /\ ValidZoom(viewport.zoom)
        /\ callsMade \in 0..MaxCalls
    BY <1>1 DEF EngineInv, ViewportOK
  <2> QED
    BY <2>1, <2>2, <2>3, <2>4 DEF EngineTypeOK
<1> QED
  BY <1>1, InvAlways, PTL

---------------------------------------------------------------------------
(* What AtomicMarkers sees, as operators of the map and the calls, so that *)
(* it can be compared before and after a step.                             *)

Upserts(call) == call.op = "run" /\ call.request.op = "upsert"
UpsertingIn(cs) == {c \in Callers : Upserts(cs[c])}

StoreIn(map, cs) ==
  IF UpsertingIn(cs) = {} THEN map
  ELSE InsertedAll(map, cs[CHOOSE c \in UpsertingIn(cs) : TRUE].request.markers)

Seen(call) ==
  IF call.op \notin {"convert", "lock", "run"} THEN call
  ELSE IF Upserts(call) THEN Answer(<<>>) ELSE call.request

CallsIn(cs) == [c \in Callers |-> Seen(cs[c])]

LEMMA SeenAsOperators ==
  /\ StoreSeen = StoreIn(markers, calls) /\ [c \in Callers |-> CallSeen(c)] = CallsIn(calls)
  /\ (StoreSeen)' = StoreIn(markers', calls')
  /\ ([c \in Callers |-> CallSeen(c)])' = CallsIn(calls')
<1>1. Upserting = UpsertingIn(calls) /\ (Upserting)' = UpsertingIn(calls')
  BY DEF Upserting, UpsertingIn, Runs, Upserts
<1>2. \A c \in Callers : CallSeen(c) = Seen(calls[c])
  BY <1>1 DEF CallSeen, Seen, UpsertingIn
<1>3. \A c \in Callers : (CallSeen(c))' = Seen(calls'[c])
  BY <1>1 DEF CallSeen, Seen, UpsertingIn
<1>4. StoreSeen = StoreIn(markers, calls) /\ (StoreSeen)' = StoreIn(markers', calls')
  BY <1>1 DEF StoreSeen, StoreIn
<1> QED
  BY <1>2, <1>3, <1>4 DEF CallsIn

LEMMA StoreOne ==
  ASSUME NEW map, NEW cs, NEW c, UpsertingIn(cs) = {c}
  PROVE  StoreIn(map, cs) = InsertedAll(map, cs[c].request.markers)
<1>1. (CHOOSE d \in UpsertingIn(cs) : TRUE) = c
  OBVIOUS
<1> QED
  BY <1>1 DEF StoreIn

(* Who upserts has the lock.                                               *)
LEMMA UpserterHasLock ==
  ASSUME CallsOK
  PROVE  /\ UpsertingIn(calls) \subseteq lock
         /\ \A c \in Callers : calls[c].op = "run" /\ ~Upserts(calls[c]) => UpsertingIn(calls) = {}
         /\ \A c \in Callers : Upserts(calls[c]) => UpsertingIn(calls) = {c}
<1>1. UpsertingIn(calls) \subseteq lock
  BY DEF CallsOK, Running, UpsertingIn, Upserts
<1>2. ASSUME NEW c \in Callers, calls[c].op = "run" PROVE lock = {c}
  BY <1>2, RunnerHasLock
<1> QED
  BY <1>1, <1>2 DEF UpsertingIn, Upserts

(* A call becomes what AtomicMarkers sees of the new one.                  *)
LEMMA CallsSeenChange ==
  ASSUME CallsOK, NEW c \in Callers, NEW call, Becomes(c, call)
  PROVE  CallsIn(calls') = [CallsIn(calls) EXCEPT ![c] = Seen(call)]
<1>1. calls' = [calls EXCEPT ![c] = call] /\ calls = [d \in Callers |-> calls[d]]
  BY DEF CallsOK, Becomes
<1>2. calls'[c] = call /\ \A d \in Callers : d # c => calls'[d] = calls[d]
  BY <1>1
<1> QED
  BY <1>2 DEF CallsIn

LEMMA UpsertingChanges ==
  ASSUME CallsOK, NEW c \in Callers, NEW call, Becomes(c, call)
  PROVE  UpsertingIn(calls') = IF Upserts(call) THEN UpsertingIn(calls) \cup {c}
                               ELSE UpsertingIn(calls) \ {c}
<1>1. calls' = [calls EXCEPT ![c] = call] /\ calls = [d \in Callers |-> calls[d]]
  BY DEF CallsOK, Becomes
<1>2. calls'[c] = call /\ \A d \in Callers : d # c => calls'[d] = calls[d]
  BY <1>1
<1> QED
  BY <1>2 DEF UpsertingIn

(* Calls that do not upsert, before or after the step, leave what is seen  *)
(* of the map alone.                                                       *)
LEMMA StoreSeenStays ==
  ASSUME CallsOK, NEW c \in Callers, NEW call, Becomes(c, call), markers' = markers,
         ~Upserts(calls[c]), ~Upserts(call)
  PROVE  StoreIn(markers', calls') = StoreIn(markers, calls)
<1>1. UpsertingIn(calls') = UpsertingIn(calls) /\ c \notin UpsertingIn(calls)
  BY UpsertingChanges DEF UpsertingIn
<1>2. CASE UpsertingIn(calls) = {}
  BY <1>1, <1>2 DEF StoreIn
<1>3. CASE UpsertingIn(calls) # {}
  <2>1. PICK d \in Callers : UpsertingIn(calls) = {d}
    BY <1>3, UpserterHasLock DEF UpsertingIn
  <2>2. calls'[d] = calls[d]
    BY <1>1, <2>1 DEF CallsOK, Becomes
  <2> QED
    BY <1>1, <2>1, <2>2, StoreOne
<1> QED
  BY <1>2, <1>3

(* While another call runs, the map is seen as it is; so it is afterwards. *)
LEMMA StoreSeenAsIs ==
  ASSUME CallsOK, NEW c \in Callers, calls[c].op = "run", ~Upserts(calls[c]),
         NEW call, Becomes(c, call), ~Upserts(call)
  PROVE  StoreIn(markers, calls) = markers /\ StoreIn(markers', calls') = markers'
<1>1. UpsertingIn(calls) = {} /\ UpsertingIn(calls') = {}
  BY UpserterHasLock, UpsertingChanges
<1> QED
  BY <1>1 DEF StoreIn

(* The checks of the facade and those that AtomicMarkers asks for; the     *)
(* zoom of clusteredAll is checked for good under the lock.                *)
LEMMA ChecksAgree ==
  ASSUME NEW r \in Request
  PROVE  /\ Service!Valid(r) => Converts(r)
         /\ Converts(r) /\ (r.op = "clusteredAll" => ValidZoom(r.zoom)) => Service!Valid(r)
         /\ r.op = "clusteredAll" /\ ~ValidZoom(r.zoom) => ~Service!Valid(r)
<1>1. \A z : ValidZoom(z) => FitsU32(z)
  BY EngineAssumption, MercatorAssumption DEF ValidZoom, FitsU32
<1>2. \A m : Service!ValidMarker(m) <=> MarkerConverts(m)
  BY <1>1, PlacesAgree DEF Service!ValidMarker, MarkerConverts
<1>3. r.op \in {"setViewport", "replace", "upsert", "remove", "clear", "visible",
                "clustered", "clusteredAll"}
  BY RequestFields
<1>4. CASE r.op = "setViewport"
  BY <1>1, <1>4, PlacesAgree DEF Service!Valid, Converts
<1>5. CASE r.op \in {"replace", "upsert"}
  BY <1>2, <1>5 DEF Service!Valid, Converts
<1>6. CASE r.op = "remove"
  BY <1>6 DEF Service!Valid, Converts
<1>7. CASE r.op = "clusteredAll"
  BY <1>1, <1>7, PlacesAgree DEF Service!Valid, Converts
<1>8. CASE r.op \in {"clear", "visible", "clustered"}
  BY <1>8 DEF Service!Valid, Converts
<1> QED
  BY <1>3, <1>4, <1>5, <1>6, <1>7, <1>8

(* A batch goes into the map at once or marker by marker.                  *)
LEMMA NothingMerged ==
  ASSUME NEW map, map = [id \in DOMAIN map |-> map[id]]
  PROVE  InsertedAll(map, <<>>) = map
<1>1. <<>> \in Seq(Marker) /\ Service!BatchIds(<<>>) = {}
  BY DEF Service!BatchIds
<1>2. InsertedAll(map, <<>>) = Service!Merged(map, <<>>)
  BY <1>1, InsertedAllMerges
<1> QED
  BY <1>1, <1>2 DEF Service!Merged

LEMMA MergedOneFirst ==
  ASSUME NEW batch \in Seq(Marker), batch # <<>>, NEW map,
         map = [id \in DOMAIN map |-> map[id]]
  PROVE  InsertedAll(Inserted(map, Head(batch)), Tail(batch)) = InsertedAll(map, batch)
<1> DEFINE n == Len(batch)
           first == Head(batch)
           rest == Tail(batch)
           new == Inserted(map, first)
<1>1. /\ n \in Nat /\ n >= 1 /\ DOMAIN batch = 1..n /\ first = batch[1] /\ rest \in Seq(Marker)
      /\ DOMAIN rest = 1..(n - 1) /\ \A i \in 1..(n - 1) : rest[i] = batch[i + 1]
  OBVIOUS
<1>2. /\ DOMAIN new = DOMAIN map \cup {first.id} /\ new = [id \in DOMAIN new |-> new[id]]
      /\ \A id \in DOMAIN new : new[id] = IF id = first.id THEN first ELSE map[id]
  BY DEF Inserted
<1>3. /\ InsertedAll(map, batch) = Service!Merged(map, batch)
      /\ InsertedAll(new, rest) = Service!Merged(new, rest)
  <2> HIDE DEF new, rest
  <2> QED
    BY <1>1, <1>2, InsertedAllMerges
<1> HIDE DEF new, rest, first, n
<1>4. Service!BatchIds(batch) = Service!BatchIds(rest) \cup {first.id}
  <2>1. \A i \in 1..n : i = 1 \/ (i - 1 \in 1..(n - 1) /\ batch[i] = rest[i - 1])
    BY <1>1
  <2>2. \A i \in 1..(n - 1) : i + 1 \in 1..n
    BY <1>1
  <2>3. 1 \in 1..n
    BY <1>1
  <2>4. Service!BatchIds(batch) = {batch[i].id : i \in 1..n}
    BY <1>1 DEF Service!BatchIds
  <2>5. Service!BatchIds(rest) = {rest[i].id : i \in 1..(n - 1)}
    BY <1>1 DEF Service!BatchIds
  <2>6. \A i \in 1..n : batch[i].id \in Service!BatchIds(rest) \cup {first.id}
    BY <1>1, <2>1, <2>5
  <2>7. \A i \in 1..(n - 1) : rest[i].id \in Service!BatchIds(batch)
    BY <1>1, <2>2, <2>4
  <2>8. first.id \in Service!BatchIds(batch)
    BY <1>1, <2>3, <2>4
  <2> QED
    BY <2>4, <2>5, <2>6, <2>7, <2>8
<1>5. ASSUME NEW id \in Service!BatchIds(rest)
      PROVE  Service!LastWith(rest, id) = Service!LastWith(batch, id)
  <2> DEFINE P == {i \in 1..(n - 1) : rest[i].id = id}
  <2>1. P \subseteq 1..(n - 1) /\ P # {}
    BY <1>1, <1>5 DEF Service!BatchIds
  <2>2. \E i \in P : \A j \in P : j <= i
    <3> HIDE DEF P
    <3>1. n - 1 \in Int /\ P \subseteq Int
      BY <1>1, <2>1
    <3>2. IsFiniteSet(1..(n - 1))
      BY ONLY <3>1, FS_Interval
    <3>3. IsFiniteSet(P)
      BY <2>1, <3>2, FS_Subset
    <3> QED
      BY <2>1, <3>1, <3>3, FiniteHasLargest
  <2>3. PICK l \in P : \A j \in P : j <= l
    BY <2>2
  <2>4. Service!LastWith(rest, id) = rest[l]
    <3>1. \A i \in DOMAIN rest : (rest[i].id = id /\ \A j \in DOMAIN rest : rest[j].id = id => j <= i) <=> i = l
      BY <1>1, <2>3
    <3>2. l \in DOMAIN rest
      BY <1>1, <2>3
    <3>3. (CHOOSE i \in DOMAIN rest :
             rest[i].id = id /\ \A j \in DOMAIN rest : rest[j].id = id => j <= i) = l
      BY <3>1, <3>2
    <3> QED
      BY <3>3 DEF Service!LastWith
  <2>5. Service!LastWith(batch, id) = batch[l + 1]
    <3>1. l + 1 \in DOMAIN batch /\ batch[l + 1].id = id
      BY <1>1, <2>3
    <3>2. \A j \in DOMAIN batch : batch[j].id = id => j <= l + 1
      <4> SUFFICES ASSUME NEW j \in 1..n, batch[j].id = id PROVE j <= l + 1
        BY <1>1
      <4>1. l \in Nat /\ j \in Nat
        BY <1>1, <2>3
      <4>2. CASE j = 1
        BY <2>3, <4>1, <4>2
      <4>3. CASE j # 1
        <5>1. j - 1 \in 1..(n - 1) /\ (j - 1) + 1 = j
          BY <1>1, <4>3
        <5>2. j - 1 \in P
          BY <1>1, <5>1
        <5>3. j - 1 <= l
          BY <2>3, <5>2
        <5> QED
          BY <4>1, <5>3
      <4> QED
        BY <4>2, <4>3
    <3>3. \A i \in DOMAIN batch :
            (batch[i].id = id /\ \A j \in DOMAIN batch : batch[j].id = id => j <= i) <=> i = l + 1
      <4>1. \A i, j \in DOMAIN batch : i <= j /\ j <= i => i = j
        BY <1>1
      <4> QED
        BY <3>1, <3>2, <4>1
    <3>4. (CHOOSE i \in DOMAIN batch :
             batch[i].id = id /\ \A j \in DOMAIN batch : batch[j].id = id => j <= i) = l + 1
      BY <3>1, <3>3
    <3> QED
      BY <3>4 DEF Service!LastWith
  <2>6. rest[l] = batch[l + 1]
    BY <1>1, <2>3
  <2> QED
    BY <2>4, <2>5, <2>6
<1>6. ASSUME first.id \notin Service!BatchIds(rest)
      PROVE  Service!LastWith(batch, first.id) = first
  <2>1. \A j \in DOMAIN batch : batch[j].id = first.id => j = 1
    <3> SUFFICES ASSUME NEW j \in 1..n, j # 1, batch[j].id = first.id PROVE FALSE
      BY <1>1
    <3>1. j - 1 \in DOMAIN rest /\ rest[j - 1] = batch[(j - 1) + 1] /\ (j - 1) + 1 = j
      BY <1>1
    <3> QED
      BY <1>6, <3>1 DEF Service!BatchIds
  <2>2. 1 \in DOMAIN batch /\ batch[1].id = first.id
    BY <1>1
  <2>3. \A i \in DOMAIN batch :
          (batch[i].id = first.id /\ \A j \in DOMAIN batch : batch[j].id = first.id => j <= i)
            <=> i = 1
    BY <2>1, <2>2
  <2>4. (CHOOSE i \in DOMAIN batch :
           batch[i].id = first.id
           /\ \A j \in DOMAIN batch : batch[j].id = first.id => j <= i) = 1
    BY <2>2, <2>3
  <2> QED
    BY <1>1, <2>4 DEF Service!LastWith
<1>7. Service!Merged(new, rest) = Service!Merged(map, batch)
  <2> DEFINE D == DOMAIN map \cup Service!BatchIds(batch)
             old(id) == IF id \in Service!BatchIds(rest) THEN Service!LastWith(rest, id)
                        ELSE new[id]
             one(id) == IF id \in Service!BatchIds(batch) THEN Service!LastWith(batch, id)
                        ELSE map[id]
  <2>1. DOMAIN new \cup Service!BatchIds(rest) = D
    BY <1>2, <1>4
  <2>2. ASSUME NEW id \in D PROVE old(id) = one(id)
    <3>1. CASE id \in Service!BatchIds(rest)
      BY <1>4, <1>5, <3>1
    <3>2. CASE id \notin Service!BatchIds(rest) /\ id = first.id
      BY <1>2, <1>4, <1>6, <3>2
    <3>3. CASE id \notin Service!BatchIds(rest) /\ id # first.id
      BY <1>2, <1>4, <3>3
    <3> QED
      BY <3>1, <3>2, <3>3
  <2>3. Service!Merged(new, rest) = [id \in D |-> old(id)]
    BY <2>1 DEF Service!Merged
  <2>4. Service!Merged(map, batch) = [id \in D |-> one(id)]
    BY DEF Service!Merged
  <2> HIDE DEF D, old, one
  <2> QED
    BY <2>2, <2>3, <2>4
<1> QED
  BY <1>3, <1>7 DEF new, rest, first

(* The markers that a query looks at are those of the ids that             *)
(* AtomicMarkers names.                                                    *)
LEMMA VisibleAgree ==
  ASSUME StoreOK(markers), StoreSeen = markers, NEW zoom
  PROVE  /\ Service!VisibleIds(zoom) \in SUBSET DOMAIN markers
         /\ zoom \in Int => AtZoom(zoom) = Having(Service!VisibleIds(zoom))
<1>1. Service!VisibleIds(zoom) =
        {id \in DOMAIN markers : zoom \in markers[id].minZoom..markers[id].maxZoom}
  BY DEF Service!VisibleIds
<1>2. \A id \in DOMAIN markers : markers[id].minZoom \in Int /\ markers[id].maxZoom \in Int
  BY DEF StoreOK, Marker
<1>3. ASSUME zoom \in Int PROVE AtZoom(zoom) = Having(Service!VisibleIds(zoom))
  <2>1. \A id \in DOMAIN markers :
          markers[id].minZoom <= zoom /\ zoom <= markers[id].maxZoom
            <=> id \in Service!VisibleIds(zoom)
    BY <1>1, <1>2, <1>3
  <2> QED
    BY <1>1, <2>1 DEF AtZoom, Having
<1> QED
  BY <1>1, <1>3

LEMMA ShownAgree ==
  ASSUME StoreOK(markers), StoreSeen = markers, ValidZoom(viewport.zoom)
  PROVE  /\ Service!ShownIds \in SUBSET DOMAIN markers
         /\ MarkersInViewport = ById(Having(Service!ShownIds))
<1> DEFINE zoom == viewport.zoom
<1>1. zoom \in Int
  BY DEF ValidZoom
<1>2. /\ Service!VisibleIds(zoom) \in SUBSET DOMAIN markers
      /\ AtZoom(zoom) = Having(Service!VisibleIds(zoom))
  BY <1>1, VisibleAgree
<1>3. Service!ShownIds =
        {id \in Service!VisibleIds(zoom) : BoundsContain(viewport.bounds, markers[id])}
  BY PlacesAgree DEF Service!ShownIds
<1>4. {m \in AtZoom(zoom) : BoundsContain(viewport.bounds, m)} = Having(Service!ShownIds)
  BY <1>2, <1>3 DEF Having
<1> QED
  BY <1>2, <1>3, <1>4 DEF MarkersInViewport

---------------------------------------------------------------------------
(* Every step is one of AtomicMarkers, or changes nothing it sees.         *)

LEMMA SeesInit ==
  ASSUME EngineInit
  PROVE  Service!Init
<1>1. \A c \in Callers : calls[c] = Idle
  BY DEF EngineInit
<1>2. UpsertingIn(calls) = {}
  BY <1>1 DEF UpsertingIn, Upserts, Idle
<1>3. StoreSeen = [id \in {} |-> id]
  BY <1>2, SeenAsOperators DEF StoreIn, EngineInit
<1>4. [c \in Callers |-> CallSeen(c)] = [c \in Callers |-> Idle]
  <2>1. \A c \in Callers : Seen(calls[c]) = Idle
    BY <1>1 DEF Seen, Idle
  <2> QED
    BY <2>1, SeenAsOperators DEF CallsIn
<1> QED
  BY <1>3, <1>4 DEF Service!Init, Service!NoMarkers, Service!Idle, Idle, EngineInit

LEMMA SeesNothing ==
  ASSUME StoreIn(markers', calls') = StoreIn(markers, calls), viewport' = viewport,
         CallsIn(calls') = CallsIn(calls)
  PROVE  UNCHANGED Service!serviceVars
  BY SeenAsOperators DEF Service!serviceVars

(* The request of a call that is not over, unless it already upserts.      *)
LEMMA RequestSeen ==
  ASSUME CallsOK, NEW c \in Callers, calls[c].op \in {"convert", "lock", "run"},
         ~Upserts(calls[c])
  PROVE  LET r == calls[c].request IN
         /\ r \in Request /\ Seen(calls[c]) = r
         /\ [d \in Callers |-> CallSeen(d)][c] = r
         /\ Service!Waiting(c)
<1> DEFINE r == calls[c].request
<1>1. r \in Request /\ Seen(calls[c]) = r
  BY CallFields DEF Seen
<1>2. [d \in Callers |-> CallSeen(d)][c] = r
  <2>1. [d \in Callers |-> CallSeen(d)] = CallsIn(calls)
    BY SeenAsOperators
  <2>2. CallsIn(calls)[c] = r
    BY <1>1 DEF CallsIn
  <2> QED
    BY <2>1, <2>2
<1>3. r.op \notin {"idle", "answer", "failure"}
  BY <1>1, RequestFields
<1>4. Service!Waiting(c)
  BY <1>2, <1>3 DEF Service!Waiting
<1> QED
  BY <1>1, <1>2, <1>4

LEMMA SeesEffect ==
  ASSUME CallsOK, NEW c \in Callers, calls[c].op \in {"convert", "lock", "run"},
         ~Upserts(calls[c]), NEW r, r = calls[c].request, Service!Valid(r),
         r.op \in {"visible", "clustered"} => viewport # NoViewport,
         StoreIn(markers', calls') = Service!StoreAfter(r),
         viewport' = IF r.op = "setViewport" THEN [bounds |-> r.bounds, zoom |-> r.zoom]
                     ELSE viewport,
         CallsIn(calls') = [CallsIn(calls) EXCEPT ![c] = Answer(Service!Result(r))]
  PROVE  Service!Effect(c)
<1>1. [d \in Callers |-> CallSeen(d)][c] = r /\ Service!Waiting(c)
  BY RequestSeen
<1>2. /\ (StoreSeen)' = Service!StoreAfter(r)
      /\ ([d \in Callers |-> CallSeen(d)])' =
           [[d \in Callers |-> CallSeen(d)] EXCEPT ![c] = Service!Answer(Service!Result(r))]
  BY SeenAsOperators DEF Service!Answer, Answer
<1> QED
  BY <1>1, <1>2 DEF Service!Effect

LEMMA SeesReject ==
  ASSUME CallsOK, NEW c \in Callers, calls[c].op \in {"convert", "lock", "run"},
         ~Upserts(calls[c]), ~Service!Valid(calls[c].request),
         StoreIn(markers', calls') = StoreIn(markers, calls), viewport' = viewport,
         CallsIn(calls') = [CallsIn(calls) EXCEPT ![c] = Failure("invalid input")]
  PROVE  Service!Reject(c)
<1>1. [d \in Callers |-> CallSeen(d)][c] = calls[c].request /\ Service!Waiting(c)
  BY RequestSeen
<1>2. /\ (StoreSeen)' = StoreSeen
      /\ ([d \in Callers |-> CallSeen(d)])' =
           [[d \in Callers |-> CallSeen(d)] EXCEPT ![c] = Service!Failure("invalid input")]
  BY SeenAsOperators DEF Service!Failure, Failure
<1> QED
  BY <1>1, <1>2 DEF Service!Reject

LEMMA SeesNotReady ==
  ASSUME CallsOK, NEW c \in Callers, calls[c].op = "run",
         calls[c].request.op \in {"visible", "clustered"}, viewport = NoViewport,
         StoreIn(markers', calls') = StoreIn(markers, calls), viewport' = viewport,
         CallsIn(calls') = [CallsIn(calls) EXCEPT ![c] = Failure("state")]
  PROVE  Service!NotReady(c)
<1>1. [d \in Callers |-> CallSeen(d)][c] = calls[c].request
  BY RequestSeen DEF Upserts
<1>2. /\ (StoreSeen)' = StoreSeen
      /\ ([d \in Callers |-> CallSeen(d)])' =
           [[d \in Callers |-> CallSeen(d)] EXCEPT ![c] = Service!Failure("state")]
  BY SeenAsOperators DEF Service!Failure, Failure
<1> QED
  BY <1>1, <1>2 DEF Service!NotReady

LEMMA BeginSeen ==
  ASSUME EngineInv, NEW c \in Callers, NEW r \in Requests, Begin(c, r)
  PROVE  Service!Begin(c)
<1> DEFINE new == Call("convert", r)
<1>1. /\ CallsOK /\ calls[c] = Idle /\ Becomes(c, new) /\ lock' = lock
      /\ markers' = markers /\ viewport' = viewport
  BY DEF Begin, EngineInv, stateVars
<1>2. Seen(new) = r /\ ~Upserts(new)
  BY DEF Call, Seen, Upserts
<1>3. Seen(calls[c]) = Idle /\ ~Upserts(calls[c])
  BY <1>1 DEF Idle, Seen, Upserts
<1> HIDE DEF new
<1>4. CallsIn(calls') = [CallsIn(calls) EXCEPT ![c] = r]
  BY <1>1, <1>2, CallsSeenChange
<1>5. StoreIn(markers', calls') = StoreIn(markers, calls)
  BY <1>1, <1>2, <1>3, StoreSeenStays
<1>6. [d \in Callers |-> CallSeen(d)][c] = Service!Idle
  <2>1. CallsIn(calls)[c] = Idle
    BY <1>3 DEF CallsIn
  <2> QED
    BY <2>1, SeenAsOperators DEF Service!Idle, Idle
<1>7. /\ (StoreSeen)' = StoreSeen
      /\ ([d \in Callers |-> CallSeen(d)])' = [[d \in Callers |-> CallSeen(d)] EXCEPT ![c] = r]
  BY <1>4, <1>5, SeenAsOperators
<1> QED
  BY <1>1, <1>6, <1>7 DEF Service!Begin

LEMMA ConvertSeen ==
  ASSUME EngineInv, NEW c \in Callers, Convert(c)
  PROVE  UNCHANGED Service!serviceVars \/ Service!Reject(c)
<1> DEFINE r == calls[c].request
<1>1. /\ CallsOK /\ calls[c].op = "convert" /\ lock' = lock
      /\ markers' = markers /\ viewport' = viewport
  BY DEF Convert, EngineInv, stateVars
<1>2. ~Upserts(calls[c]) /\ r \in Request /\ Seen(calls[c]) = r
  BY <1>1, RequestSeen DEF Upserts
<1>3. CASE Converts(r)
  <2> DEFINE new == [calls[c] EXCEPT !.op = "lock"]
  <2>1. new.op = "lock" /\ new.request = r
    BY <1>1, <1>3, CallMoves
  <2>2. Becomes(c, new)
    BY <1>3 DEF Convert
  <2> HIDE DEF new
  <2>3. ~Upserts(new) /\ Seen(new) = r
    BY <2>1 DEF Upserts, Seen
  <2>4. CallsIn(calls') = [CallsIn(calls) EXCEPT ![c] = r]
    BY <1>1, <2>2, <2>3, CallsSeenChange
  <2>5. CallsIn(calls') = CallsIn(calls)
    BY <1>2, <2>4 DEF CallsIn
  <2>6. StoreIn(markers', calls') = StoreIn(markers, calls)
    BY <1>1, <1>2, <2>2, <2>3, StoreSeenStays
  <2> QED
    BY <1>1, <2>5, <2>6, SeesNothing
<1>4. CASE ~Converts(r)
  <2> DEFINE new == Failure("invalid input")
  <2>1. ~Upserts(new) /\ Seen(new) = new
    BY DEF Failure, Upserts, Seen
  <2>2. Becomes(c, new)
    BY <1>4 DEF Convert
  <2>3. CallsIn(calls') = [CallsIn(calls) EXCEPT ![c] = new]
    BY <1>1, <2>1, <2>2, CallsSeenChange
  <2>4. StoreIn(markers', calls') = StoreIn(markers, calls)
    BY <1>1, <1>2, <2>1, <2>2, StoreSeenStays
  <2>5. ~Service!Valid(r)
    BY <1>2, <1>4, ChecksAgree
  <2> QED
    BY <1>1, <1>2, <2>3, <2>4, <2>5, SeesReject
<1> QED
  BY <1>3, <1>4

LEMMA EndSeen ==
  ASSUME EngineInv, NEW c \in Callers, End(c)
  PROVE  Service!End(c)
<1>1. /\ CallsOK /\ calls[c].op \in {"answer", "failure"} /\ Becomes(c, Idle)
      /\ markers' = markers /\ viewport' = viewport
  BY DEF End, EngineInv, stateVars
<1>2. ~Upserts(Idle) /\ Seen(Idle) = Idle
  BY DEF Idle, Upserts, Seen
<1>3. ~Upserts(calls[c]) /\ Seen(calls[c]) = calls[c]
  BY <1>1 DEF Upserts, Seen
<1> HIDE DEF Idle
<1>4. CallsIn(calls') = [CallsIn(calls) EXCEPT ![c] = Idle]
  BY <1>1, <1>2, CallsSeenChange
<1>5. StoreIn(markers', calls') = StoreIn(markers, calls)
  BY <1>1, <1>2, <1>3, StoreSeenStays
<1>6. [d \in Callers |-> CallSeen(d)][c].op \in {"answer", "failure"}
  <2>1. CallsIn(calls)[c] = calls[c]
    BY <1>3 DEF CallsIn
  <2> QED
    BY <1>1, <2>1, SeenAsOperators
<1>7. /\ (StoreSeen)' = StoreSeen
      /\ ([d \in Callers |-> CallSeen(d)])' =
           [[d \in Callers |-> CallSeen(d)] EXCEPT ![c] = Service!Idle]
  BY <1>4, <1>5, SeenAsOperators DEF Service!Idle, Idle
<1> QED
  BY <1>1, <1>6, <1>7 DEF Service!End

(* An upsert has its effect when it gets the lock.                         *)
LEMMA LockSeen ==
  ASSUME EngineInv, NEW c \in Callers, Lock(c)
  PROVE  UNCHANGED Service!serviceVars \/ Service!Effect(c)
<1> DEFINE r == calls[c].request
           new == [calls[c] EXCEPT !.op = "run"]
<1>1. /\ CallsOK /\ calls[c].op = "lock" /\ lock = {} /\ Becomes(c, new)
      /\ markers' = markers /\ viewport' = viewport /\ StoreOK(markers)
  BY DEF Lock, EngineInv, stateVars
<1>2. ~Upserts(calls[c]) /\ r \in Request /\ Seen(calls[c]) = r
  BY <1>1, RequestSeen DEF Upserts
<1>3. Converts(r)
  BY <1>1, CallFields
<1>4. new.op = "run" /\ new.request = r
  BY <1>1, <1>3, CallMoves
<1> HIDE DEF new
<1>5. CASE r.op # "upsert"
  <2>1. ~Upserts(new) /\ Seen(new) = r
    BY <1>4, <1>5 DEF Upserts, Seen
  <2>2. CallsIn(calls') = [CallsIn(calls) EXCEPT ![c] = r]
    BY <1>1, <2>1, CallsSeenChange
  <2>3. CallsIn(calls') = CallsIn(calls)
    BY <1>2, <2>2 DEF CallsIn
  <2>4. StoreIn(markers', calls') = StoreIn(markers, calls)
    BY <1>1, <1>2, <2>1, StoreSeenStays
  <2> QED
    BY <1>1, <2>3, <2>4, SeesNothing
<1>6. CASE r.op = "upsert"
  <2>1. Upserts(new) /\ Seen(new) = Answer(<<>>)
    BY <1>4, <1>6 DEF Upserts, Seen
  <2>2. CallsIn(calls') = [CallsIn(calls) EXCEPT ![c] = Answer(<<>>)]
    BY <1>1, <2>1, CallsSeenChange
  <2>3. UpsertingIn(calls) = {} /\ UpsertingIn(calls') = {c}
    BY <1>1, <2>1, UpserterHasLock, UpsertingChanges
  <2>4. calls'[c].request = r
    BY <1>1, <1>4 DEF Becomes, CallsOK
  <2>5. StoreIn(markers', calls') = InsertedAll(markers, r.markers)
    BY <1>1, <2>3, <2>4, StoreOne
  <2>6. r.markers \in Seq(Marker)
    <3> HIDE DEF r
    <3>1. r \in [op : {"replace", "upsert"}, markers : Seq(Marker)]
      BY <1>2, <1>6, RequestFields
    <3> QED
      BY <3>1
  <2>7. StoreSeen = markers
    BY <2>3, SeenAsOperators DEF StoreIn
  <2> HIDE DEF r
  <2>8. InsertedAll(markers, r.markers) = Service!Merged(markers, r.markers)
    BY <1>1, <2>6, InsertedAllMerges DEF StoreOK
  <2>9. Service!StoreAfter(r) = Service!Merged(markers, r.markers)
    BY <1>6, <2>7 DEF Service!StoreAfter
  <2>10. Service!Result(r) = <<>>
    BY <1>6 DEF Service!Result
  <2>11. Service!Valid(r)
    BY <1>2, <1>3, <1>6, ChecksAgree
  <2>12. StoreIn(markers', calls') = Service!StoreAfter(r)
    BY <2>5, <2>8, <2>9
  <2>13. CallsIn(calls') = [CallsIn(calls) EXCEPT ![c] = Answer(Service!Result(r))]
    BY <2>2, <2>10
  <2>14. r = calls[c].request
    BY DEF r
  <2>15. Service!Effect(c)
    BY <1>1, <1>2, <1>6, <2>11, <2>12, <2>13, <2>14, SeesEffect
  <2> QED
    BY <2>15
<1> QED
  BY <1>5, <1>6

(* While it goes through its batch, the map is seen as it will be.         *)
LEMMA UpsertSeen ==
  ASSUME EngineInv, NEW c \in Callers, UpsertMarker(c)
  PROVE  UNCHANGED Service!serviceVars
<1> DEFINE batch == calls[c].request.markers
           new == [calls[c] EXCEPT !.request.markers = Tail(batch)]
<1>1. /\ CallsOK /\ Runs(c, "upsert") /\ viewport' = viewport
      /\ markers = [id \in DOMAIN markers |-> markers[id]]
  BY DEF UpsertMarker, EngineInv, StoreOK
<1>2. Upserts(calls[c]) /\ Seen(calls[c]) = Answer(<<>>)
  BY <1>1 DEF Runs, Upserts, Seen
<1>3. UpsertingIn(calls) = {c}
  BY <1>1, <1>2, UpserterHasLock
<1>4. StoreIn(markers, calls) = InsertedAll(markers, batch)
  BY <1>3, StoreOne
<1>5. CASE batch = <<>>
  <2>1. Becomes(c, Answer(<<>>)) /\ markers' = markers
    BY <1>5 DEF UpsertMarker, Return
  <2>2. ~Upserts(Answer(<<>>)) /\ Seen(Answer(<<>>)) = Answer(<<>>)
    BY DEF Upserts, Seen, Answer
  <2>3. CallsIn(calls') = [CallsIn(calls) EXCEPT ![c] = Answer(<<>>)]
    BY <1>1, <2>1, <2>2, CallsSeenChange
  <2>4. UpsertingIn(calls') = {}
    BY <1>1, <1>3, <2>1, <2>2, UpsertingChanges
  <2>5. StoreIn(markers', calls') = markers
    BY <2>1, <2>4 DEF StoreIn
  <2>6. StoreIn(markers, calls) = markers
    BY <1>1, <1>4, <1>5, NothingMerged
  <2>7. CallsIn(calls') = CallsIn(calls)
    BY <1>2, <2>3 DEF CallsIn
  <2> QED
    BY <1>1, <2>5, <2>6, <2>7, SeesNothing
<1>6. CASE batch # <<>>
  <2>1. Becomes(c, new) /\ markers' = Inserted(markers, Head(batch))
    BY <1>6 DEF UpsertMarker
  <2>2. /\ new.op = "run" /\ new.request.op = "upsert" /\ new.request.markers = Tail(batch)
        /\ batch \in Seq(Marker)
    BY <1>1, <1>6, BatchShrinks
  <2> HIDE DEF new
  <2>3. Upserts(new) /\ Seen(new) = Answer(<<>>)
    BY <2>2 DEF Upserts, Seen
  <2>4. CallsIn(calls') = [CallsIn(calls) EXCEPT ![c] = Answer(<<>>)]
    BY <1>1, <2>1, <2>3, CallsSeenChange
  <2>5. CallsIn(calls') = CallsIn(calls)
    BY <1>2, <2>4 DEF CallsIn
  <2>6. UpsertingIn(calls') = {c}
    BY <1>1, <1>3, <2>1, <2>3, UpsertingChanges
  <2>7. calls'[c].request.markers = Tail(batch)
    BY <1>1, <2>1, <2>2 DEF Becomes, CallsOK
  <2>8. StoreIn(markers', calls') = InsertedAll(Inserted(markers, Head(batch)), Tail(batch))
    BY <2>1, <2>6, <2>7, StoreOne
  <2> HIDE DEF batch
  <2>9. InsertedAll(Inserted(markers, Head(batch)), Tail(batch)) = InsertedAll(markers, batch)
    BY <1>1, <1>6, <2>2, MergedOneFirst
  <2> QED
    BY <1>1, <1>4, <2>5, <2>8, <2>9, SeesNothing
<1> QED
  BY <1>5, <1>6

(* Every other call that runs and answers.                                 *)
LEMMA AnswerSeen ==
  ASSUME EngineInv, NEW c \in Callers, calls[c].op = "run", NEW r, r = calls[c].request,
         r.op # "upsert", NEW answer, answer.op \in {"answer", "failure"}, Return(c, answer)
  PROVE  /\ CallsOK /\ StoreOK(markers) /\ ~Upserts(calls[c]) /\ r \in Request /\ Converts(r)
         /\ StoreSeen = markers
         /\ StoreIn(markers, calls) = markers /\ StoreIn(markers', calls') = markers'
         /\ CallsIn(calls') = [CallsIn(calls) EXCEPT ![c] = answer]
<1>1. CallsOK /\ StoreOK(markers) /\ ~Upserts(calls[c])
  BY DEF EngineInv, Upserts
<1>2. r \in Request /\ Converts(r)
  BY <1>1, CallFields
<1>3. ~Upserts(answer) /\ Seen(answer) = answer /\ Becomes(c, answer)
  BY DEF Upserts, Seen, Return
<1>4. StoreIn(markers, calls) = markers /\ StoreIn(markers', calls') = markers'
  BY <1>1, <1>3, StoreSeenAsIs
<1>5. CallsIn(calls') = [CallsIn(calls) EXCEPT ![c] = answer]
  BY <1>1, <1>3, CallsSeenChange
<1>6. StoreSeen = markers
  BY <1>4, SeenAsOperators
<1> QED
  BY <1>1, <1>2, <1>4, <1>5, <1>6

LEMMA SetViewportSeen ==
  ASSUME EngineInv, NEW c \in Callers, SetViewport(c)
  PROVE  Service!Effect(c)
<1>1. PICK r : r = calls[c].request
  OBVIOUS
<1>2. /\ calls[c].op = "run" /\ r.op = "setViewport" /\ Return(c, Answer(<<>>))
      /\ viewport' = [bounds |-> r.bounds, zoom |-> r.zoom] /\ markers' = markers
  BY <1>1 DEF SetViewport, Runs
<1>3. Answer(<<>>).op = "answer"
  BY DEF Answer
<1>4. /\ CallsOK /\ ~Upserts(calls[c]) /\ r \in Request /\ Converts(r)
      /\ StoreSeen = markers /\ StoreIn(markers', calls') = markers'
      /\ CallsIn(calls') = [CallsIn(calls) EXCEPT ![c] = Answer(<<>>)]
  BY <1>1, <1>2, <1>3, AnswerSeen
<1>5. Service!Valid(r) /\ Service!Result(r) = <<>> /\ Service!StoreAfter(r) = markers
  BY <1>2, <1>4, ChecksAgree DEF Service!Result, Service!StoreAfter
<1> QED
  BY <1>1, <1>2, <1>4, <1>5, SeesEffect

LEMMA ReplaceSeen ==
  ASSUME EngineInv, NEW c \in Callers, ReplaceMarkers(c)
  PROVE  Service!Effect(c)
<1>1. PICK r : r = calls[c].request
  OBVIOUS
<1>2. /\ calls[c].op = "run" /\ r.op = "replace" /\ Return(c, Answer(<<>>))
      /\ viewport' = viewport /\ markers' = InsertedAll([id \in {} |-> id], r.markers)
  BY <1>1 DEF ReplaceMarkers, Runs
<1>3. Answer(<<>>).op = "answer"
  BY DEF Answer
<1>4. /\ CallsOK /\ ~Upserts(calls[c]) /\ r \in Request /\ Converts(r)
      /\ StoreIn(markers', calls') = markers'
      /\ CallsIn(calls') = [CallsIn(calls) EXCEPT ![c] = Answer(<<>>)]
  BY <1>1, <1>2, <1>3, AnswerSeen
<1>5. Service!Valid(r) /\ Service!Result(r) = <<>>
  BY <1>2, <1>4, ChecksAgree DEF Service!Result
<1>6. Service!StoreAfter(r) = Service!Merged([id \in {} |-> id], r.markers)
  BY <1>2 DEF Service!StoreAfter, Service!NoMarkers
<1>7. r.markers \in Seq(Marker)
  <2>1. r \in [op : {"replace", "upsert"}, markers : Seq(Marker)]
    BY <1>2, <1>4, RequestFields
  <2> QED
    BY <2>1
<1>8. markers' = Service!StoreAfter(r)
  <2> DEFINE none == [id \in {} |-> id]
  <2>1. none = [id \in DOMAIN none |-> none[id]]
    OBVIOUS
  <2> HIDE DEF none
  <2>2. InsertedAll(none, r.markers) = Service!Merged(none, r.markers)
    BY <1>7, <2>1, InsertedAllMerges
  <2> QED
    BY <1>2, <1>6, <2>2 DEF none
<1> QED
  BY <1>1, <1>2, <1>4, <1>5, <1>8, SeesEffect

LEMMA RemoveSeen ==
  ASSUME EngineInv, NEW c \in Callers, RemoveMarker(c)
  PROVE  Service!Effect(c)
<1>1. PICK r : r = calls[c].request
  OBVIOUS
<1>2. /\ calls[c].op = "run" /\ r.op = "remove" /\ Return(c, Answer(<<>>))
      /\ viewport' = viewport
  BY <1>1 DEF RemoveMarker, Runs
<1>3. Answer(<<>>).op = "answer"
  BY DEF Answer
<1>4. /\ CallsOK /\ ~Upserts(calls[c]) /\ r \in Request /\ Converts(r)
      /\ StoreSeen = markers /\ StoreIn(markers', calls') = markers'
      /\ CallsIn(calls') = [CallsIn(calls) EXCEPT ![c] = Answer(<<>>)]
  BY <1>1, <1>2, <1>3, AnswerSeen
<1>5. Service!Valid(r) /\ Service!Result(r) = <<>> 
  BY <1>2, <1>4, ChecksAgree DEF Service!Result
<1>6. Service!StoreAfter(r) = [id \in DOMAIN markers \ {r.id} |-> markers[id]]
  BY <1>2, <1>4 DEF Service!StoreAfter
<1>7. markers' = [id \in DOMAIN markers \ {r.id} |-> markers[id]]
  BY <1>1 DEF RemoveMarker
<1> QED
  BY <1>1, <1>2, <1>4, <1>5, <1>6, <1>7, SeesEffect

LEMMA ClearSeen ==
  ASSUME EngineInv, NEW c \in Callers, ClearMarkers(c)
  PROVE  Service!Effect(c)
<1>1. PICK r : r = calls[c].request
  OBVIOUS
<1>2. /\ calls[c].op = "run" /\ r.op = "clear" /\ Return(c, Answer(<<>>))
      /\ viewport' = viewport /\ markers' = [id \in {} |-> id]
  BY <1>1 DEF ClearMarkers, Runs
<1>3. Answer(<<>>).op = "answer"
  BY DEF Answer
<1>4. /\ CallsOK /\ ~Upserts(calls[c]) /\ r \in Request /\ Converts(r)
      /\ StoreIn(markers', calls') = markers'
      /\ CallsIn(calls') = [CallsIn(calls) EXCEPT ![c] = Answer(<<>>)]
  BY <1>1, <1>2, <1>3, AnswerSeen
<1>5. Service!Valid(r) /\ Service!Result(r) = <<>> /\ Service!StoreAfter(r) = markers'
  BY <1>2, <1>4, ChecksAgree DEF Service!Result, Service!StoreAfter, Service!NoMarkers
<1> QED
  BY <1>1, <1>2, <1>4, <1>5, SeesEffect

(* A query with an answer, and one without.                                *)
LEMMA QueryAnswered ==
  ASSUME EngineInv, NEW c \in Callers, calls[c].op = "run", NEW r, r = calls[c].request,
         r.op \in {"visible", "clustered", "clusteredAll"},
         r.op \in {"visible", "clustered"} => viewport # NoViewport,
         r.op = "clusteredAll" => ValidZoom(r.zoom),
         UNCHANGED stateVars, NEW items, Return(c, Answer(items)),
         StoreSeen = markers => items = Service!Result(r)
  PROVE  Service!Effect(c)
<1>1. markers' = markers /\ viewport' = viewport /\ r.op \notin {"upsert", "setViewport"}
  BY DEF stateVars
<1>2. Answer(items).op = "answer"
  BY DEF Answer
<1>3. /\ CallsOK /\ ~Upserts(calls[c]) /\ r \in Request /\ Converts(r)
      /\ StoreSeen = markers /\ StoreIn(markers', calls') = markers'
      /\ CallsIn(calls') = [CallsIn(calls) EXCEPT ![c] = Answer(items)]
  BY <1>1, <1>2, AnswerSeen
<1>4. Service!Valid(r)
  BY <1>3, ChecksAgree
<1>5. Service!StoreAfter(r) = markers
  BY <1>3 DEF Service!StoreAfter
<1>6. items = Service!Result(r)
  BY <1>3
<1>7. StoreIn(markers', calls') = Service!StoreAfter(r)
  BY <1>1, <1>3, <1>5
<1>8. CallsIn(calls') = [CallsIn(calls) EXCEPT ![c] = Answer(Service!Result(r))]
  BY <1>3, <1>6
<1> QED
  BY <1>1, <1>3, <1>4, <1>7, <1>8, SeesEffect

LEMMA QueryWithoutViewport ==
  ASSUME EngineInv, NEW c \in Callers, calls[c].op = "run",
         calls[c].request.op \in {"visible", "clustered"}, viewport = NoViewport,
         UNCHANGED stateVars, Return(c, Failure("state"))
  PROVE  Service!NotReady(c)
<1>1. markers' = markers /\ viewport' = viewport
  BY DEF stateVars
<1>2. Failure("state").op = "failure"
  BY DEF Failure
<1>3. calls[c].request.op # "upsert"
  OBVIOUS
<1>4. /\ CallsOK /\ StoreIn(markers, calls) = markers /\ StoreIn(markers', calls') = markers'
      /\ CallsIn(calls') = [CallsIn(calls) EXCEPT ![c] = Failure("state")]
  BY <1>2, <1>3, AnswerSeen
<1>5. StoreIn(markers', calls') = StoreIn(markers, calls)
  BY <1>1, <1>4
<1> QED
  BY <1>1, <1>4, <1>5, SeesNotReady

LEMMA VisibleSeen ==
  ASSUME EngineInv, NEW c \in Callers, VisibleMarkers(c)
  PROVE  Service!Effect(c) \/ Service!NotReady(c)
<1>1. PICK r : r = calls[c].request
  OBVIOUS
<1>2. calls[c].op = "run" /\ r.op = "visible" /\ UNCHANGED stateVars
  BY <1>1 DEF VisibleMarkers, Runs
<1>3. CASE viewport = NoViewport
  <2>1. Return(c, Failure("state"))
    BY <1>3 DEF VisibleMarkers
  <2> QED
    BY <1>1, <1>2, <1>3, <2>1, QueryWithoutViewport
<1>4. CASE viewport # NoViewport
  <2>1. Return(c, Answer(MarkersInViewport))
    BY <1>4 DEF VisibleMarkers
  <2>2. ASSUME StoreSeen = markers PROVE MarkersInViewport = Service!Result(r)
    <3>1. StoreOK(markers) /\ ValidZoom(viewport.zoom)
      BY <1>4 DEF EngineInv, ViewportOK
    <3> DEFINE ids == Service!ShownIds
    <3>2. ids \in SUBSET DOMAIN markers /\ MarkersInViewport = ById(Having(ids))
      BY <2>2, <3>1, ShownAgree
    <3>3. Service!Result(r) = [i \in 1..Cardinality(ids) |-> markers[Service!InOrder(ids)[i]]]
      BY <1>2, <2>2, CountsAgree DEF Service!Result
    <3> HIDE DEF ids
    <3>4. ById(Having(ids)) = [i \in 1..Cardinality(ids) |-> markers[Service!InOrder(ids)[i]]]
      BY <3>1, <3>2, MarkersAnswered
    <3> QED
      BY <3>2, <3>3, <3>4
  <2> QED
    BY <1>1, <1>2, <1>4, <2>1, <2>2, QueryAnswered
<1> QED
  BY <1>3, <1>4

LEMMA ClusteredSeen ==
  ASSUME EngineInv, NEW c \in Callers, ClusteredMarkers(c)
  PROVE  Service!Effect(c) \/ Service!NotReady(c)
<1>1. PICK r : r = calls[c].request
  OBVIOUS
<1>2. calls[c].op = "run" /\ r.op = "clustered" /\ UNCHANGED stateVars
  BY <1>1 DEF ClusteredMarkers, Runs
<1>3. CASE viewport = NoViewport
  <2>1. Return(c, Failure("state"))
    BY <1>3 DEF ClusteredMarkers
  <2> QED
    BY <1>1, <1>2, <1>3, <2>1, QueryWithoutViewport
<1>4. CASE viewport # NoViewport
  <2> DEFINE items == ClusterMarkers(MarkersInViewport, viewport.zoom)
  <2>1. Return(c, Answer(items))
    BY <1>4 DEF ClusteredMarkers
  <2>2. ASSUME StoreSeen = markers PROVE items = Service!Result(r)
    <3>1. StoreOK(markers) /\ ValidZoom(viewport.zoom)
      BY <1>4 DEF EngineInv, ViewportOK
    <3> DEFINE ids == Service!ShownIds
    <3>2. ids \in SUBSET DOMAIN markers /\ MarkersInViewport = ById(Having(ids))
      BY <2>2, <3>1, ShownAgree
    <3>3. Service!Result(r) = Service!Items(ids, viewport.zoom)
      BY <1>2 DEF Service!Result
    <3> HIDE DEF ids
    <3>4. ClusterMarkers(ById(Having(ids)), viewport.zoom) = Service!Items(ids, viewport.zoom)
      BY <2>2, <3>1, <3>2, ClustersAgree
    <3> QED
      BY <3>2, <3>3, <3>4
  <2> HIDE DEF items
  <2> QED
    BY <1>1, <1>2, <1>4, <2>1, <2>2, QueryAnswered
<1> QED
  BY <1>3, <1>4

LEMMA ClusteredAllSeen ==
  ASSUME EngineInv, NEW c \in Callers, ClusteredAll(c)
  PROVE  Service!Effect(c) \/ Service!Reject(c)
<1>1. PICK r : r = calls[c].request
  OBVIOUS
<1>2. /\ calls[c].op = "run" /\ r.op = "clusteredAll" /\ UNCHANGED stateVars
      /\ markers' = markers /\ viewport' = viewport
  BY <1>1 DEF ClusteredAll, Runs, stateVars
<1> DEFINE items == ClusterMarkers(MarkersAtZoom(r.zoom), r.zoom)
<1>3. CASE ~ValidZoom(r.zoom)
  <2> DEFINE answer == Failure("invalid input")
  <2>1. Return(c, answer)
    <3>1. Return(c, IF ~ValidZoom(r.zoom) THEN Failure("invalid input") ELSE Answer(items))
      BY <1>1 DEF ClusteredAll
    <3> HIDE DEF items
    <3> QED
      BY <1>3, <3>1, Zenon
  <2>2. answer.op = "failure"
    BY DEF Failure
  <2> HIDE DEF answer
  <2>3. /\ CallsOK /\ ~Upserts(calls[c]) /\ r \in Request
        /\ StoreIn(markers, calls) = markers /\ StoreIn(markers', calls') = markers'
        /\ CallsIn(calls') = [CallsIn(calls) EXCEPT ![c] = answer]
    BY <1>1, <1>2, <2>1, <2>2, AnswerSeen
  <2>4. ~Service!Valid(r)
    BY <1>2, <1>3, <2>3, ChecksAgree
  <2>5. StoreIn(markers', calls') = StoreIn(markers, calls)
    BY <1>2, <2>3
  <2>6. CallsIn(calls') = [CallsIn(calls) EXCEPT ![c] = Failure("invalid input")]
    BY <2>3 DEF answer
  <2> QED
    BY <1>1, <1>2, <2>3, <2>4, <2>5, <2>6, SeesReject
<1>4. CASE ValidZoom(r.zoom)
  <2>1. Return(c, Answer(items))
    <3>1. Return(c, IF ~ValidZoom(r.zoom) THEN Failure("invalid input") ELSE Answer(items))
      BY <1>1 DEF ClusteredAll
    <3> HIDE DEF items
    <3> QED
      BY <1>4, <3>1, Zenon
  <2>2. ASSUME StoreSeen = markers PROVE items = Service!Result(r)
    <3>1. StoreOK(markers) /\ r.zoom \in Int
      BY <1>4 DEF EngineInv, ValidZoom
    <3> DEFINE ids == Service!VisibleIds(r.zoom)
    <3>2. ids \in SUBSET DOMAIN markers /\ AtZoom(r.zoom) = Having(ids)
      BY <2>2, <3>1, VisibleAgree
    <3>3. MarkersAtZoom(r.zoom) = ById(Having(ids))
      BY <3>2 DEF MarkersAtZoom
    <3>4. Service!Result(r) = Service!Items(ids, r.zoom)
      BY <1>2 DEF Service!Result
    <3> HIDE DEF ids
    <3>5. ClusterMarkers(ById(Having(ids)), r.zoom) = Service!Items(ids, r.zoom)
      BY <2>2, <3>1, <3>2, ClustersAgree
    <3> QED
      BY <3>3, <3>4, <3>5
  <2> HIDE DEF items
  <2> QED
    BY <1>1, <1>2, <1>4, <2>1, <2>2, QueryAnswered
<1> QED
  BY <1>3, <1>4

LEMMA SeesNext ==
  ASSUME EngineInv, [EngineNext]_engineVars
  PROVE  [Service!Next]_Service!serviceVars
<1>1. CASE EngineNext
  <2> PICK c \in Callers :
        \/ \E r \in Requests : Begin(c, r)
        \/ Convert(c) \/ Lock(c)
        \/ SetViewport(c) \/ ReplaceMarkers(c) \/ UpsertMarker(c)
        \/ RemoveMarker(c) \/ ClearMarkers(c)
        \/ VisibleMarkers(c) \/ ClusteredMarkers(c) \/ ClusteredAll(c)
        \/ End(c)
    BY <1>1 DEF EngineNext
  <2>1. \/ UNCHANGED Service!serviceVars
        \/ Service!Begin(c) \/ Service!Reject(c) \/ Service!NotReady(c) \/ Service!Effect(c)
        \/ Service!End(c)
    BY BeginSeen, ConvertSeen, LockSeen, SetViewportSeen, ReplaceSeen, UpsertSeen, RemoveSeen,
       ClearSeen, VisibleSeen, ClusteredSeen, ClusteredAllSeen, EndSeen
  <2> QED
    BY <2>1 DEF Service!Next
<1>2. CASE UNCHANGED engineVars
  <2>1. UNCHANGED <<markers, viewport, calls>>
    BY <1>2 DEF engineVars, stateVars
  <2>2. StoreIn(markers', calls') = StoreIn(markers, calls) /\ CallsIn(calls') = CallsIn(calls)
    BY <2>1
  <2> QED
    BY <2>1, <2>2, SeesNothing
<1> QED
  BY <1>1, <1>2

(* The calls of OsmTileEngine that deal with markers look atomic: each     *)
(* takes effect at one instant between its start and its return, an        *)
(* upsert's when it gets the lock, and a query answers with exactly the    *)
(* markers and clusters that the calls before it left visible.             *)
THEOREM EngineRefines == EngineSpec => EngineIsAtomic
<1>1. EngineInit => Service!Init
  BY SeesInit
<1>2. EngineInv /\ [EngineNext]_engineVars => [Service!Next]_Service!serviceVars
  BY SeesNext
<1> QED
  BY <1>1, <1>2, InvAlways, PTL DEF EngineSpec, EngineIsAtomic, Service!Spec

=============================================================================
