------------------------ MODULE RendererWorkerProofs ------------------------
(***************************************************************************)
(* The invariant of the renderer worker, for every set of tiles, views,    *)
(* limits and budgets: every step of the worker's thread keeps it. The     *)
(* steps of the UI and of the loader only change the two channels;         *)
(* RendererWorkerClientProofs and TilePipelineProofs add them.             *)
(*                                                                         *)
(* It rests on what the operations of SizedLruCache do to the two caches of*)
(* the worker, which comes first: each takes a well-formed cache to a      *)
(* well-formed cache, and its keys change as the worker expects.           *)
(***************************************************************************)
EXTENDS RendererWorker, FoldLemmas, SequenceTheorems

---------------------------------------------------------------------------
(* The caches.                                                             *)

(* The sequences that list the tiles of K, each once.                      *)
Orders(K) ==
  {o \in Seq(Tiles) :
     /\ {o[i] : i \in DOMAIN o} = K
     /\ \A i, j \in DOMAIN o : o[i] = o[j] => i = j}

TilesSize(K) == Lru!SizeOf(TileBytes, K)

(* The well-formed cache of the tiles of K, last used in the order o.      *)
Cache(e, o, b, l) == [entries |-> e, order |-> o, bytes |-> b, limit |-> l]

CacheOf(K, o, limit) ==
  Cache([t \in K |-> TileBytes[t]], o, TilesSize(K), limit)

Caches(limit) ==
  {c \in {CacheOf(p[1], p[2], limit) : p \in (SUBSET Tiles) \X Seq(Tiles)} :
     c.order \in Orders(Lru!Keys(c))}

---------------------------------------------------------------------------
(* Sizes.                                                                  *)

Pick(s) == CHOOSE x \in s : TRUE

(* SizeOf as a recursive function on the subsets of its set.               *)
LEMMA SizeIsFold ==
  ASSUME NEW S, IsFiniteSet(S), NEW f, \A x \in S : f[x] \in Nat
  PROVE  \E g \in [SUBSET S -> Nat] :
           /\ Lru!SizeOf(f, S) = g[S]
           /\ IsFold(g, SUBSET S, 0, [p \in S \X Nat |-> f[p[1]] + p[2]],
                     [s \in SUBSET S |-> Pick(s)])
<1> DEFINE pick == [s \in SUBSET S |-> Pick(s)]
           F == [p \in S \X Nat |-> f[p[1]] + p[2]]
           IsIter(g) == g = [s \in SUBSET S |->
                               IF s = {} THEN 0
                               ELSE f[Pick(s)] + g[s \ {Pick(s)}]]
           iter == CHOOSE g : IsIter(g)
<1>1. Lru!SizeOf(f, S) = iter[S]
  BY DEF Lru!SizeOf, Lru!MapThenSumSet, Lru!MapThenFoldSet, Pick
<1>2. \A s \in SUBSET S : s # {} => pick[s] \in s /\ pick[s] = Pick(s)
  BY DEF Pick
<1>3. F \in [S \X Nat -> Nat]
  OBVIOUS
<1>4. PICK g \in [SUBSET S -> Nat] : IsFold(g, SUBSET S, 0, F, pick)
  <2>1. Picks(pick, S)
    BY <1>2 DEF Picks
  <2> HIDE DEF F, pick
  <2> QED
    BY <1>3, <2>1, FoldExists
<1>5. IsIter(g)
  <2>1. ASSUME NEW s \in SUBSET S, s # {}
        PROVE  g[s] = f[Pick(s)] + g[s \ {Pick(s)}]
    <3>1. g[s] = F[<<pick[s], g[s \ {pick[s]}]>>]
      BY <1>4, <2>1 DEF IsFold
    <3>2. pick[s] = Pick(s) /\ Pick(s) \in S
      BY <1>2, <2>1
    <3> QED
      BY <3>1, <3>2
  <2>2. g[{}] = 0
    BY <1>4 DEF IsFold
  <2> QED
    BY <2>1, <2>2
<1>6. IsIter(iter)
  <2> HIDE DEF IsIter
  <2> QED
    BY <1>5
<1> HIDE DEF iter
<1> DEFINE G == {s \in SUBSET S : iter[s] \in Nat}
<1>7. \A s \in SUBSET S : s \in G
  <2>1. ASSUME NEW s \in SUBSET S, \A u \in (SUBSET s) \ {s} : u \in G
        PROVE  s \in G
    <3>1. CASE s = {}
      BY <3>1, <1>6
    <3>2. CASE s # {}
      <4>1. Pick(s) \in S /\ s \ {Pick(s)} \in G
        BY <2>1, <3>2, <1>2
      <4>2. iter[s] = f[Pick(s)] + iter[s \ {Pick(s)}]
        BY <3>2, <1>6
      <4> QED
        BY <4>1, <4>2
    <3> QED
      BY <3>1, <3>2
  <2> HIDE DEF G
  <2> QED
    BY <2>1, SubsetsBelong
<1>8. iter \in [SUBSET S -> Nat]
  BY <1>6, <1>7
<1>9. IsFold(iter, SUBSET S, 0, F, pick)
  <2> SUFFICES ASSUME NEW s \in SUBSET S
               PROVE  iter[s] = IF s = {} THEN 0
                                ELSE F[<<pick[s], iter[s \ {pick[s]}]>>]
    BY DEF IsFold
  <2>1. CASE s = {}
    BY <2>1, <1>6
  <2>2. CASE s # {}
    <3>1. pick[s] = Pick(s) /\ Pick(s) \in S /\ iter[s \ {Pick(s)}] \in Nat
      BY <2>2, <1>2, <1>8
    <3> QED
      BY <3>1, <2>2, <1>6
  <2> QED
    BY <2>1, <2>2
<1> QED
  BY <1>1, <1>8, <1>9

(* SizeOf, element by element, in whatever order.                          *)
LEMMA SizeStep ==
  ASSUME NEW S, IsFiniteSet(S), NEW f, \A x \in S : f[x] \in Nat
  PROVE  /\ Lru!SizeOf(f, S) \in Nat
         /\ S = {} => Lru!SizeOf(f, S) = 0
         /\ S # {} => Lru!SizeOf(f, S)
                        = f[Pick(S)] + Lru!SizeOf(f, S \ {Pick(S)})
<1> DEFINE pick(D) == [s \in SUBSET D |-> Pick(s)]
           F(D) == [p \in D \X Nat |-> f[p[1]] + p[2]]
<1>1. PICK g \in [SUBSET S -> Nat] :
         Lru!SizeOf(f, S) = g[S] /\ IsFold(g, SUBSET S, 0, F(S), pick(S))
  BY SizeIsFold
<1>2. ASSUME S # {}
      PROVE  Lru!SizeOf(f, S) = f[Pick(S)] + Lru!SizeOf(f, S \ {Pick(S)})
  <2> DEFINE T == S \ {Pick(S)}
  <2>1. Pick(S) \in S
    BY <1>2 DEF Pick
  <2>2. IsFiniteSet(T) /\ T \in SUBSET S
    BY FS_RemoveElement
  <2>3. PICK h \in [SUBSET T -> Nat] :
           Lru!SizeOf(f, T) = h[T] /\ IsFold(h, SUBSET T, 0, F(T), pick(T))
    <3>1. \A x \in T : f[x] \in Nat
      OBVIOUS
    <3> QED
      BY <2>2, <3>1, SizeIsFold
  <2>4. IsFold(h, SUBSET T, 0, F(S), pick(S))
    <3> SUFFICES ASSUME NEW s \in SUBSET T
                 PROVE  h[s] = IF s = {} THEN 0
                               ELSE F(S)[<<pick(S)[s], h[s \ {pick(S)[s]}]>>]
      BY DEF IsFold
    <3>1. CASE s = {}
      BY <3>1, <2>3 DEF IsFold
    <3>2. CASE s # {}
      <4>1. h[s] = F(T)[<<pick(T)[s], h[s \ {pick(T)[s]}]>>]
        BY <3>2, <2>3 DEF IsFold
      <4>2. pick(T)[s] = Pick(s) /\ pick(S)[s] = Pick(s) /\ Pick(s) \in T
        BY <3>2, <2>2 DEF Pick
      <4>3. h[s \ {Pick(s)}] \in Nat
        BY <4>2
      <4>4. F(T)[<<Pick(s), h[s \ {Pick(s)}]>>] = F(S)[<<Pick(s), h[s \ {Pick(s)}]>>]
        BY <4>2, <4>3
      <4> QED
        BY <3>2, <4>1, <4>2, <4>4
    <3> QED
      BY <3>1, <3>2
  <2>5. IsFold(g, SUBSET T, 0, F(S), pick(S))
    BY <1>1, <2>2 DEF IsFold
  <2>6. g[T] = h[T]
    <3>1. Picks(pick(S), T)
      BY <2>2 DEF Picks, Pick
    <3> HIDE DEF pick, F, T
    <3> QED
      BY <2>2, <2>4, <2>5, <3>1, FoldUnique
  <2>7. g[S] = F(S)[<<pick(S)[S], g[S \ {pick(S)[S]}]>>]
    BY <1>1, <1>2 DEF IsFold
  <2>8. pick(S)[S] = Pick(S)
    OBVIOUS
  <2>9. g[S] = f[Pick(S)] + g[T]
    BY <2>1, <2>2, <2>7, <2>8
  <2> QED
    BY <1>1, <2>3, <2>6, <2>9
<1>3. S = {} => Lru!SizeOf(f, S) = 0
  BY <1>1 DEF IsFold
<1> QED
  BY <1>1, <1>2, <1>3

(* The size of a set is the size of any one of its elements and the size   *)
(* of the others.                                                          *)
LEMMA SizeSplit ==
  ASSUME NEW S, IsFiniteSet(S), NEW f, \A x \in S : f[x] \in Nat, NEW z \in S
  PROVE  Lru!SizeOf(f, S) = f[z] + Lru!SizeOf(f, S \ {z})
<1> DEFINE G == {T \in SUBSET S : \A x \in T :
                   Lru!SizeOf(f, T) = f[x] + Lru!SizeOf(f, T \ {x})}
<1>1. ASSUME NEW T \in SUBSET S, \A U \in (SUBSET T) \ {T} : U \in G,
             NEW x \in T
      PROVE  Lru!SizeOf(f, T) = f[x] + Lru!SizeOf(f, T \ {x})
  <2> DEFINE y == Pick(T)
             U == T \ {x, y}
  <2>1. IsFiniteSet(T) /\ IsFiniteSet(U)
    BY FS_Subset
  <2>2. y \in T
    BY DEF Pick
  <2>3. Lru!SizeOf(f, T) = f[y] + Lru!SizeOf(f, T \ {y})
    BY <2>1, SizeStep
  <2>4. CASE x = y
    BY <2>3, <2>4
  <2>5. CASE x # y
    <3>1. T \ {y} \in G /\ T \ {x} \in G
      BY <1>1, <2>2
    <3>2. (T \ {y}) \ {x} = U /\ (T \ {x}) \ {y} = U
      OBVIOUS
    <3>3. Lru!SizeOf(f, T \ {y}) = f[x] + Lru!SizeOf(f, U)
      BY <3>1, <3>2, <2>5
    <3>4. Lru!SizeOf(f, T \ {x}) = f[y] + Lru!SizeOf(f, U)
      BY <3>1, <3>2, <2>2, <2>5
    <3>5. Lru!SizeOf(f, U) \in Nat /\ f[x] \in Nat /\ f[y] \in Nat
      <4>1. \A u \in U : f[u] \in Nat
        OBVIOUS
      <4> QED
        BY <2>1, <2>2, <4>1, SizeStep
    <3> QED
      BY <2>3, <3>3, <3>4, <3>5
  <2> QED
    BY <2>4, <2>5
<1>2. ASSUME NEW T \in SUBSET S, \A U \in (SUBSET T) \ {T} : U \in G
      PROVE  T \in G
  BY <1>1, <1>2
<1> HIDE DEF G
<1>3. \A T \in SUBSET S : T \in G
  BY <1>2, SubsetsBelong
<1> QED
  BY <1>3 DEF G

(* Only the sizes of the elements count.                                   *)
LEMMA SizeCongruent ==
  ASSUME NEW S, IsFiniteSet(S), NEW f, NEW g,
         \A x \in S : f[x] \in Nat /\ g[x] = f[x]
  PROVE  Lru!SizeOf(f, S) = Lru!SizeOf(g, S)
<1> DEFINE G == {T \in SUBSET S : Lru!SizeOf(f, T) = Lru!SizeOf(g, T)}
<1>1. ASSUME NEW T \in SUBSET S, \A U \in (SUBSET T) \ {T} : U \in G
      PROVE  T \in G
  <2>1. IsFiniteSet(T) /\ \A x \in T : f[x] \in Nat /\ g[x] \in Nat
    BY FS_Subset
  <2>2. CASE T = {}
    <3>1. Lru!SizeOf(f, T) = 0
      BY <2>1, <2>2, SizeStep
    <3>2. Lru!SizeOf(g, T) = 0
      BY <2>1, <2>2, SizeStep
    <3> QED
      BY <3>1, <3>2
  <2>3. CASE T # {}
    <3>1. Pick(T) \in T
      BY <2>3 DEF Pick
    <3>2. T \ {Pick(T)} \in G
      BY <1>1, <3>1
    <3>3. Lru!SizeOf(f, T) = f[Pick(T)] + Lru!SizeOf(f, T \ {Pick(T)})
      BY <2>1, <2>3, SizeStep
    <3>4. Lru!SizeOf(g, T) = g[Pick(T)] + Lru!SizeOf(g, T \ {Pick(T)})
      BY <2>1, <2>3, SizeStep
    <3> QED
      BY <3>1, <3>2, <3>3, <3>4
  <2> QED
    BY <2>2, <2>3
<1> HIDE DEF G
<1>2. \A T \in SUBSET S : T \in G
  BY <1>1, SubsetsBelong
<1> QED
  BY <1>2 DEF G

(* The sizes of sets of tiles.                                             *)
LEMMA TilesSizes ==
  ASSUME NEW K \in SUBSET Tiles
  PROVE  /\ TilesSize(K) \in Nat
         /\ TilesSize({}) = 0
         /\ \A t \in K : TilesSize(K) = TileBytes[t] + TilesSize(K \ {t})
         /\ \A t \in Tiles \ K :
              TilesSize(K \cup {t}) = TilesSize(K) + TileBytes[t]
<1>1. IsFiniteSet(Tiles) /\ \A t \in Tiles : TileBytes[t] \in Nat
  BY WorkerAssumption
<1>2. \A L \in SUBSET Tiles : IsFiniteSet(L) /\ \A t \in L : TileBytes[t] \in Nat
  BY <1>1, FS_Subset
<1>3. \A L \in SUBSET Tiles : TilesSize(L) \in Nat
  BY <1>2, SizeStep DEF TilesSize
<1>4. TilesSize({}) = 0
  BY <1>2, SizeStep DEF TilesSize
<1>5. \A L \in SUBSET Tiles : \A t \in L :
         TilesSize(L) = TileBytes[t] + TilesSize(L \ {t})
  BY <1>2, SizeSplit DEF TilesSize
<1>6. ASSUME NEW t \in Tiles \ K
      PROVE  TilesSize(K \cup {t}) = TilesSize(K) + TileBytes[t]
  <2>1. (K \cup {t}) \ {t} = K
    OBVIOUS
  <2>2. TilesSize(K \cup {t}) = TileBytes[t] + TilesSize(K)
    BY <1>5, <2>1
  <2> QED
    BY <1>1, <1>3, <2>2
<1> QED
  BY <1>3, <1>4, <1>5, <1>6

(* A larger set is at least as big.                                        *)
LEMMA TilesSizeMonotone ==
  ASSUME NEW L \in SUBSET Tiles, NEW K \in SUBSET L
  PROVE  TilesSize(K) <= TilesSize(L)
<1> DEFINE G == {M \in SUBSET Tiles : K \subseteq M => TilesSize(K) <= TilesSize(M)}
<1>1. ASSUME NEW M \in SUBSET Tiles, \A U \in (SUBSET M) \ {M} : U \in G
      PROVE  M \in G
  <2> SUFFICES ASSUME K \subseteq M, K # M
               PROVE  TilesSize(K) <= TilesSize(M)
    BY TilesSizes
  <2>1. PICK t \in M : t \notin K
    OBVIOUS
  <2>2. M \ {t} \in G
    BY <1>1
  <2>3. TilesSize(M) = TileBytes[t] + TilesSize(M \ {t})
    BY TilesSizes
  <2>4. TilesSize(K) \in Nat /\ TilesSize(M \ {t}) \in Nat /\ TileBytes[t] \in Nat
    BY TilesSizes, WorkerAssumption
  <2> QED
    BY <2>1, <2>2, <2>3, <2>4
<1> HIDE DEF G
<1>2. \A M \in SUBSET Tiles : M \in G
  BY <1>1, SubsetsBelong, WorkerAssumption
<1> QED
  BY <1>2 DEF G

---------------------------------------------------------------------------
(* The order of use.                                                       *)

LEMMA EmptyOrder == <<>> \in Orders({})
  BY DEF Orders

(* Any place of an order can be given up.                                  *)
LEMMA RemoveAtOrder ==
  ASSUME NEW K, NEW o \in Orders(K), NEW i \in DOMAIN o
  PROVE  Lru!RemoveAt(o, i) \in Orders(K \ {o[i]})
<1> DEFINE front == SubSeq(o, 1, i - 1)
           back == SubSeq(o, i + 1, Len(o))
           r == front \o back
<1>1. /\ o \in Seq(Tiles) /\ DOMAIN o = 1..Len(o) /\ Len(o) \in Nat
      /\ {o[j] : j \in DOMAIN o} = K
      /\ \A j, k \in DOMAIN o : o[j] = o[k] => j = k
  BY DEF Orders
<1>2. front \in Seq(Tiles) /\ back \in Seq(Tiles)
  BY <1>1
<1>3. Len(front) = i - 1 /\ Len(back) = Len(o) - i
  BY <1>1
<1> HIDE DEF front, back
<1>4. r \in Seq(Tiles) /\ Len(r) = Len(o) - 1
  <2>1. r \in Seq(Tiles) /\ Len(r) = Len(front) + Len(back)
    BY <1>2, ConcatProperties
  <2> QED
    BY <1>1, <1>3, <2>1
<1>5. \A j \in 1..(Len(o) - 1) : r[j] = o[IF j < i THEN j ELSE j + 1]
  <2> SUFFICES ASSUME NEW j \in 1..(Len(o) - 1)
               PROVE  r[j] = o[IF j < i THEN j ELSE j + 1]
    OBVIOUS
  <2>1. r[j] = IF j <= Len(front) THEN front[j] ELSE back[j - Len(front)]
    BY <1>1, <1>2, <1>3
  <2>2. CASE j < i
    <3>1. front[j] = o[j]
      BY <1>1, <2>2 DEF front
    <3> QED
      BY <1>1, <1>3, <2>1, <2>2, <3>1
  <2>3. CASE ~(j < i)
    <3>1. j - (i - 1) \in 1..(Len(o) - i)
      BY <1>1, <2>3
    <3>2. back[j - (i - 1)] = o[j + 1]
      BY <1>1, <3>1 DEF back
    <3> QED
      BY <1>1, <1>3, <2>1, <2>3, <3>2
  <2> QED
    BY <2>2, <2>3
<1> HIDE DEF r
<1>6. DOMAIN r = 1..(Len(o) - 1)
  BY <1>1, <1>4
<1>7. \A j, k \in DOMAIN r : r[j] = r[k] => j = k
  BY <1>1, <1>5, <1>6
<1>8. {r[j] : j \in DOMAIN r} = K \ {o[i]}
  <2>1. ASSUME NEW j \in DOMAIN r PROVE r[j] \in K \ {o[i]}
    <3> DEFINE k == IF j < i THEN j ELSE j + 1
    <3>1. k \in DOMAIN o /\ k # i /\ r[j] = o[k]
      BY <1>1, <1>5, <1>6
    <3> HIDE DEF k
    <3> QED
      BY <1>1, <3>1
  <2>2. ASSUME NEW t \in K \ {o[i]} PROVE \E j \in DOMAIN r : r[j] = t
    <3>1. PICK k \in DOMAIN o : o[k] = t
      BY <1>1
    <3>2. k # i
      BY <3>1
    <3>3. CASE k < i
      <4>1. k \in DOMAIN r /\ r[k] = o[k]
        BY <1>1, <1>5, <1>6, <3>3
      <4> QED
        BY <3>1, <4>1
    <3>4. CASE k > i
      <4>1. k - 1 \in DOMAIN r /\ r[k - 1] = o[k]
        BY <1>1, <1>5, <1>6, <3>4
      <4> QED
        BY <3>1, <4>1
    <3> QED
      BY <1>1, <3>2, <3>3, <3>4
  <2> QED
    BY <2>1, <2>2
<1>9. Lru!RemoveAt(o, i) = r
  BY DEF Lru!RemoveAt, r, front, back
<1> QED
  BY <1>4, <1>7, <1>8, <1>9 DEF Orders

(* A key that is used leaves its old place.                                *)
LEMMA DropFirstOrder ==
  ASSUME NEW K, NEW o \in Orders(K), NEW t
  PROVE  Lru!DropFirst(o, t) \in Orders(K \ {t})
<1>1. /\ o \in Seq(Tiles) /\ DOMAIN o = 1..Len(o)
      /\ {o[j] : j \in DOMAIN o} = K
      /\ \A j, k \in DOMAIN o : o[j] = o[k] => j = k
  BY DEF Orders
<1>2. CASE \E i \in DOMAIN o : o[i] = t
  <2> DEFINE i == CHOOSE j \in DOMAIN o : Lru!IsFirst(o, j, t)
  <2>1. PICK j \in DOMAIN o : o[j] = t
    BY <1>2
  <2>2. Lru!IsFirst(o, j, t)
    BY <1>1, <2>1 DEF Lru!IsFirst
  <2>3. i \in DOMAIN o /\ o[i] = t
    BY <2>2 DEF Lru!IsFirst
  <2>4. Lru!DropFirst(o, t) = Lru!RemoveAt(o, i)
    BY <1>2 DEF Lru!DropFirst
  <2> HIDE DEF i
  <2> QED
    BY <2>3, <2>4, RemoveAtOrder
<1>3. CASE ~ \E i \in DOMAIN o : o[i] = t
  <2>1. Lru!DropFirst(o, t) = o
    BY <1>3 DEF Lru!DropFirst
  <2>2. K \ {t} = K
    BY <1>1, <1>3
  <2> QED
    BY <2>1, <2>2
<1> QED
  BY <1>2, <1>3

(* A new key goes to the young end.                                        *)
LEMMA AppendOrder ==
  ASSUME NEW K, NEW o \in Orders(K), NEW t \in Tiles, t \notin K
  PROVE  Append(o, t) \in Orders(K \cup {t})
<1> DEFINE r == Append(o, t)
<1>1. /\ o \in Seq(Tiles) /\ DOMAIN o = 1..Len(o) /\ Len(o) \in Nat
      /\ {o[j] : j \in DOMAIN o} = K
      /\ \A j, k \in DOMAIN o : o[j] = o[k] => j = k
  BY DEF Orders
<1>2. /\ r \in Seq(Tiles) /\ DOMAIN r = 1..(Len(o) + 1)
      /\ \A j \in DOMAIN o : r[j] = o[j]
      /\ r[Len(o) + 1] = t
  BY <1>1
<1> HIDE DEF r
<1>3. \A j, k \in DOMAIN r : r[j] = r[k] => j = k
  BY <1>1, <1>2
<1>4. {r[j] : j \in DOMAIN r} = K \cup {t}
  BY <1>1, <1>2
<1> QED
  BY <1>2, <1>3, <1>4 DEF Orders, r

---------------------------------------------------------------------------
(* The operations.                                                         *)

(* A cache whose order is replaced, or all of its fields but its limit.    *)
Reordered(c, p) == [c EXCEPT !.order = p]
Replaced(c, f, a, p) == [c EXCEPT !.entries = f, !.bytes = a, !.order = p]

LEMMA ReplacedParts ==
  ASSUME NEW e, NEW o, NEW b, NEW l, NEW f, NEW a, NEW p
  PROVE  /\ Reordered(Cache(e, o, b, l), p) = Cache(e, p, b, l)
         /\ Replaced(Cache(e, o, b, l), f, a, p) = Cache(f, p, a, l)
<1> DEFINE c == Cache(e, o, b, l)
           c1 == [c EXCEPT !.entries = f]
           c2 == [c1 EXCEPT !.bytes = a]
           c3 == [c2 EXCEPT !.order = p]
<1>1. [c EXCEPT !.order = p] = Cache(e, p, b, l)
  BY DEF Cache
<1>2. [c EXCEPT !.entries = f, !.bytes = a, !.order = p] = c3
  BY DEF Cache
<1>3. c1 = [entries |-> f, order |-> o, bytes |-> b, limit |-> l]
  BY DEF Cache
<1> HIDE DEF c1
<1>4. c2 = [entries |-> f, order |-> o, bytes |-> a, limit |-> l]
  BY <1>3
<1> HIDE DEF c2
<1>5. c3 = [entries |-> f, order |-> p, bytes |-> a, limit |-> l]
  BY <1>4
<1> HIDE DEF c3
<1> QED
  BY <1>1, <1>2, <1>5 DEF Cache, Reordered, Replaced

LEMMA CacheOfKeys ==
  ASSUME NEW limit, NEW K \in SUBSET Tiles, NEW o \in Orders(K)
  PROVE  /\ CacheOf(K, o, limit) \in Caches(limit)
         /\ Lru!Keys(CacheOf(K, o, limit)) = K
<1> DEFINE c == CacheOf(K, o, limit)
<1>1. Lru!Keys(c) = K /\ c.order = o
  BY DEF Lru!Keys, CacheOf, Cache
<1>2. <<K, o>> \in (SUBSET Tiles) \X Seq(Tiles)
  BY DEF Orders
<1>3. c \in {CacheOf(p[1], p[2], limit) : p \in (SUBSET Tiles) \X Seq(Tiles)}
  BY <1>2
<1> HIDE DEF c
<1> QED
  BY <1>1, <1>3 DEF Caches, c

LEMMA CacheParts ==
  ASSUME NEW limit, NEW c \in Caches(limit)
  PROVE  /\ Lru!Keys(c) \in SUBSET Tiles
         /\ c.order \in Orders(Lru!Keys(c))
         /\ c = CacheOf(Lru!Keys(c), c.order, limit)
         /\ c.entries = [t \in Lru!Keys(c) |-> TileBytes[t]]
         /\ c.bytes = TilesSize(Lru!Keys(c))
         /\ c.bytes \in Nat
         /\ c.limit = limit
<1>1. PICK p \in (SUBSET Tiles) \X Seq(Tiles) : c = CacheOf(p[1], p[2], limit)
  BY DEF Caches
<1>2. Lru!Keys(c) = p[1] /\ c.order = p[2]
  BY <1>1 DEF Lru!Keys, CacheOf, Cache
<1>3. c.order \in Orders(Lru!Keys(c))
  BY DEF Caches
<1>4. TilesSize(Lru!Keys(c)) \in Nat
  BY <1>1, <1>2, TilesSizes
<1> QED
  BY <1>1, <1>2, <1>3, <1>4 DEF CacheOf, Cache

(* A new cache is empty.                                                   *)
LEMMA NewCacheKeys ==
  ASSUME NEW limit
  PROVE  /\ Lru!NewCache(limit) \in Caches(limit)
         /\ Lru!Keys(Lru!NewCache(limit)) = {}
         /\ Lru!NewCache(limit).bytes = 0
<1>1. Lru!NewCache(limit) = CacheOf({}, <<>>, limit)
  BY TilesSizes DEF Lru!NewCache, CacheOf, Cache
<1> QED
  BY <1>1, CacheOfKeys, EmptyOrder DEF Lru!NewCache

(* The total counts every entry: removing one never saturates.             *)
LEMMA EntryWithinTotal ==
  ASSUME NEW limit, NEW c \in Caches(limit), NEW t \in Lru!Keys(c)
  PROVE  /\ Lru!SaturatingSub(c.bytes, c.entries[t])
              = TilesSize(Lru!Keys(c) \ {t})
         /\ Lru!DropEntry(c.entries, t)
              = [k \in Lru!Keys(c) \ {t} |-> TileBytes[k]]
<1> DEFINE K == Lru!Keys(c)
<1>1. K \in SUBSET Tiles /\ c.entries = [k \in K |-> TileBytes[k]]
        /\ c.bytes = TilesSize(K)
  BY CacheParts
<1>2. TilesSize(K) = TileBytes[t] + TilesSize(K \ {t})
  BY <1>1, TilesSizes
<1>3. TilesSize(K \ {t}) \in Nat /\ TileBytes[t] \in Nat
  BY <1>1, TilesSizes, WorkerAssumption
<1>4. Lru!SaturatingSub(c.bytes, c.entries[t]) = TilesSize(K \ {t})
  BY <1>1, <1>2, <1>3 DEF Lru!SaturatingSub
<1>5. Lru!DropEntry(c.entries, t) = [k \in K \ {t} |-> TileBytes[k]]
  BY <1>1 DEF Lru!DropEntry
<1> QED
  BY <1>4, <1>5

LEMMA RemoveKeyKeys ==
  ASSUME NEW limit, NEW c \in Caches(limit), NEW t
  PROVE  /\ Lru!RemoveKey(c, t) \in Caches(limit)
         /\ Lru!Keys(Lru!RemoveKey(c, t)) = Lru!Keys(c) \ {t}
<1> DEFINE K == Lru!Keys(c)
<1>1. CASE t \notin K
  BY <1>1 DEF Lru!RemoveKey, Lru!ContainsKey
<1>2. CASE t \in K
  <2>1. K \in SUBSET Tiles /\ c.order \in Orders(K)
          /\ c = CacheOf(K, c.order, limit)
    BY CacheParts
  <2>2. Lru!RemoveKey(c, t)
          = Replaced(c, Lru!DropEntry(c.entries, t),
                     Lru!SaturatingSub(c.bytes, c.entries[t]),
                     Lru!DropFirst(c.order, t))
    BY <1>2 DEF Lru!RemoveKey, Lru!ContainsKey, Replaced
  <2>3. Lru!RemoveKey(c, t)
          = CacheOf(K \ {t}, Lru!DropFirst(c.order, t), limit)
    BY <1>2, <2>1, <2>2, EntryWithinTotal, ReplacedParts DEF CacheOf
  <2>4. Lru!DropFirst(c.order, t) \in Orders(K \ {t})
    BY <2>1, DropFirstOrder
  <2>5. K \ {t} \in SUBSET Tiles
    BY <2>1
  <2> QED
    BY <2>3, <2>4, <2>5, CacheOfKeys
<1> QED
  BY <1>1, <1>2

LEMMA InsertKeys ==
  ASSUME NEW limit, NEW c \in Caches(limit), NEW t \in Tiles
  PROVE  /\ Lru!Insert(c, t, TileBytes[t]) \in Caches(limit)
         /\ Lru!Keys(Lru!Insert(c, t, TileBytes[t])) = Lru!Keys(c) \cup {t}
<1> DEFINE r == Lru!RemoveKey(c, t)
           K == Lru!Keys(r)
<1>1. r \in Caches(limit) /\ K = Lru!Keys(c) \ {t}
  BY RemoveKeyKeys
<1>2. K \in SUBSET Tiles /\ r.order \in Orders(K)
        /\ r = CacheOf(K, r.order, limit) /\ r.entries = [k \in K |-> TileBytes[k]]
  BY <1>1, CacheParts
<1>3. t \notin K /\ K \cup {t} = Lru!Keys(c) \cup {t} /\ K \cup {t} \in SUBSET Tiles
  BY <1>1, <1>2
<1>4. Lru!Insert(c, t, TileBytes[t])
        = Replaced(r, [k \in DOMAIN r.entries \cup {t} |->
                         IF k = t THEN TileBytes[t] ELSE r.entries[k]],
                   r.bytes + TileBytes[t], Append(r.order, t))
  BY DEF Lru!Insert, Replaced
<1>5. r.bytes + TileBytes[t] = TilesSize(K \cup {t})
  BY <1>1, <1>2, <1>3, TilesSizes, CacheParts
<1> HIDE DEF r, K
<1>6. [k \in DOMAIN r.entries \cup {t} |->
         IF k = t THEN TileBytes[t] ELSE r.entries[k]]
        = [k \in K \cup {t} |-> TileBytes[k]]
  BY <1>2
<1>7. Lru!Insert(c, t, TileBytes[t])
        = CacheOf(K \cup {t}, Append(r.order, t), limit)
  BY <1>2, <1>4, <1>5, <1>6, ReplacedParts DEF CacheOf
<1>8. Append(r.order, t) \in Orders(K \cup {t})
  BY <1>2, <1>3, AppendOrder
<1> QED
  BY <1>3, <1>7, <1>8, CacheOfKeys

LEMMA GetClonedKeys ==
  ASSUME NEW limit, NEW c \in Caches(limit), NEW t
  PROVE  /\ Lru!GetCloned(c, t) \in Caches(limit)
         /\ Lru!Keys(Lru!GetCloned(c, t)) = Lru!Keys(c)
<1> DEFINE K == Lru!Keys(c)
<1>1. CASE t \notin K
  BY <1>1 DEF Lru!GetCloned, Lru!ContainsKey
<1>2. CASE t \in K
  <2>1. K \in SUBSET Tiles /\ c.order \in Orders(K)
          /\ c = CacheOf(K, c.order, limit)
    BY CacheParts
  <2> DEFINE o == Append(Lru!DropFirst(c.order, t), t)
  <2>2. Lru!GetCloned(c, t) = CacheOf(K, o, limit)
    <3>1. Lru!GetCloned(c, t) = Reordered(c, o)
      BY <1>2 DEF Lru!GetCloned, Lru!ContainsKey, Lru!Touch, Reordered
    <3> HIDE DEF o, K
    <3> QED
      BY <2>1, <3>1, ReplacedParts DEF CacheOf
  <2>3. o \in Orders((K \ {t}) \cup {t})
    BY <1>2, <2>1, DropFirstOrder, AppendOrder
  <2>4. (K \ {t}) \cup {t} = K
    BY <1>2
  <2> HIDE DEF o, K
  <2> QED
    BY <2>1, <2>2, <2>3, <2>4, CacheOfKeys DEF K
<1> QED
  BY <1>1, <1>2

(* evict_one takes one entry, and a visible one only when all are visible. *)
LEMMA EvictOneKeys ==
  ASSUME NEW limit, NEW c \in Caches(limit), NEW visible
  PROVE  /\ Lru!EvictOne(c, visible) \in Caches(limit)
         /\ Lru!Keys(c) = {} => Lru!EvictOne(c, visible) = c
         /\ Lru!Keys(c) # {} =>
              \E t \in Lru!Keys(c) :
                /\ Lru!Keys(Lru!EvictOne(c, visible)) = Lru!Keys(c) \ {t}
                /\ t \in visible => Lru!Keys(c) \subseteq visible
<1> DEFINE K == Lru!Keys(c)
           o == c.order
           i == Lru!VictimIndex(c, visible)
           hidden == {j \in DOMAIN o : o[j] \notin visible}
<1>1. /\ K \in SUBSET Tiles /\ o \in Orders(K)
      /\ c = CacheOf(K, o, limit)
  BY CacheParts
<1>2. /\ o \in Seq(Tiles) /\ DOMAIN o = 1..Len(o) /\ Len(o) \in Nat
      /\ {o[j] : j \in DOMAIN o} = K
  BY <1>1 DEF Orders
<1>3. o = <<>> <=> K = {}
  <2>1. o = <<>> => K = {}
    BY <1>2
  <2>2. o # <<>> => 1 \in DOMAIN o
    BY <1>2
  <2> QED
    BY <1>2, <2>1, <2>2
<1>4. CASE o = <<>>
  BY <1>3, <1>4 DEF Lru!EvictOne
<1>5. CASE o # <<>>
  <2>1. i \in DOMAIN o /\ (o[i] \in visible => hidden = {})
    <3>1. CASE hidden = {}
      <4>1. i = 1
        BY <3>1 DEF Lru!VictimIndex
      <4> QED
        BY <1>2, <1>5, <3>1, <4>1
    <3>2. CASE hidden # {}
      <4>1. hidden \subseteq Nat /\ hidden # {}
        BY <1>2, <3>2
      <4> HIDE DEF hidden
      <4>2. PICK m \in hidden : \A n \in hidden : ~ (<<n, m>> \in OpToRel(<, Nat))
        BY <4>1, NatLessThanWellFounded, WFMin
      <4>3. \A n \in hidden : m <= n
        <5>1. m \in Nat /\ \A n \in hidden : n \in Nat
          BY <4>1
        <5>2. \A n \in hidden : ~ (n < m)
          BY <4>2, <5>1 DEF OpToRel
        <5> QED
          BY <5>1, <5>2
      <4>4. i = CHOOSE h \in hidden : \A n \in hidden : h <= n
        BY <3>2 DEF Lru!VictimIndex, hidden
      <4>5. i \in hidden
        BY <4>3, <4>4
      <4> QED
        BY <4>5 DEF hidden
    <3> QED
      BY <3>1, <3>2
  <2> DEFINE t == o[i]
  <2>2. t \in K
    BY <1>2, <2>1
  <2>3. Lru!EvictOne(c, visible)
          = Replaced(c, Lru!DropEntry(c.entries, t),
                     Lru!SaturatingSub(c.bytes, c.entries[t]),
                     Lru!RemoveAt(o, i))
    BY <1>5, <2>2 DEF Lru!EvictOne, Lru!EvictAt, Lru!ContainsKey, Replaced
  <2>4. Lru!EvictOne(c, visible) = CacheOf(K \ {t}, Lru!RemoveAt(o, i), limit)
    BY <1>1, <2>2, <2>3, EntryWithinTotal, ReplacedParts DEF CacheOf
  <2> HIDE DEF i
  <2>5. Lru!RemoveAt(o, i) \in Orders(K \ {t})
    BY <1>1, <2>1, RemoveAtOrder
  <2>6. K \ {t} \in SUBSET Tiles
    BY <1>1
  <2>7. t \in visible => K \subseteq visible
    BY <1>2, <2>1
  <2> HIDE DEF t, K
  <2> QED
    BY <1>3, <1>5, <2>2, <2>4, <2>5, <2>6, <2>7, CacheOfKeys DEF K
<1> QED
  BY <1>4, <1>5

---------------------------------------------------------------------------
(* The operations on several keys: each is a recursive function on the     *)
(* subsets of the set of keys, or of positions, that it goes through.      *)

LEMMA RemoveAllKeys ==
  ASSUME NEW limit, NEW c \in Caches(limit), NEW S, IsFiniteSet(S)
  PROVE  /\ Lru!RemoveAll(c, S) \in Caches(limit)
         /\ Lru!Keys(Lru!RemoveAll(c, S)) = Lru!Keys(c) \ S
<1> DEFINE IsIter(g) == g = [s \in SUBSET S |->
                               IF s = {} THEN c
                               ELSE Lru!RemoveKey(g[s \ {Pick(s)}], Pick(s))]
           iter == CHOOSE g : IsIter(g)
           pick == [s \in SUBSET S |-> Pick(s)]
           F == [p \in S \X Caches(limit) |-> Lru!RemoveKey(p[2], p[1])]
<1>1. Lru!RemoveAll(c, S) = iter[S]
  BY DEF Lru!RemoveAll, Lru!FoldSet, Lru!MapThenFoldSet, Pick
<1>2. \A s \in SUBSET S : s # {} => pick[s] \in s /\ pick[s] = Pick(s)
  BY DEF Pick
<1>3. \A s \in S, x \in Caches(limit) :
         Lru!RemoveKey(x, s) \in Caches(limit) /\ F[<<s, x>>] = Lru!RemoveKey(x, s)
  BY RemoveKeyKeys
<1>4. F \in [S \X Caches(limit) -> Caches(limit)]
  BY <1>3
<1> HIDE DEF F
<1>5. PICK g \in [SUBSET S -> Caches(limit)] : IsFold(g, SUBSET S, c, F, pick)
  <2>1. Picks(pick, S)
    BY <1>2 DEF Picks
  <2> HIDE DEF pick
  <2> QED
    BY <1>4, <2>1, FoldExists
<1>6. IsIter(g)
  <2>1. ASSUME NEW s \in SUBSET S, s # {}
        PROVE  g[s] = Lru!RemoveKey(g[s \ {Pick(s)}], Pick(s))
    <3>1. g[s] = F[<<pick[s], g[s \ {pick[s]}]>>]
      BY <1>5, <2>1 DEF IsFold
    <3>2. pick[s] = Pick(s) /\ Pick(s) \in S
      BY <1>2, <2>1
    <3> QED
      BY <1>3, <3>1, <3>2
  <2>2. g[{}] = c
    BY <1>5 DEF IsFold
  <2> QED
    BY <2>1, <2>2
<1>7. IsIter(iter)
  <2> HIDE DEF IsIter
  <2> QED
    BY <1>6
<1> HIDE DEF iter
<1> DEFINE G == {s \in SUBSET S : /\ iter[s] \in Caches(limit)
                                  /\ Lru!Keys(iter[s]) = Lru!Keys(c) \ s}
<1>8. ASSUME NEW s \in SUBSET S, \A u \in (SUBSET s) \ {s} : u \in G
      PROVE  s \in G
  <2>1. CASE s = {}
    BY <2>1, <1>7
  <2>2. CASE s # {}
    <3>1. Pick(s) \in s /\ s \ {Pick(s)} \in G
      BY <1>8, <2>2, <1>2
    <3> DEFINE y == iter[s \ {Pick(s)}]
    <3>2. iter[s] = Lru!RemoveKey(y, Pick(s))
      BY <2>2, <1>7
    <3>3. y \in Caches(limit) /\ Lru!Keys(y) = Lru!Keys(c) \ (s \ {Pick(s)})
      BY <3>1
    <3>4. iter[s] \in Caches(limit) /\ Lru!Keys(iter[s]) = Lru!Keys(y) \ {Pick(s)}
      <4> HIDE DEF y
      <4> QED
        BY <3>2, <3>3, RemoveKeyKeys
    <3> QED
      BY <3>1, <3>3, <3>4
  <2> QED
    BY <2>1, <2>2
<1> HIDE DEF G
<1>9. S \in G
  BY <1>8, SubsetsBelong
<1> QED
  BY <1>1, <1>9 DEF G

(* A set of positions that is not empty has a last one.                    *)
LEMMA LargestPosition ==
  ASSUME NEW tiles \in Seq(Tiles), NEW s \in SUBSET DOMAIN tiles, s # {}
  PROVE  Lru!Max(s) \in s
<1> DEFINE After == {Len(tiles) - i : i \in s}
<1>1. Len(tiles) \in Nat /\ \A i \in s : i \in 1..Len(tiles)
  OBVIOUS
<1>2. After \subseteq Nat /\ After # {}
  BY <1>1
<1> HIDE DEF After
<1>3. PICK m \in After : \A n \in After : ~ (<<n, m>> \in OpToRel(<, Nat))
  BY <1>2, NatLessThanWellFounded, WFMin
<1>4. \A n \in After : m <= n
  <2>1. m \in Nat /\ \A n \in After : n \in Nat
    BY <1>2
  <2>2. \A n \in After : ~ (n < m)
    BY <1>3, <2>1 DEF OpToRel
  <2> QED
    BY <2>1, <2>2
<1>5. PICK k \in s : m = Len(tiles) - k
  BY DEF After
<1>6. \A i \in s : Len(tiles) - i \in After
  BY DEF After
<1>7. \A i \in s : k >= i
  BY <1>1, <1>4, <1>5, <1>6
<1> QED
  BY <1>7 DEF Lru!Max

LEMMA GetAllKeys ==
  ASSUME NEW limit, NEW c \in Caches(limit), NEW tiles \in Seq(Tiles),
         NEW S \in SUBSET DOMAIN tiles, IsFiniteSet(S)
  PROVE  /\ Lru!GetAll(c, tiles, S) \in Caches(limit)
         /\ Lru!Keys(Lru!GetAll(c, tiles, S)) = Lru!Keys(c)
<1> DEFINE Top(s) == Lru!Max(s)
           IsIter(g) == g = [s \in SUBSET S |->
                               IF s = {} THEN c
                               ELSE Lru!GetCloned(g[s \ {Top(s)}], tiles[Top(s)])]
           iter == CHOOSE g : IsIter(g)
           pick == [s \in SUBSET S |-> Top(s)]
           F == [p \in S \X Caches(limit) |-> Lru!GetCloned(p[2], tiles[p[1]])]
<1>1. Lru!GetAll(c, tiles, S) = iter[S]
  BY DEF Lru!GetAll, Lru!MapThenFoldSet
<1>2. \A s \in SUBSET S : s # {} => Top(s) \in s /\ pick[s] = Top(s)
  BY LargestPosition
<1> HIDE DEF Top
<1>3. \A i \in S, x \in Caches(limit) :
         /\ Lru!GetCloned(x, tiles[i]) \in Caches(limit)
         /\ F[<<i, x>>] = Lru!GetCloned(x, tiles[i])
  <2>1. \A i \in S : tiles[i] \in Tiles
    OBVIOUS
  <2> QED
    BY <2>1, GetClonedKeys
<1>4. F \in [S \X Caches(limit) -> Caches(limit)]
  BY <1>3
<1> HIDE DEF F
<1>5. PICK g \in [SUBSET S -> Caches(limit)] : IsFold(g, SUBSET S, c, F, pick)
  <2>1. Picks(pick, S)
    BY <1>2 DEF Picks
  <2> HIDE DEF pick
  <2> QED
    BY <1>4, <2>1, FoldExists
<1>6. IsIter(g)
  <2>1. ASSUME NEW s \in SUBSET S, s # {}
        PROVE  g[s] = Lru!GetCloned(g[s \ {Top(s)}], tiles[Top(s)])
    <3>1. g[s] = F[<<pick[s], g[s \ {pick[s]}]>>]
      BY <1>5, <2>1 DEF IsFold
    <3>2. pick[s] = Top(s) /\ Top(s) \in S
      BY <1>2, <2>1
    <3> QED
      BY <1>3, <3>1, <3>2
  <2>2. g[{}] = c
    BY <1>5 DEF IsFold
  <2> QED
    BY <2>1, <2>2
<1>7. IsIter(iter)
  <2> HIDE DEF IsIter
  <2> QED
    BY <1>6
<1> HIDE DEF iter
<1> DEFINE G == {s \in SUBSET S :
                   /\ iter[s] \in Caches(limit)
                   /\ Lru!Keys(iter[s]) = Lru!Keys(c)}
<1>8. ASSUME NEW s \in SUBSET S, \A u \in (SUBSET s) \ {s} : u \in G
      PROVE  s \in G
  <2>1. CASE s = {}
    BY <2>1, <1>7
  <2>2. CASE s # {}
    <3>1. Top(s) \in s /\ s \ {Top(s)} \in G /\ tiles[Top(s)] \in Tiles
      <4>1. Top(s) \in s
        BY <2>2, <1>2
      <4>2. Top(s) \in DOMAIN tiles
        BY <4>1
      <4> QED
        BY <1>8, <4>1, <4>2
    <3> DEFINE y == iter[s \ {Top(s)}]
    <3>2. iter[s] = Lru!GetCloned(y, tiles[Top(s)])
      BY <2>2, <1>7
    <3>3. /\ y \in Caches(limit)
          /\ Lru!Keys(y) = Lru!Keys(c)
      BY <3>1
    <3>4. iter[s] \in Caches(limit) /\ Lru!Keys(iter[s]) = Lru!Keys(y)
      <4> HIDE DEF y
      <4> QED
        BY <3>1, <3>2, <3>3, GetClonedKeys
    <3> HIDE DEF y
    <3> QED
      BY <3>1, <3>3, <3>4
  <2> QED
    BY <2>1, <2>2
<1> HIDE DEF G
<1>9. S \in G
  BY <1>8, SubsetsBelong
<1> QED
  BY <1>1, <1>9 DEF G

LEMMA InsertAllKeys ==
  ASSUME NEW limit, NEW c \in Caches(limit), NEW tiles \in Seq(Tiles),
         NEW S \in SUBSET DOMAIN tiles, IsFiniteSet(S)
  PROVE  /\ Lru!InsertAll(c, TileBytes, tiles, S) \in Caches(limit)
         /\ Lru!Keys(Lru!InsertAll(c, TileBytes, tiles, S)) = Lru!Keys(c) \cup {tiles[i] : i \in S}
<1> DEFINE Top(s) == Lru!Max(s)
           IsIter(g) == g = [s \in SUBSET S |->
                               IF s = {} THEN c
                               ELSE Lru!Insert(g[s \ {Top(s)}], tiles[Top(s)], TileBytes[tiles[Top(s)]])]
           iter == CHOOSE g : IsIter(g)
           pick == [s \in SUBSET S |-> Top(s)]
           F == [p \in S \X Caches(limit) |-> Lru!Insert(p[2], tiles[p[1]], TileBytes[tiles[p[1]]])]
<1>1. Lru!InsertAll(c, TileBytes, tiles, S) = iter[S]
  BY DEF Lru!InsertAll, Lru!MapThenFoldSet
<1>2. \A s \in SUBSET S : s # {} => Top(s) \in s /\ pick[s] = Top(s)
  BY LargestPosition
<1> HIDE DEF Top
<1>3. \A i \in S, x \in Caches(limit) :
         /\ Lru!Insert(x, tiles[i], TileBytes[tiles[i]]) \in Caches(limit)
         /\ F[<<i, x>>] = Lru!Insert(x, tiles[i], TileBytes[tiles[i]])
  <2>1. \A i \in S : tiles[i] \in Tiles
    OBVIOUS
  <2> QED
    BY <2>1, InsertKeys
<1>4. F \in [S \X Caches(limit) -> Caches(limit)]
  BY <1>3
<1> HIDE DEF F
<1>5. PICK g \in [SUBSET S -> Caches(limit)] : IsFold(g, SUBSET S, c, F, pick)
  <2>1. Picks(pick, S)
    BY <1>2 DEF Picks
  <2> HIDE DEF pick
  <2> QED
    BY <1>4, <2>1, FoldExists
<1>6. IsIter(g)
  <2>1. ASSUME NEW s \in SUBSET S, s # {}
        PROVE  g[s] = Lru!Insert(g[s \ {Top(s)}], tiles[Top(s)], TileBytes[tiles[Top(s)]])
    <3>1. g[s] = F[<<pick[s], g[s \ {pick[s]}]>>]
      BY <1>5, <2>1 DEF IsFold
    <3>2. pick[s] = Top(s) /\ Top(s) \in S
      BY <1>2, <2>1
    <3> QED
      BY <1>3, <3>1, <3>2
  <2>2. g[{}] = c
    BY <1>5 DEF IsFold
  <2> QED
    BY <2>1, <2>2
<1>7. IsIter(iter)
  <2> HIDE DEF IsIter
  <2> QED
    BY <1>6
<1> HIDE DEF iter
<1> DEFINE G == {s \in SUBSET S :
                   /\ iter[s] \in Caches(limit)
                   /\ Lru!Keys(iter[s]) = Lru!Keys(c) \cup {tiles[i] : i \in s}}
<1>8. ASSUME NEW s \in SUBSET S, \A u \in (SUBSET s) \ {s} : u \in G
      PROVE  s \in G
  <2>1. CASE s = {}
    BY <2>1, <1>7
  <2>2. CASE s # {}
    <3>1. Top(s) \in s /\ s \ {Top(s)} \in G /\ tiles[Top(s)] \in Tiles
      <4>1. Top(s) \in s
        BY <2>2, <1>2
      <4>2. Top(s) \in DOMAIN tiles
        BY <4>1
      <4> QED
        BY <1>8, <4>1, <4>2
    <3> DEFINE y == iter[s \ {Top(s)}]
    <3>2. iter[s] = Lru!Insert(y, tiles[Top(s)], TileBytes[tiles[Top(s)]])
      BY <2>2, <1>7
    <3>3. /\ y \in Caches(limit)
          /\ Lru!Keys(y) = Lru!Keys(c) \cup {tiles[i] : i \in s \ {Top(s)}}
      BY <3>1
    <3>4. iter[s] \in Caches(limit) /\ Lru!Keys(iter[s]) = Lru!Keys(y) \cup {tiles[Top(s)]}
      <4> HIDE DEF y
      <4> QED
        BY <3>1, <3>2, <3>3, InsertKeys
    <3> HIDE DEF y
    <3> QED
      BY <3>1, <3>3, <3>4
  <2> QED
    BY <2>1, <2>2
<1> HIDE DEF G
<1>9. S \in G
  BY <1>8, SubsetsBelong
<1> QED
  BY <1>1, <1>9 DEF G

---------------------------------------------------------------------------
(* What the invariants of the worker ask of its caches.                    *)

(* A cache that these operations leave is well formed.                     *)
LEMMA CachesAreWellFormed ==
  ASSUME NEW limit, NEW c \in Caches(limit)
  PROVE  Lru!WellFormed(c)
<1> DEFINE K == Lru!Keys(c)
<1>1. /\ K \in SUBSET Tiles /\ c.order \in Orders(K)
      /\ c.entries = [t \in K |-> TileBytes[t]] /\ c.bytes = TilesSize(K)
  BY CacheParts
<1>2. Lru!OrderListsKeys(c)
  BY <1>1 DEF Orders, Lru!OrderListsKeys
<1>3. Lru!SizeOf(TileBytes, K) = Lru!SizeOf(c.entries, K)
  <2>1. IsFiniteSet(K)
    BY <1>1, FS_Subset, WorkerAssumption
  <2>2. \A t \in K : TileBytes[t] \in Nat /\ c.entries[t] = TileBytes[t]
    BY <1>1, WorkerAssumption
  <2> HIDE DEF K
  <2> QED
    BY <2>1, <2>2, SizeCongruent
<1> QED
  BY <1>1, <1>2, <1>3 DEF Lru!WellFormed, Lru!BytesAddUp, Lru!TotalBytes, TilesSize

(* What a sequence holds has a first place in it.                          *)
LEMMA FirstPlace ==
  ASSUME NEW s \in Seq(Tiles), NEW t, \E i \in DOMAIN s : s[i] = t
  PROVE  \E i \in DOMAIN s : s[i] = t /\ Lru!IsFirst(s, i, t)
<1> DEFINE places == {i \in DOMAIN s : s[i] = t}
<1>1. DOMAIN s = 1..Len(s) /\ Len(s) \in Nat
  OBVIOUS
<1>2. places # {} /\ places \subseteq Nat
  BY <1>1
<1>3. PICK i \in places : \A j \in places : i <= j
  <2> HIDE DEF places
  <2> QED
    BY <1>2, HasSmallest
<1> QED
  BY <1>1, <1>3 DEF Lru!IsFirst

(* The budgets have a smallest and a largest one, the tiles a largest size.*)
LEMMA Extremes ==
  /\ LargestBudget \in Nat /\ SmallestBudget \in Nat
  /\ \A isMoving \in BOOLEAN : \A b \in Budgets(isMoving) :
       b \in Nat /\ SmallestBudget <= b /\ b <= LargestBudget
  /\ Tiles # {}
  /\ LargestTile \in Nat
  /\ \A t \in Tiles : TileBytes[t] <= LargestTile
<1> DEFINE B == IdleBudgets \cup {MovingBudget}
           Sizes == {TileBytes[t] : t \in Tiles}
<1>1. B # {} /\ B \subseteq Nat /\ IsFiniteSet(B)
  BY WorkerAssumption, FS_AddElement
<1>2. LargestBudget \in B /\ \A b \in B : b <= LargestBudget
  <2>1. \E b \in B : \A c \in B : c <= b
    <3> HIDE DEF B
    <3> QED
      BY <1>1, FiniteHasLargest
  <2> QED
    BY <2>1 DEF LargestBudget
<1>3. SmallestBudget \in B /\ \A b \in B : SmallestBudget <= b
  <2>1. \E b \in B : \A c \in B : b <= c
    <3> HIDE DEF B
    <3> QED
      BY <1>1, HasSmallest
  <2> QED
    BY <2>1 DEF SmallestBudget
<1>4. \A isMoving \in BOOLEAN : Budgets(isMoving) \subseteq B
  BY DEF Budgets
<1>5. Tiles # {}
  BY WorkerAssumption
<1>6. Sizes # {} /\ Sizes \subseteq Nat /\ IsFiniteSet(Sizes)
  <2>1. Sizes # {} /\ Sizes \subseteq Nat
    BY <1>5, WorkerAssumption
  <2> DEFINE f == [t \in Tiles |-> TileBytes[t]]
  <2>2. f \in Surjection(Tiles, Sizes)
    BY DEF Surjection
  <2> HIDE DEF f, Sizes
  <2> QED
    BY <2>1, <2>2, FS_Surjection, WorkerAssumption
<1>7. LargestTile \in Sizes /\ \A t \in Tiles : TileBytes[t] <= LargestTile
  <2>1. \E b \in Sizes : \A c \in Sizes : c <= b
    <3> HIDE DEF Sizes
    <3> QED
      BY <1>6, FiniteHasLargest
  <2>2. \E n \in Sizes : \A t \in Tiles : TileBytes[t] <= n
    BY <2>1
  <2> QED
    BY <2>2 DEF LargestTile
<1> QED
  BY <1>1, <1>2, <1>3, <1>4, <1>5, <1>6, <1>7

---------------------------------------------------------------------------
(* Types.                                                                  *)

LEMMA WorkerInitTyped ==
  ChannelsInit /\ WorkerInit => WorkerControlTypeOK
  <1> SUFFICES ASSUME ChannelsInit, WorkerInit PROVE WorkerControlTypeOK
    OBVIOUS
  <1>1. /\ DOMAIN layers \subseteq LayerIds
        /\ \A l \in DOMAIN layers : layers[l] \in Layer
    BY WorkerAssumption DEF WorkerInit, Layer, Opacities
  <1>2. view \in Views
    BY WorkerAssumption DEF WorkerInit
  <1>3. commands \in Seq(RenderCommand)
    BY DEF ChannelsInit
  <1> QED
    BY <1>1, <1>2, <1>3
    DEF ChannelsInit, WorkerInit, WorkerControlTypeOK, WorkerPcs

(* What a command from the channel may carry.                              *)
LEMMA CommandFields ==
  ASSUME NEW c \in RenderCommand
  PROVE  /\ c.type = "SetCamera" => c.camera \in Cameras \cup {InvalidCamera}
         /\ c.type \in {"AddTileLayer", "RemoveLayer"} => c.layer \in LayerIds
         /\ c.type = "SetLayerVisible" => c.visible \in BOOLEAN
         /\ c.type = "TileLoaded" => c.id \in Tiles /\ c.ok \in BOOLEAN
  BY DEF RenderCommand, UiCommand, TileLoadedCommand

(* A handler that takes a command leaves a channel of commands.            *)
LEMMA TakeTyped ==
  ASSUME WorkerControlTypeOK, NEW type, Take(type)
  PROVE  /\ commands' \in Seq(RenderCommand)
         /\ Head(commands) \in RenderCommand
         /\ Head(commands).type = type
         /\ workerPc = "loop"
  BY DEF Take, WorkerControlTypeOK

(* The four layer commands keep the worker's variables typed.              *)
LEMMA LayerCommandsTyped ==
  ASSUME WorkerControlTypeOK,
         AddTileLayer \/ RemoveLayer \/ SetLayerVisible \/ SetLayerOpacity
  PROVE  /\ DOMAIN layers' \subseteq LayerIds
         /\ \A l \in DOMAIN layers' : layers'[l] \in Layer
         /\ needsRender' \in BOOLEAN
  <1> DEFINE c == Head(commands)
  <1> USE DEF WorkerControlTypeOK
  <1>1. CASE AddTileLayer
    <2>1. c \in RenderCommand /\ c.type = "AddTileLayer"
      BY <1>1, TakeTyped DEF AddTileLayer
    <2>2. c.layer \in LayerIds
      BY <2>1, CommandFields
    <2>3. CASE c.opacity \in Opacities
      <3>1. [visible |-> TRUE, opacity |-> c.opacity] \in Layer
        BY <2>3 DEF Layer
      <3>2. /\ layers' = [l \in DOMAIN layers \cup {c.layer} |->
                            IF l = c.layer
                            THEN [visible |-> TRUE, opacity |-> c.opacity]
                            ELSE layers[l]]
            /\ needsRender' = TRUE
        BY <1>1, <2>3 DEF AddTileLayer
      <3> HIDE DEF c
      <3> QED
        BY <2>2, <3>1, <3>2
    <2>4. CASE c.opacity \notin Opacities
      BY <1>1, <2>4 DEF AddTileLayer
    <2> QED
      BY <2>3, <2>4
  <1>2. CASE RemoveLayer
    BY <1>2 DEF RemoveLayer
  <1>3. CASE SetLayerVisible
    <2>1. c.visible \in BOOLEAN
      BY <1>3, TakeTyped, CommandFields DEF SetLayerVisible
    <2>2. CASE c.layer \in DOMAIN layers
      <3>1. layers' = [layers EXCEPT ![c.layer].visible = c.visible]
        BY <1>3, <2>2 DEF SetLayerVisible
      <3>2. [layers[c.layer] EXCEPT !.visible = c.visible] \in Layer
        BY <2>1, <2>2 DEF Layer
      <3> QED
        BY <1>3, <2>2, <3>1, <3>2 DEF SetLayerVisible
    <2>3. CASE c.layer \notin DOMAIN layers
      BY <1>3, <2>3 DEF SetLayerVisible
    <2> QED
      BY <2>2, <2>3
  <1>4. CASE SetLayerOpacity
    <2>1. CASE c.opacity \in Opacities /\ c.layer \in DOMAIN layers
      <3>1. layers' = [layers EXCEPT ![c.layer].opacity = c.opacity]
        BY <1>4, <2>1 DEF SetLayerOpacity
      <3>2. [layers[c.layer] EXCEPT !.opacity = c.opacity] \in Layer
        BY <2>1 DEF Layer
      <3> QED
        BY <1>4, <2>1, <3>1, <3>2 DEF SetLayerOpacity
    <2>2. CASE ~(c.opacity \in Opacities /\ c.layer \in DOMAIN layers)
      BY <1>4, <2>2 DEF SetLayerOpacity
    <2> QED
      BY <2>1, <2>2
  <1> QED
    BY <1>1, <1>2, <1>3, <1>4

(* The requests of a frame are for tiles of the map, at one of the tiers.  *)
LEMMA PlannedTyped ==
  ASSUME NEW v \in Views, NEW m
  PROVE  /\ PlannedTiles(v, m) \subseteq Tiles
         /\ \A t \in PlannedTiles(v, FALSE) : TierOf(v, t) \in Tiers
         /\ PlannedTiles(v, m) \subseteq PlannedTiles(v, FALSE)
         /\ ViewZoom(v) \in Nat
  <1>1. /\ VisibleTiles[v] \in Seq(Tiles)
        /\ VisibleTiles[v] # <<>>
        /\ DOMAIN PrefetchTier[v] \subseteq Tiles
        /\ \A t \in DOMAIN PrefetchTier[v] : PrefetchTier[v][t] \in Tiers
        /\ Zoom \in [Tiles -> Nat]
    BY WorkerAssumption
  <1>2. VisibleSet(v) \subseteq Tiles
    BY <1>1 DEF VisibleSet
  <1>3. ViewZoom(v) \in Nat
    <2>1. VisibleTiles[v][1] \in Tiles
      BY <1>1
    <2> QED
      BY <1>1, <2>1 DEF ViewZoom
  <1>4. \A t \in PlannedTiles(v, FALSE) : TierOf(v, t) \in Tiers
    BY <1>1 DEF PlannedTiles, TierOf, Tiers
  <1> QED
    BY <1>1, <1>2, <1>3, <1>4 DEF PlannedTiles

(* A view stays one with another camera or another screen.                 *)
LEMMA ViewsClosed ==
  ASSUME NEW v \in Views
  PROVE  /\ \A c \in Cameras : [v EXCEPT !.camera = c] \in Views
         /\ \A s \in Screens : [v EXCEPT !.screen = s] \in Views
  BY DEF Views

(* A frame keeps the worker's variables typed: what it plans are tiles.    *)
LEMMA FrameTyped ==
  ASSUME WorkerControlTypeOK, RenderFrame
  PROVE  WorkerControlTypeOK'
  <1> USE DEF WorkerControlTypeOK, mapVars, pendingVars, cacheVars
  <1>1. view' \in Views /\ generation' \in Nat /\ moving' \in BOOLEAN
    <2>1. ApplyPendingCamera
      BY DEF RenderFrame
    <2>2. CASE pendingCamera \in Cameras
      BY <2>1, <2>2, ViewsClosed DEF ApplyPendingCamera
    <2>3. CASE pendingCamera \notin Cameras
      BY <2>1, <2>3 DEF ApplyPendingCamera
    <2> QED
      BY <2>2, <2>3
  <1>2. CASE SkipPlanning
    BY <1>1, <1>2 DEF RenderFrame, SkipPlanning, WorkerPcs
  <1>3. CASE PlanRequests
    <2>1. PlannedTiles(view', moving') \subseteq Tiles
      BY <1>1, PlannedTyped
    <2>2. PICK chosen \in SUBSET PlannedTiles(view', moving') :
            outbox' = {[id |-> t, tier |-> TierOf(view', t)] : t \in chosen}
      BY <1>3 DEF PlanRequests, Selections, Missing
    <2>3. \A t \in chosen : t \in Tiles /\ TierOf(view', t) \in Tiers
      BY <1>1, <2>1, <2>2, PlannedTyped
    <2>4. outbox' \subseteq Request
      BY <2>2, <2>3 DEF Request
    <2>5. /\ lastZoom' \in Nat /\ workerPc' \in WorkerPcs
          /\ pendingLoads' \subseteq Tiles
          /\ pendingMetadata' \subseteq Tiles
      BY <1>1, <1>3, PlannedTyped DEF PlanRequests, WorkerPcs
    <2> QED
      BY <1>1, <2>4, <2>5 DEF RenderFrame
  <1> QED
    BY <1>2, <1>3 DEF RenderFrame

(* Every step of the worker keeps its variables typed; the caches apart.   *)
LEMMA WorkerStepTyped ==
  ASSUME WorkerControlTypeOK, WorkerThread
  PROVE  WorkerControlTypeOK'
  <1> DEFINE c == Head(commands)
  <1> USE DEF WorkerControlTypeOK, mapVars, pendingVars, cacheVars
  <1>1. CASE WorkerStarts \/ WorkerFailsToStart
    <2>1. workerPc' \in WorkerPcs /\ commands' \in {commands, <<>>}
      BY <1>1 DEF WorkerStarts, WorkerFailsToStart, WorkerPcs
    <2>2. UNCHANGED workerVars
      BY <1>1 DEF WorkerStarts, WorkerFailsToStart
    <2>3. <<>> \in Seq(RenderCommand)
      OBVIOUS
    <2>4. commands' \in Seq(RenderCommand)
      BY <2>1, <2>3
    <2> QED
      BY <2>1, <2>2, <2>4 DEF workerVars
  <1>2. CASE SurfaceCreated \/ SurfaceDestroyed
    <2>1. commands' \in Seq(RenderCommand)
      BY <1>2, TakeTyped DEF SurfaceCreated, SurfaceDestroyed
    <2>2. gpuReady' \in BOOLEAN /\ needsRender' \in BOOLEAN
      BY <1>2 DEF SurfaceCreated, SurfaceDestroyed
    <2> QED
      BY <1>2, <2>1, <2>2 DEF SurfaceCreated, SurfaceDestroyed
  <1>3. CASE Resize
    <2>1. view' \in Views
      BY <1>3, ViewsClosed DEF Resize, ResizeWith
    <2>2. commands' \in Seq(RenderCommand)
      BY <1>3, TakeTyped DEF Resize, ResizeWith
    <2> QED
      BY <1>3, <2>1, <2>2 DEF Resize, ResizeWith
  <1>4. CASE SetCamera
    <2>1. c.camera \in Cameras \cup {InvalidCamera}
      BY <1>4, TakeTyped, CommandFields DEF SetCamera
    <2> QED
      BY <1>4, <2>1, TakeTyped DEF SetCamera
  <1>5. CASE AddTileLayer \/ RemoveLayer \/ SetLayerVisible \/ SetLayerOpacity
    <2>1. /\ DOMAIN layers' \subseteq LayerIds
          /\ \A l \in DOMAIN layers' : layers'[l] \in Layer
          /\ needsRender' \in BOOLEAN
      BY <1>5, LayerCommandsTyped
    <2>2. commands' \in Seq(RenderCommand)
      BY <1>5, TakeTyped
      DEF AddTileLayer, RemoveLayer, SetLayerVisible, SetLayerOpacity
    <2>3. lastZoom' = lastZoom
      BY <1>5
      DEF AddTileLayer, RemoveLayer, SetLayerVisible, SetLayerOpacity,
          LayersUnchanged
    <2> QED
      BY <1>5, <2>1, <2>2, <2>3
      DEF AddTileLayer, RemoveLayer, SetLayerVisible, SetLayerOpacity,
          LayersUnchanged
  <1>6. CASE ReceiveTile
    <2>1. commands' \in Seq(RenderCommand)
      BY <1>6, TakeTyped DEF ReceiveTile
    <2>2. needsRender' \in BOOLEAN
      BY <1>6 DEF ReceiveTile
    <2> QED
      BY <1>6, <2>1, <2>2 DEF ReceiveTile
  <1>7. CASE WorkerShutdown
    BY <1>7 DEF WorkerShutdown, WorkerPcs, workerVars
  <1>8. CASE RenderFrame
    BY <1>8, FrameTyped
  <1>9. ASSUME NEW r \in outbox, NEW p \in PriorityLevels, SendRequest(r, p)
        PROVE  WorkerControlTypeOK'
    <2>1. r.id \in Tiles
      BY DEF Request
    <2> QED
      BY <1>9, <2>1 DEF SendRequest
  <1>10. CASE UploadTiles
    <2>1. needsRender' \in BOOLEAN /\ workerPc' \in WorkerPcs
      BY <1>10 DEF UploadTiles, WorkerPcs
    <2> QED
      BY <1>10, <2>1 DEF UploadTiles
  <1>11. CASE EvictTile
    <2>1. workerPc' \in WorkerPcs
      BY <1>11 DEF EvictTile, WorkerPcs
    <2> QED
      BY <1>11, <2>1 DEF EvictTile
  <1>12. CASE MotionExpires
    BY <1>12 DEF MotionExpires
  <1>13. CASE DrawFrame
    BY <1>13 DEF DrawFrame, WorkerPcs
  <1> QED
    BY <1>1, <1>2, <1>3, <1>4, <1>5, <1>6, <1>7, <1>8, <1>9, <1>10, <1>11,
       <1>12, <1>13
    DEF WorkerThread, ReceiveCommand, ContinueFrame

(* Nothing but requests for tiles reaches the loader from the worker.      *)
LEMMA WorkerStepRequests ==
  ASSUME WorkerControlTypeOK, WorkerThread,
         tileRequests \in Seq(TileLoaderRequest)
  PROVE  tileRequests' \in Seq(TileLoaderRequest)
  <1>1. ASSUME NEW r \in outbox, NEW p \in PriorityLevels, SendRequest(r, p)
        PROVE  tileRequests' \in Seq(TileLoaderRequest)
    <2> DEFINE m == [id |-> r.id, generation |-> generation, priority |-> p]
    <2>1. m \in TileLoadRequest
      BY DEF WorkerControlTypeOK, Request, TileLoadRequest
    <2>2. Load(m) \in TileLoaderRequest
      BY <2>1 DEF Load, TileLoaderRequest
    <2>3. tileRequests' \in {tileRequests, Append(tileRequests, Load(m))}
      BY <1>1 DEF SendRequest, SendToLoader
    <2> HIDE DEF m
    <2> QED
      BY <2>2, <2>3
  <1> QED
    BY <1>1
    DEF WorkerThread, WorkerStarts, WorkerFailsToStart, ReceiveCommand, Take,
        SurfaceCreated, SurfaceDestroyed, Resize, ResizeWith, SetCamera, AddTileLayer,
        RemoveLayer, SetLayerVisible, SetLayerOpacity, ReceiveTile,
        WorkerShutdown, RenderFrame, ContinueFrame, UploadTiles, EvictTile,
        DrawFrame, MotionExpires

---------------------------------------------------------------------------
(* The invariant.                                                          *)

OutboxIds == {r.id : r \in outbox}

(* The two caches are well formed. A tile is pending, about to be asked    *)
(* for, in memory, or none of these; the pending tiles and those of the    *)
(* outbox are within the budget together.                                  *)
CacheInv ==
  /\ loaded \in Caches(RamLimit)
  /\ uploaded \in Caches(GpuLimit)
  /\ pendingLoads = pendingMetadata
  /\ pendingLoads \cap Lru!Keys(loaded) = {}
  /\ outbox # {} => workerPc = "sending"
  /\ \A r, s \in outbox : r.id = s.id => r = s
  /\ OutboxIds \cap (pendingLoads \cup Lru!Keys(loaded)) = {}
  /\ Cardinality(pendingLoads \cup OutboxIds) <= LargestBudget

(* Before its loop the worker has nothing to draw on.                      *)
ScreenInv ==
  /\ ScreenIsCurrent
  /\ workerPc = "starting" => ~gpuReady /\ ~viewport

(* What the pending tiles of the last frame left of the budget.            *)
ArrivedBytes(pending) ==
  LargestTile * (LargestBudget - Cardinality(pending))

(* The bounds hold except from the plan of a frame to its last eviction;   *)
(* a frame that planned tiles ends within the limit.                       *)
MemoryInv ==
  /\ workerPc \in {"starting", "loop", "drawing"} =>
       /\ loaded.bytes <= RamLimit + ArrivedBytes(pendingLoads)
       /\ uploaded.bytes <= GpuLimit
       /\ viewport /\ HasVisibleTileLayer /\ (needsRender => workerPc = "drawing")
            => loaded.bytes <= RamLimit
  /\ workerPc = "evicting" => OverLimit(loaded, uploaded)

(* A visible tile is provided for from the plan of the frame on, and on    *)
(* the GPU from the upload on if no other frame became due.                *)
Provided(t) ==
  \/ t \in Lru!Keys(loaded) \cup pendingLoads \cup OutboxIds
  \/ Cardinality(pendingLoads \cup OutboxIds) >= SmallestBudget
  \/ ViewBytes > RamLimit

SightInv ==
  /\ workerPc = "sending" => \A t \in VisibleSet(view) : Provided(t)
  /\ /\ workerPc \in {"evicting", "drawing", "loop"}
     /\ ~needsRender /\ viewport /\ HasVisibleTileLayer
     => \A t \in VisibleSet(view) :
          Provided(t) /\ (NeedsUpload(t) => ViewBytes > GpuLimit)

WorkerInv ==
  /\ WorkerControlTypeOK
  /\ ScreenTypeOK
  /\ CacheInv
  /\ ScreenInv
  /\ MemoryInv
  /\ SightInv

---------------------------------------------------------------------------
(* What the actions do to the caches.                                      *)

(* Evicting what is far away in zoom only takes keys.                      *)
LEMMA FarZoomEvicted ==
  ASSUME NEW limit, NEW c \in Caches(limit), NEW zoom
  PROVE  /\ EvictFarZoom(c, zoom) \in Caches(limit)
         /\ Lru!Keys(EvictFarZoom(c, zoom)) \subseteq Lru!Keys(c)
<1>1. IsFiniteSet(FarAway(c, zoom))
  <2>1. FarAway(c, zoom) \subseteq Tiles
    BY CacheParts DEF FarAway
  <2> QED
    BY <2>1, FS_Subset, WorkerAssumption
<1> QED
  BY <1>1, RemoveAllKeys DEF EvictFarZoom

(* An answer for a pending tile moves it into memory if it is good; any    *)
(* other answer changes nothing.                                           *)
LEMMA TileReceived ==
  ASSUME WorkerControlTypeOK, CacheInv, ReceiveTile
  PROVE  \/ UNCHANGED <<pendingLoads, pendingMetadata, loaded, needsRender>>
         \/ \E t \in pendingLoads :
              /\ pendingLoads' = pendingLoads \ {t}
              /\ pendingMetadata' = pendingLoads \ {t}
              /\ needsRender'
              /\ loaded' \in Caches(RamLimit)
              /\ Lru!Keys(loaded') \in
                   {Lru!Keys(loaded), Lru!Keys(loaded) \cup {t}}
<1> DEFINE t == Head(commands).id
<1>1. t \in Tiles /\ Head(commands).ok \in BOOLEAN
  BY TakeTyped, CommandFields DEF ReceiveTile
<1>2. pendingLoads' = pendingLoads \ {t}
  BY DEF ReceiveTile
<1>3. CASE t \notin pendingLoads
  <2>1. UNCHANGED <<pendingMetadata, loaded, needsRender>>
    BY <1>3 DEF ReceiveTile, CacheInv
  <2>2. pendingLoads' = pendingLoads
    BY <1>2, <1>3
  <2> QED
    BY <2>1, <2>2
<1>4. CASE t \in pendingLoads
  <2>1. /\ pendingMetadata' = pendingLoads \ {t}
        /\ needsRender' = TRUE
        /\ loaded' \in {loaded, Lru!Insert(loaded, t, TileBytes[t])}
    BY <1>4 DEF ReceiveTile, CacheInv
  <2>2. loaded \in Caches(RamLimit)
    BY DEF CacheInv
  <2>3. /\ loaded' \in Caches(RamLimit)
        /\ Lru!Keys(loaded') \in {Lru!Keys(loaded), Lru!Keys(loaded) \cup {t}}
    <3> HIDE DEF t
    <3> QED
      BY <1>1, <2>1, <2>2, InsertKeys
  <2> QED
    BY <1>2, <1>4, <2>1, <2>3
<1> QED
  BY <1>3, <1>4

(* The upload moves keys of the memory cache to that of the GPU; if it     *)
(* leaves a tile for later, another frame is due.                          *)
LEMMA TilesUploaded ==
  ASSUME WorkerControlTypeOK, CacheInv, UploadTiles
  PROVE  /\ loaded' \in Caches(RamLimit)
         /\ Lru!Keys(loaded') = Lru!Keys(loaded)
         /\ uploaded' \in Caches(GpuLimit)
         /\ Lru!Keys(uploaded) \subseteq Lru!Keys(uploaded')
         /\ ~needsRender' => \A t \in VisibleSet(view) : ~NeedsUpload(t)'
<1> DEFINE tiles == VisibleTiles[view]
           waiting == {i \in DOMAIN tiles : NeedsUpload(tiles[i])
                                             /\ Lru!IsFirst(tiles, i, tiles[i])}
           budget == IF moving THEN MovingUploads ELSE IdleUploads
           now == {i \in waiting : Cardinality({j \in waiting : j < i}) < budget}
<1>1. /\ loaded' = Lru!GetAll(loaded, tiles, now)
      /\ uploaded' = Lru!InsertAll(uploaded, TileBytes, tiles, now)
      /\ needsRender' = (now # waiting)
      /\ gpuReady' = gpuReady
  BY DEF UploadTiles, mapVars
<1>2. tiles \in Seq(Tiles)
  BY WorkerAssumption DEF WorkerControlTypeOK
<1>3. loaded \in Caches(RamLimit) /\ uploaded \in Caches(GpuLimit)
  BY DEF CacheInv
<1>4. now \in SUBSET DOMAIN tiles /\ now \subseteq waiting
  OBVIOUS
<1>5. IsFiniteSet(now)
  <2>1. IsFiniteSet(DOMAIN tiles)
    <3> HIDE DEF now, tiles
    <3>1. DOMAIN tiles = 1..Len(tiles) /\ Len(tiles) \in Int
      BY <1>2
    <3> QED
      BY <3>1, FS_Interval
  <2> HIDE DEF now, tiles
  <2> QED
    BY <1>4, <2>1, FS_Subset
<1>6. /\ loaded' \in Caches(RamLimit)
      /\ Lru!Keys(loaded') = Lru!Keys(loaded)
  <2> HIDE DEF now, tiles
  <2> QED
    BY <1>1, <1>2, <1>3, <1>4, <1>5, GetAllKeys
<1>7. /\ uploaded' \in Caches(GpuLimit)
      /\ Lru!Keys(uploaded') = Lru!Keys(uploaded) \cup {tiles[i] : i \in now}
  <2> HIDE DEF now, tiles
  <2> QED
    BY <1>1, <1>2, <1>3, <1>4, <1>5, InsertAllKeys
<1>8. ASSUME ~needsRender', NEW t \in VisibleSet(view)
      PROVE  ~NeedsUpload(t)'
  <2>1. now = waiting
    BY <1>1, <1>8
  <2>2. PICK i \in DOMAIN tiles : t = tiles[i] /\ Lru!IsFirst(tiles, i, t)
    BY <1>2, FirstPlace DEF VisibleSet
  <2>3. NeedsUpload(t) => i \in now
    BY <2>1, <2>2
  <2> HIDE DEF now, tiles
  <2> QED
    BY <1>1, <1>6, <1>7, <2>2, <2>3 DEF NeedsUpload, Lru!ContainsKey
<1> QED
  BY <1>6, <1>7, <1>8

(* An eviction takes one key from a cache that is over its limit. It takes *)
(* a visible one only if the cache holds nothing else, so that the tiles   *)
(* of the view alone are more than it may hold.                            *)
LEMMA TileEvicted ==
  ASSUME NEW limit \in Nat, NEW c \in Caches(limit), Lru!OverLimit(c),
         view \in Views
  PROVE  LET e == Lru!EvictOne(c, VisibleSet(view)) IN
         /\ e \in Caches(limit)
         /\ \E t \in Lru!Keys(c) :
              /\ Lru!Keys(e) = Lru!Keys(c) \ {t}
              /\ t \in VisibleSet(view) =>
                   Lru!Keys(c) \subseteq VisibleSet(view) /\ ViewBytes > limit
<1> DEFINE V == VisibleSet(view)
           e == Lru!EvictOne(c, V)
<1>1. /\ Lru!Keys(c) \in SUBSET Tiles
      /\ c.bytes = TilesSize(Lru!Keys(c)) /\ c.bytes \in Nat /\ c.limit = limit
  BY CacheParts
<1>2. c.bytes > limit
  BY <1>1 DEF Lru!OverLimit
<1>3. Lru!Keys(c) # {}
  BY <1>1, <1>2, TilesSizes
<1>4. /\ e \in Caches(limit)
      /\ \E t \in Lru!Keys(c) : /\ Lru!Keys(e) = Lru!Keys(c) \ {t}
                                /\ t \in V => Lru!Keys(c) \subseteq V
  <2> HIDE DEF V
  <2> QED
    BY <1>3, EvictOneKeys
<1>5. V \in SUBSET Tiles
  BY WorkerAssumption DEF VisibleSet
<1>6. ASSUME Lru!Keys(c) \subseteq V
      PROVE  ViewBytes > limit
  <2>1. TilesSize(Lru!Keys(c)) <= TilesSize(V)
    BY <1>5, <1>6, TilesSizeMonotone
  <2>2. ViewBytes = TilesSize(V) /\ TilesSize(V) \in Nat
    BY <1>5, TilesSizes DEF ViewBytes, TilesSize
  <2> QED
    BY <1>1, <1>2, <2>1, <2>2
<1> HIDE DEF e, V
<1> QED
  BY <1>4, <1>6 DEF e, V

(* A frame that plans tiles forgets pending ones that it no longer plans   *)
(* and chooses others to ask for, as many as the budget leaves slots for.  *)
LEMMA FramePlanned ==
  ASSUME WorkerControlTypeOK, CacheInv, RenderFrame, PlanRequests
  PROVE  /\ loaded' \in Caches(RamLimit)
         /\ uploaded' \in Caches(GpuLimit)
         /\ pendingLoads' = pendingMetadata'
         /\ pendingLoads' \cap Lru!Keys(loaded') = {}
         /\ \A r, s \in outbox' : r.id = s.id => r = s
         /\ OutboxIds' \cap (pendingLoads' \cup Lru!Keys(loaded')) = {}
         /\ Cardinality(pendingLoads' \cup OutboxIds') <= LargestBudget
         /\ \A t \in VisibleSet(view') : Provided(t)'
<1> DEFINE planned == PlannedTiles(view', moving')
           zoom == ViewZoom(view')
           kept == pendingLoads \cap planned
           wanted == planned \ (Lru!Keys(loaded') \cup kept)
<1>1. /\ view' \in Views /\ moving' \in BOOLEAN /\ pendingLoads \subseteq Tiles
      /\ planned \subseteq Tiles
  <2>1. WorkerControlTypeOK'
    BY FrameTyped
  <2>2. view' \in Views /\ moving' \in BOOLEAN /\ pendingLoads \subseteq Tiles
    BY <2>1 DEF WorkerControlTypeOK
  <2> QED
    BY <2>2, PlannedTyped
<1>2. /\ loaded' = EvictFarZoom(loaded, zoom)
      /\ uploaded' = EvictFarZoom(uploaded, zoom)
      /\ pendingLoads' = kept
      /\ pendingMetadata' = pendingMetadata \cap planned
  BY DEF PlanRequests
<1>3. /\ loaded' \in Caches(RamLimit)
      /\ Lru!Keys(loaded') \subseteq Lru!Keys(loaded)
      /\ uploaded' \in Caches(GpuLimit)
  <2>1. loaded \in Caches(RamLimit) /\ uploaded \in Caches(GpuLimit)
    BY DEF CacheInv
  <2> HIDE DEF zoom
  <2> QED
    BY <1>2, <2>1, FarZoomEvicted
<1>4. PICK budget \in Budgets(moving') :
         \E chosen \in
              Selections(view', wanted, Lru!SaturatingSub(budget, Cardinality(kept))) :
           outbox' = {[id |-> t, tier |-> TierOf(view', t)] : t \in chosen}
  BY DEF PlanRequests, Missing
<1> DEFINE slots == Lru!SaturatingSub(budget, Cardinality(kept))
<1>5. PICK chosen \in SUBSET wanted :
         /\ Cardinality(chosen) <= slots
         /\ Cardinality(chosen) = slots \/ chosen = wanted
         /\ outbox' = {[id |-> t, tier |-> TierOf(view', t)] : t \in chosen}
  BY <1>4 DEF Selections
<1>6. OutboxIds' = chosen /\ \A r, s \in outbox' : r.id = s.id => r = s
  <2>1. \A r \in outbox' : r.id \in chosen /\ r.tier = TierOf(view', r.id)
    BY <1>5
  <2>2. ASSUME NEW t \in chosen PROVE \E r \in outbox' : r.id = t
    <3>1. [id |-> t, tier |-> TierOf(view', t)] \in outbox'
      BY <1>5
    <3> QED
      BY <3>1
  <2>3. \A r, s \in outbox' : r.id = s.id => r = s
    BY <1>5
  <2> QED
    BY <2>1, <2>2, <2>3 DEF OutboxIds
<1>7. /\ budget \in Nat /\ SmallestBudget <= budget /\ budget <= LargestBudget
      /\ SmallestBudget \in Nat /\ LargestBudget \in Nat
  BY <1>1, Extremes
<1>8. /\ IsFiniteSet(kept) /\ IsFiniteSet(chosen) /\ kept \cap chosen = {}
      /\ Cardinality(kept) <= LargestBudget
  <2>1. /\ IsFiniteSet(kept) /\ IsFiniteSet(chosen) /\ IsFiniteSet(pendingLoads)
        /\ IsFiniteSet(pendingLoads \cup OutboxIds)
    <3>1. OutboxIds \subseteq Tiles
      BY DEF OutboxIds, WorkerControlTypeOK, Request
    <3>2. kept \subseteq Tiles /\ chosen \subseteq Tiles
            /\ pendingLoads \cup OutboxIds \subseteq Tiles
      BY <1>1, <3>1
    <3> HIDE DEF kept
    <3> QED
      BY <1>1, <3>2, FS_Subset, WorkerAssumption
  <2>2. kept \subseteq pendingLoads \cup OutboxIds
    OBVIOUS
  <2>3. /\ Cardinality(kept) <= Cardinality(pendingLoads \cup OutboxIds)
        /\ Cardinality(kept) \in Nat
        /\ Cardinality(pendingLoads \cup OutboxIds) \in Nat
    <3> HIDE DEF kept
    <3> QED
      BY <2>1, <2>2, FS_Subset, FS_CardinalityType
  <2>4. Cardinality(pendingLoads \cup OutboxIds) <= LargestBudget
    BY DEF CacheInv
  <2>5. kept \cap chosen = {}
    OBVIOUS
  <2> QED
    BY <1>7, <2>1, <2>3, <2>4, <2>5
<1>9. /\ Cardinality(kept) \in Nat /\ Cardinality(chosen) \in Nat
      /\ Cardinality(kept \cup chosen) = Cardinality(kept) + Cardinality(chosen)
  <2> HIDE DEF kept
  <2>1. Cardinality(kept \cup chosen)
          = Cardinality(kept) + Cardinality(chosen) - Cardinality(kept \cap chosen)
    BY <1>8, FS_Union
  <2>2. Cardinality(kept) \in Nat /\ Cardinality(chosen) \in Nat
    BY <1>8, FS_CardinalityType
  <2>3. Cardinality(kept \cap chosen) = 0
    BY <1>8, FS_EmptySet
  <2> QED
    BY <2>1, <2>2, <2>3
<1>10. /\ Cardinality(kept) + slots >= budget
       /\ Cardinality(kept) + slots <= LargestBudget
  <2> HIDE DEF kept
  <2> QED
    BY <1>7, <1>8, <1>9 DEF Lru!SaturatingSub
<1>11. Cardinality(pendingLoads' \cup OutboxIds') <= LargestBudget
  <2>1. slots \in Nat
    <3> HIDE DEF kept
    <3> QED
      BY <1>7, <1>9 DEF Lru!SaturatingSub
  <2> HIDE DEF kept, slots
  <2> QED
    BY <1>2, <1>5, <1>6, <1>7, <1>9, <1>10, <2>1
<1>12. ASSUME NEW t \in VisibleSet(view') PROVE Provided(t)'
  <2>1. t \in planned
    BY DEF PlannedTiles
  <2>2. CASE chosen = wanted
    BY <1>2, <1>6, <2>1, <2>2 DEF Provided
  <2>3. CASE Cardinality(chosen) = slots
    <3>1. Cardinality(pendingLoads' \cup OutboxIds') >= SmallestBudget
      <4> HIDE DEF kept, slots
      <4> QED
        BY <1>2, <1>6, <1>7, <1>9, <1>10, <2>3
    <3> QED
      BY <3>1 DEF Provided
  <2> QED
    BY <1>5, <2>2, <2>3
<1>13. pendingLoads' = pendingMetadata'
  BY <1>2 DEF CacheInv
<1>14. /\ pendingLoads' \cap Lru!Keys(loaded') = {}
       /\ OutboxIds' \cap (pendingLoads' \cup Lru!Keys(loaded')) = {}
  BY <1>2, <1>3, <1>6 DEF CacheInv
<1> QED
  BY <1>3, <1>6, <1>11, <1>12, <1>13, <1>14

(* A request that is sent stays within what the frame chose.               *)
LEMMA RequestSent ==
  ASSUME CacheInv, NEW r \in outbox, NEW p, SendRequest(r, p)
  PROVE  /\ pendingLoads' = pendingMetadata'
         /\ pendingLoads' \cap Lru!Keys(loaded) = {}
         /\ \A q, s \in outbox' : q.id = s.id => q = s
         /\ OutboxIds' \cap (pendingLoads' \cup Lru!Keys(loaded)) = {}
         /\ pendingLoads' \cup OutboxIds' = pendingLoads \cup OutboxIds
<1>1. /\ outbox' = outbox \ {r}
      /\ pendingLoads' = pendingLoads \cup {r.id}
      /\ pendingMetadata' = pendingMetadata \cup {r.id}
  BY DEF SendRequest
<1>2. OutboxIds' = OutboxIds \ {r.id}
  BY <1>1 DEF CacheInv, OutboxIds
<1>3. r.id \in OutboxIds
  BY DEF OutboxIds
<1> QED
  BY <1>1, <1>2, <1>3 DEF CacheInv

---------------------------------------------------------------------------
(* The steps of the worker, one invariant after the other.                 *)

(* What most actions leave alone.                                          *)
LEMMA CacheQuiet ==
  ASSUME CacheInv, UNCHANGED <<pendingVars, outbox, loaded, uploaded>>,
         workerPc' = workerPc \/ workerPc # "sending"
  PROVE  CacheInv'
BY DEF CacheInv, OutboxIds, pendingVars

LEMMA CacheStep ==
  ASSUME WorkerControlTypeOK, CacheInv, WorkerThread
  PROVE  CacheInv'
<1> USE DEF mapVars, pendingVars, cacheVars
<1>1. CASE \/ WorkerStarts \/ WorkerFailsToStart \/ WorkerShutdown
           \/ Resize \/ SetCamera \/ AddTileLayer \/ RemoveLayer
           \/ SetLayerVisible \/ SetLayerOpacity \/ DrawFrame \/ MotionExpires
  <2>1. UNCHANGED <<pendingVars, outbox, loaded, uploaded>>
    BY <1>1
    DEF WorkerStarts, WorkerFailsToStart, WorkerShutdown, Resize, ResizeWith,
        SetCamera, AddTileLayer, RemoveLayer, SetLayerVisible, SetLayerOpacity,
        LayersUnchanged, DrawFrame, MotionExpires, workerVars
  <2>2. workerPc' = workerPc \/ workerPc # "sending"
    BY <1>1
    DEF WorkerStarts, WorkerFailsToStart, WorkerShutdown, Resize, ResizeWith,
        SetCamera, AddTileLayer, RemoveLayer, SetLayerVisible, SetLayerOpacity, Take,
        DrawFrame, MotionExpires
  <2> QED
    BY <2>1, <2>2, CacheQuiet
<1>2. CASE SurfaceCreated \/ SurfaceDestroyed
  <2>1. uploaded' \in Caches(GpuLimit)
    BY <1>2, NewCacheKeys DEF SurfaceCreated, SurfaceDestroyed
  <2>2. UNCHANGED <<pendingVars, outbox, loaded, workerPc>>
    BY <1>2 DEF SurfaceCreated, SurfaceDestroyed
  <2> QED
    BY <2>1, <2>2 DEF CacheInv, OutboxIds
<1>3. CASE ReceiveTile
  <2>1. UNCHANGED <<uploaded, outbox>> /\ outbox = {} /\ OutboxIds = {}
          /\ pendingLoads \subseteq Tiles
    BY <1>3 DEF ReceiveTile, Take, CacheInv, OutboxIds, WorkerControlTypeOK
  <2>2. OutboxIds' = {}
    BY <2>1 DEF OutboxIds
  <2>3. CASE UNCHANGED <<pendingLoads, pendingMetadata, loaded>>
    BY <2>1, <2>2, <2>3 DEF CacheInv
  <2>4. ASSUME NEW t \in pendingLoads,
               pendingLoads' = pendingLoads \ {t},
               pendingMetadata' = pendingLoads \ {t},
               loaded' \in Caches(RamLimit),
               Lru!Keys(loaded') \in
                 {Lru!Keys(loaded), Lru!Keys(loaded) \cup {t}}
        PROVE  CacheInv'
    <3>1. Cardinality(pendingLoads) <= LargestBudget
      BY <2>1 DEF CacheInv
    <3>2. Cardinality(pendingLoads') <= LargestBudget
      <4>1. IsFiniteSet(pendingLoads)
        BY <2>1, FS_Subset, WorkerAssumption
      <4>2. /\ Cardinality(pendingLoads \ {t}) <= Cardinality(pendingLoads)
            /\ Cardinality(pendingLoads \ {t}) \in Nat
            /\ Cardinality(pendingLoads) \in Nat
        BY <4>1, FS_Subset, FS_CardinalityType
      <4> QED
        BY <2>4, <3>1, <4>2, Extremes
    <3>3. pendingLoads' \cap Lru!Keys(loaded') = {}
      BY <2>4 DEF CacheInv
    <3> QED
      BY <2>1, <2>2, <2>4, <3>2, <3>3 DEF CacheInv
  <2> QED
    BY <1>3, <2>3, <2>4, TileReceived
<1>4. CASE RenderFrame
  <2>1. workerPc = "loop"
    BY <1>4 DEF RenderFrame
  <2>2. CASE SkipPlanning
    BY <2>1, <2>2, CacheQuiet DEF SkipPlanning
  <2>3. CASE PlanRequests
    <3>1. workerPc' = "sending"
      BY <2>3 DEF PlanRequests
    <3> QED
      BY <1>4, <2>3, <3>1, FramePlanned DEF CacheInv
  <2> QED
    BY <1>4, <2>2, <2>3 DEF RenderFrame
<1>5. ASSUME NEW r \in outbox, NEW p \in PriorityLevels, SendRequest(r, p)
      PROVE  CacheInv'
  <2>1. UNCHANGED <<loaded, uploaded, workerPc>> /\ workerPc = "sending"
    BY <1>5 DEF SendRequest
  <2> QED
    BY <1>5, <2>1, RequestSent DEF CacheInv
<1>6. CASE UploadTiles
  <2>1. /\ UNCHANGED <<pendingVars, outbox>> /\ outbox = {}
    BY <1>6 DEF UploadTiles
  <2>2. OutboxIds' = OutboxIds
    BY <2>1 DEF OutboxIds
  <2> QED
    BY <1>6, <2>1, <2>2, TilesUploaded DEF CacheInv
<1>7. CASE EvictTile
  <2>1. UNCHANGED <<pendingVars, outbox>> /\ workerPc = "evicting"
    BY <1>7 DEF EvictTile
  <2>2. OutboxIds' = OutboxIds /\ outbox = {}
    BY <2>1 DEF OutboxIds, CacheInv
  <2>3. /\ loaded' \in Caches(RamLimit)
        /\ uploaded' \in Caches(GpuLimit)
        /\ Lru!Keys(loaded') \subseteq Lru!Keys(loaded)
    <3>1. loaded \in Caches(RamLimit) /\ uploaded \in Caches(GpuLimit)
      BY DEF CacheInv
    <3> QED
      BY <1>7, <3>1, EvictOneKeys DEF EvictTile
  <2> QED
    BY <2>1, <2>2, <2>3 DEF CacheInv
<1> QED
  BY <1>1, <1>2, <1>3, <1>4, <1>5, <1>6, <1>7
  DEF WorkerThread, ReceiveCommand, ContinueFrame

(* The surface only ever shows a view and uploaded tiles of it, or none.   *)
LEMMA ScreenTypedStep ==
  ASSUME WorkerControlTypeOK, CacheInv, ScreenTypeOK, WorkerThread
  PROVE  ScreenTypeOK'
<1> USE DEF mapVars, screenVars, ScreenTypeOK
<1>1. CASE SurfaceCreated \/ SurfaceDestroyed \/ Resize
  BY <1>1
  DEF SurfaceCreated, SurfaceDestroyed, Resize, ResizeWith, WorkerControlTypeOK
<1>2. CASE DrawFrame
  <2>1. Picture \in {Nothing, Cleared} \cup [view : Views, drawn : SUBSET Tiles]
    <3>1. Lru!Keys(uploaded) \subseteq Tiles
      BY CacheParts DEF CacheInv
    <3>2. view \in Views
      BY DEF WorkerControlTypeOK
    <3> QED
      BY <3>1, <3>2 DEF Picture
  <2> QED
    BY <1>2, <2>1 DEF DrawFrame
<1>3. CASE UNCHANGED screenVars
  BY <1>3
<1> QED
  BY <1>1, <1>2, <1>3
  DEF WorkerThread, ReceiveCommand, ContinueFrame, WorkerStarts,
      WorkerFailsToStart, SetCamera, AddTileLayer, RemoveLayer,
      SetLayerVisible, SetLayerOpacity, LayersUnchanged, ReceiveTile,
      WorkerShutdown, RenderFrame, SendRequest, UploadTiles, EvictTile,
      MotionExpires, workerVars

(* Whatever changes the picture makes a frame due, and a frame that is     *)
(* drawn shows it.                                                         *)
LEMMA ScreenStep ==
  ASSUME WorkerControlTypeOK, ScreenInv, WorkerThread
  PROVE  ScreenInv'
<1> USE DEF mapVars, screenVars, cacheVars, ScreenInv, ScreenIsCurrent
<1>1. CASE WorkerStarts
  BY <1>1 DEF WorkerStarts, workerVars
<1>2. CASE WorkerFailsToStart \/ WorkerShutdown
  BY <1>2 DEF WorkerFailsToStart, WorkerShutdown
<1>3. CASE SurfaceCreated \/ SurfaceDestroyed
  BY <1>3 DEF SurfaceCreated, SurfaceDestroyed, Take
<1>4. CASE needsRender' /\ workerPc' = "loop"
  BY <1>4
<1>5. CASE UNCHANGED <<view, viewport, layers, uploaded, screenVars, gpuReady,
                       needsRender, workerPc>>
  BY <1>5 DEF Picture, HasVisibleTileLayer
<1>6. CASE Resize
  BY <1>5, <1>6 DEF Resize, ResizeWith, Take
<1>7. CASE SetCamera \/ RemoveLayer
  BY <1>4, <1>7 DEF SetCamera, RemoveLayer, LayersUnchanged, Take
<1>8. CASE AddTileLayer \/ SetLayerVisible \/ SetLayerOpacity
  BY <1>4, <1>5, <1>8
  DEF AddTileLayer, SetLayerVisible, SetLayerOpacity, LayersUnchanged, Take
<1>9. CASE ReceiveTile
  BY <1>4, <1>5, <1>9 DEF ReceiveTile, Take
<1>10. CASE RenderFrame
  BY <1>10 DEF RenderFrame, SkipPlanning, PlanRequests
<1>11. ASSUME NEW r \in outbox, NEW p \in PriorityLevels, SendRequest(r, p)
       PROVE  ScreenInv'
  BY <1>11 DEF SendRequest
<1>12. CASE UploadTiles \/ EvictTile
  BY <1>12 DEF UploadTiles, EvictTile
<1>13. CASE DrawFrame
  BY <1>13 DEF DrawFrame, Picture, HasVisibleTileLayer
<1>14. CASE MotionExpires
  BY <1>5, <1>14 DEF MotionExpires
<1> QED
  BY <1>1, <1>2, <1>3, <1>6, <1>7, <1>8, <1>9, <1>10, <1>11, <1>12, <1>13, <1>14
  DEF WorkerThread, ReceiveCommand, ContinueFrame

(* A pending tile that arrives takes at most the room that it had.         *)
LEMMA ArrivedBytesGrow ==
  ASSUME NEW P \in SUBSET Tiles, Cardinality(P) <= LargestBudget
  PROVE  /\ ArrivedBytes(P) \in Nat
         /\ \A t \in P : ArrivedBytes(P \ {t}) = ArrivedBytes(P) + LargestTile
<1>1. IsFiniteSet(P)
  BY FS_Subset, WorkerAssumption
<1>2. Cardinality(P) \in Nat /\ LargestBudget \in Nat /\ LargestTile \in Nat
  BY <1>1, FS_CardinalityType, Extremes
<1>3. ArrivedBytes(P) \in Nat
  <2>1. LargestBudget - Cardinality(P) \in Nat
    BY <1>2
  <2>2. \A m, n \in Nat : m * n \in Nat
    OBVIOUS
  <2> QED
    BY <1>2, <2>1, <2>2 DEF ArrivedBytes
<1>4. ASSUME NEW t \in P
      PROVE  ArrivedBytes(P \ {t}) = ArrivedBytes(P) + LargestTile
  <2>1. Cardinality(P \ {t}) = Cardinality(P) - 1
    BY <1>1, FS_RemoveElement
  <2>2. \A m, n \in Int : m * (n + 1) = m * n + m
    OBVIOUS
  <2>3. LargestBudget - Cardinality(P \ {t}) = (LargestBudget - Cardinality(P)) + 1
    BY <1>2, <2>1
  <2> QED
    BY <1>2, <2>2, <2>3 DEF ArrivedBytes
<1> QED
  BY <1>3, <1>4

LEMMA MemoryStep ==
  ASSUME WorkerControlTypeOK, CacheInv, ScreenInv, MemoryInv, WorkerThread
  PROVE  MemoryInv'
<1> USE DEF mapVars, screenVars, cacheVars, pendingVars, MemoryInv
<1>0. /\ loaded \in Caches(RamLimit) /\ loaded.bytes \in Nat /\ RamLimit \in Nat
      /\ loaded.bytes = TilesSize(Lru!Keys(loaded)) /\ loaded.limit = RamLimit
      /\ uploaded \in Caches(GpuLimit) /\ GpuLimit \in Nat
      /\ Lru!Keys(loaded) \in SUBSET Tiles
  BY CacheParts, WorkerAssumption DEF CacheInv
<1>1. CASE WorkerStarts
  BY <1>1 DEF WorkerStarts, workerVars, HasVisibleTileLayer
<1>2. CASE workerPc' \in {"sending", "stopped"}
  BY <1>2
<1>3. CASE SurfaceCreated \/ SurfaceDestroyed
  <2>1. uploaded'.bytes = 0
    BY <1>3, NewCacheKeys DEF SurfaceCreated, SurfaceDestroyed
  <2> QED
    BY <1>0, <1>3, <2>1
    DEF SurfaceCreated, SurfaceDestroyed, Take, HasVisibleTileLayer
<1>4. CASE /\ needsRender' /\ workerPc = "loop" /\ workerPc' = "loop"
           /\ UNCHANGED <<loaded, uploaded, pendingLoads>>
  BY <1>4
<1>5. CASE UNCHANGED <<loaded, uploaded, pendingLoads, viewport, layers,
                       needsRender, workerPc>>
  BY <1>5 DEF HasVisibleTileLayer
<1>6. CASE Resize
  BY <1>4, <1>5, <1>6 DEF Resize, ResizeWith, Take
<1>7. CASE SetCamera \/ RemoveLayer
  BY <1>4, <1>7 DEF SetCamera, RemoveLayer, LayersUnchanged, Take
<1>8. CASE AddTileLayer \/ SetLayerVisible \/ SetLayerOpacity
  BY <1>4, <1>5, <1>8
  DEF AddTileLayer, SetLayerVisible, SetLayerOpacity, LayersUnchanged, Take
<1>9. CASE ReceiveTile
  <2>1. UNCHANGED <<uploaded, viewport, layers, workerPc>> /\ workerPc = "loop"
    BY <1>9 DEF ReceiveTile, Take
  <2>2. CASE UNCHANGED <<pendingLoads, pendingMetadata, loaded, needsRender>>
    BY <1>5, <2>1, <2>2
  <2>3. ASSUME NEW t \in pendingLoads,
               pendingLoads' = pendingLoads \ {t},
               needsRender',
               loaded' \in Caches(RamLimit),
               Lru!Keys(loaded') \in
                 {Lru!Keys(loaded), Lru!Keys(loaded) \cup {t}}
        PROVE  MemoryInv'
    <3>1. pendingLoads \in SUBSET Tiles /\ Cardinality(pendingLoads) <= LargestBudget
      <4>1. outbox = {}
        BY <2>1 DEF CacheInv
      <4> QED
        BY <4>1 DEF CacheInv, OutboxIds, WorkerControlTypeOK
    <3>2. loaded'.bytes <= loaded.bytes + LargestTile
      <4>1. loaded'.bytes = TilesSize(Lru!Keys(loaded'))
        BY <2>3, CacheParts
      <4>2. t \in Tiles \ Lru!Keys(loaded)
        BY <3>1 DEF CacheInv
      <4>3. TilesSize(Lru!Keys(loaded) \cup {t}) = loaded.bytes + TileBytes[t]
        BY <1>0, <4>2, TilesSizes
      <4>4. TileBytes[t] \in Nat /\ TileBytes[t] <= LargestTile /\ LargestTile \in Nat
        BY <4>2, Extremes, WorkerAssumption
      <4>5. loaded'.bytes \in {loaded.bytes, loaded.bytes + TileBytes[t]}
        BY <1>0, <2>3, <4>1, <4>3
      <4> QED
        BY <1>0, <4>4, <4>5
    <3>3. ArrivedBytes(pendingLoads') = ArrivedBytes(pendingLoads) + LargestTile
      BY <2>3, <3>1, ArrivedBytesGrow
    <3>4. loaded.bytes <= RamLimit + ArrivedBytes(pendingLoads)
            /\ uploaded.bytes <= GpuLimit
      BY <2>1
    <3>5. loaded'.bytes \in Nat /\ LargestTile \in Nat
            /\ ArrivedBytes(pendingLoads) \in Nat
      BY <2>3, <3>1, CacheParts, Extremes, ArrivedBytesGrow
    <3>6. loaded'.bytes <= RamLimit + ArrivedBytes(pendingLoads')
      BY <1>0, <3>2, <3>3, <3>4, <3>5
    <3> QED
      BY <2>1, <2>3, <3>4, <3>6
  <2> QED
    BY <1>9, <2>2, <2>3, TileReceived
<1>10. CASE RenderFrame
  <2>1. CASE SkipPlanning
    <3>1. ~(HasVisibleTileLayer /\ viewport)
      BY <1>10, <2>1 DEF RenderFrame, SkipPlanning, PlanRequests
    <3> QED
      BY <1>10, <2>1, <3>1 DEF RenderFrame, SkipPlanning, HasVisibleTileLayer
  <2>2. CASE PlanRequests
    BY <1>2, <2>2 DEF PlanRequests
  <2> QED
    BY <1>10, <2>1, <2>2 DEF RenderFrame
<1>11. ASSUME NEW r \in outbox, NEW p \in PriorityLevels, SendRequest(r, p)
       PROVE  MemoryInv'
  BY <1>11 DEF SendRequest
<1>12. CASE UploadTiles \/ EvictTile
  <2>1. CacheInv' /\ WorkerControlTypeOK'
    BY CacheStep, WorkerStepTyped
  <2>2. workerPc' = IF OverLimit(loaded', uploaded') THEN "evicting" ELSE "drawing"
    BY <1>12 DEF UploadTiles, EvictTile
  <2>3. CASE OverLimit(loaded', uploaded')
    BY <2>2, <2>3
  <2>4. CASE ~OverLimit(loaded', uploaded')
    <3>1. /\ loaded' \in Caches(RamLimit) /\ uploaded' \in Caches(GpuLimit)
          /\ Cardinality(pendingLoads') <= LargestBudget
          /\ pendingLoads' \in SUBSET Tiles
      <4>1. outbox' = {}
        BY <2>1, <2>2, <2>4 DEF CacheInv
      <4>2. pendingLoads' \cup OutboxIds' = pendingLoads'
        BY <4>1 DEF OutboxIds
      <4>3. pendingLoads' \in SUBSET Tiles
        BY <2>1 DEF WorkerControlTypeOK
      <4> QED
        BY <2>1, <4>2, <4>3 DEF CacheInv
    <3>2. /\ loaded'.bytes \in Nat /\ loaded'.limit = RamLimit
          /\ uploaded'.bytes \in Nat /\ uploaded'.limit = GpuLimit
      BY <3>1, CacheParts
    <3>3. loaded'.bytes <= RamLimit /\ uploaded'.bytes <= GpuLimit
      BY <1>0, <2>4, <3>2 DEF OverLimit, Lru!OverLimit
    <3>4. ArrivedBytes(pendingLoads') \in Nat
      BY <3>1, ArrivedBytesGrow
    <3>5. loaded'.bytes <= RamLimit + ArrivedBytes(pendingLoads')
      BY <1>0, <3>2, <3>3, <3>4
    <3> QED
      BY <2>2, <2>4, <3>3, <3>5
  <2> QED
    BY <2>2, <2>3, <2>4
<1>13. CASE DrawFrame
  BY <1>13 DEF DrawFrame, HasVisibleTileLayer
<1>14. CASE MotionExpires
  BY <1>5, <1>14 DEF MotionExpires
<1>15. CASE WorkerFailsToStart \/ WorkerShutdown
  BY <1>2, <1>15 DEF WorkerFailsToStart, WorkerShutdown
<1> QED
  BY <1>1, <1>3, <1>6, <1>7, <1>8, <1>9, <1>10, <1>11, <1>12, <1>13, <1>14, <1>15
  DEF WorkerThread, ReceiveCommand, ContinueFrame

LEMMA SightStep ==
  ASSUME WorkerControlTypeOK, CacheInv, ScreenInv, MemoryInv, SightInv,
         WorkerThread
  PROVE  SightInv'
<1> USE DEF mapVars, screenVars, cacheVars, pendingVars
<1>1. CASE WorkerStarts
  BY <1>1 DEF SightInv, ScreenInv, WorkerStarts, workerVars
<1>2. CASE WorkerFailsToStart \/ WorkerShutdown
  BY <1>2 DEF SightInv, WorkerFailsToStart, WorkerShutdown
<1>3. CASE needsRender' /\ workerPc' = "loop"
  BY <1>3 DEF SightInv
<1>4. ASSUME UNCHANGED <<view, pendingLoads, outbox, loaded>>, NEW t
      PROVE  Provided(t)' <=> Provided(t)
  BY <1>4 DEF Provided, OutboxIds, ViewBytes
<1>5. ASSUME UNCHANGED <<view, viewport, layers, pendingLoads, outbox, loaded,
                         uploaded, gpuReady, needsRender>>,
             \/ workerPc' = workerPc
             \/ workerPc = "drawing" /\ workerPc' = "loop"
      PROVE  SightInv'
  <2>1. HasVisibleTileLayer' = HasVisibleTileLayer /\ ViewBytes' = ViewBytes
    BY <1>5 DEF HasVisibleTileLayer, ViewBytes
  <2>2. \A t : Provided(t)' <=> Provided(t)
    BY <1>4, <1>5
  <2>3. \A t : NeedsUpload(t)' <=> NeedsUpload(t)
    BY <1>5 DEF NeedsUpload
  <2> QED
    BY <1>5, <2>1, <2>2, <2>3 DEF SightInv
<1>6. CASE SurfaceCreated
  BY <1>3, <1>6 DEF SurfaceCreated, Take
<1>7. CASE SurfaceDestroyed
  <2>1. /\ UNCHANGED <<view, viewport, layers, pendingLoads, outbox, loaded,
                       needsRender, workerPc>>
        /\ workerPc = "loop" /\ gpuReady' = FALSE
    BY <1>7 DEF SurfaceDestroyed, Take
  <2>2. \A t : ~NeedsUpload(t)'
    BY <2>1 DEF NeedsUpload
  <2>3. \A t : Provided(t)' <=> Provided(t)
    BY <1>4, <2>1
  <2>4. HasVisibleTileLayer' = HasVisibleTileLayer
    BY <2>1 DEF HasVisibleTileLayer
  <2> QED
    BY <2>1, <2>2, <2>3, <2>4 DEF SightInv
<1>8. CASE Resize
  BY <1>3, <1>5, <1>8 DEF Resize, ResizeWith, Take
<1>9. CASE SetCamera \/ RemoveLayer
  BY <1>3, <1>9 DEF SetCamera, RemoveLayer, LayersUnchanged, Take
<1>10. CASE AddTileLayer \/ SetLayerVisible \/ SetLayerOpacity
  BY <1>3, <1>5, <1>10
  DEF AddTileLayer, SetLayerVisible, SetLayerOpacity, LayersUnchanged, Take
<1>11. CASE ReceiveTile
  <2>1. /\ UNCHANGED <<mapVars, uploaded, outbox, workerPc>>
        /\ workerPc = "loop"
    BY <1>11 DEF ReceiveTile, Take
  <2> QED
    BY <1>3, <1>5, <1>11, <2>1, TileReceived
<1>12. CASE RenderFrame
  <2>1. CASE SkipPlanning
    <3>1. ~(HasVisibleTileLayer /\ viewport)
      BY <1>12, <2>1 DEF RenderFrame, SkipPlanning, PlanRequests
    <3> QED
      BY <1>12, <2>1, <3>1
      DEF SightInv, RenderFrame, SkipPlanning, HasVisibleTileLayer
  <2>2. CASE PlanRequests
    <3>1. workerPc' = "sending"
      BY <2>2 DEF PlanRequests
    <3> QED
      BY <1>12, <2>2, <3>1, FramePlanned DEF SightInv
  <2> QED
    BY <1>12, <2>1, <2>2 DEF RenderFrame
<1>13. ASSUME NEW r \in outbox, NEW p \in PriorityLevels, SendRequest(r, p)
       PROVE  SightInv'
  <2>1. UNCHANGED <<loaded, view, workerPc>> /\ workerPc = "sending"
    BY <1>13 DEF SendRequest
  <2>2. pendingLoads' \cup OutboxIds' = pendingLoads \cup OutboxIds
    BY <1>13, RequestSent
  <2>3. \A t : Provided(t) => Provided(t)'
    <3>1. ViewBytes' = ViewBytes
      BY <2>1 DEF ViewBytes
    <3> QED
      BY <2>1, <2>2, <3>1 DEF Provided
  <2> QED
    BY <2>1, <2>3 DEF SightInv
<1>14. CASE UploadTiles
  <2>1. /\ UNCHANGED <<view, pendingLoads, outbox>> /\ workerPc = "sending"
        /\ workerPc' \in {"evicting", "drawing"}
    BY <1>14 DEF UploadTiles
  <2>2. /\ Lru!Keys(loaded') = Lru!Keys(loaded)
        /\ ~needsRender' => \A t \in VisibleSet(view) : ~NeedsUpload(t)'
    BY <1>14, TilesUploaded
  <2>3. \A t : Provided(t) => Provided(t)'
    BY <2>1, <2>2 DEF Provided, OutboxIds, ViewBytes
  <2> QED
    BY <2>1, <2>2, <2>3 DEF SightInv
<1>15. CASE EvictTile
  <2>1. /\ UNCHANGED <<view, viewport, layers, gpuReady, needsRender,
                       pendingLoads, outbox>>
        /\ workerPc = "evicting" /\ workerPc' \in {"evicting", "drawing"}
    BY <1>15 DEF EvictTile
  <2>2. /\ loaded \in Caches(RamLimit) /\ uploaded \in Caches(GpuLimit)
        /\ RamLimit \in Nat /\ GpuLimit \in Nat /\ view \in Views
    BY WorkerAssumption DEF CacheInv, WorkerControlTypeOK
  <2>3. /\ HasVisibleTileLayer' = HasVisibleTileLayer
        /\ ViewBytes' = ViewBytes /\ VisibleSet(view') = VisibleSet(view)
        /\ OutboxIds' = OutboxIds
    BY <2>1 DEF HasVisibleTileLayer, ViewBytes, OutboxIds
  <2>4. CASE Lru!OverLimit(loaded)
    <3>1. loaded' = Lru!EvictOne(loaded, VisibleSet(view)) /\ uploaded' = uploaded
      BY <1>15, <2>4 DEF EvictTile
    <3>2. PICK t \in Lru!Keys(loaded) :
             /\ Lru!Keys(loaded') = Lru!Keys(loaded) \ {t}
             /\ t \in VisibleSet(view) => ViewBytes > RamLimit
      BY <2>2, <2>4, <3>1, TileEvicted
    <3>3. \A s \in VisibleSet(view) : Provided(s) => Provided(s)'
      BY <2>1, <2>3, <3>2 DEF Provided
    <3>4. \A s : NeedsUpload(s)' => NeedsUpload(s)
      BY <2>1, <3>1, <3>2 DEF NeedsUpload, Lru!ContainsKey
    <3> QED
      BY <2>1, <2>3, <3>3, <3>4 DEF SightInv
  <2>5. CASE ~Lru!OverLimit(loaded)
    <3>1. uploaded' = Lru!EvictOne(uploaded, VisibleSet(view)) /\ loaded' = loaded
      BY <1>15, <2>5 DEF EvictTile
    <3>2. Lru!OverLimit(uploaded)
      BY <2>1, <2>5 DEF MemoryInv, OverLimit
    <3>3. PICK t \in Lru!Keys(uploaded) :
             /\ Lru!Keys(uploaded') = Lru!Keys(uploaded) \ {t}
             /\ t \in VisibleSet(view) => ViewBytes > GpuLimit
      BY <2>2, <3>1, <3>2, TileEvicted
    <3>4. \A s : Provided(s)' <=> Provided(s)
      BY <1>4, <2>1, <3>1
    <3>5. \A s \in VisibleSet(view) :
             NeedsUpload(s)' => NeedsUpload(s) \/ ViewBytes > GpuLimit
      BY <2>1, <3>1, <3>3 DEF NeedsUpload, Lru!ContainsKey
    <3> QED
      BY <2>1, <2>3, <3>4, <3>5 DEF SightInv
  <2> QED
    BY <2>4, <2>5
<1>16. CASE DrawFrame
  BY <1>5, <1>16 DEF DrawFrame
<1>17. CASE MotionExpires
  BY <1>5, <1>17 DEF MotionExpires
<1> QED
  BY <1>1, <1>2, <1>6, <1>7, <1>8, <1>9, <1>10, <1>11, <1>12, <1>13, <1>14,
     <1>15, <1>16, <1>17
  DEF WorkerThread, ReceiveCommand, ContinueFrame

---------------------------------------------------------------------------
(* The worker.                                                             *)

LEMMA WorkerInitInv ==
  ChannelsInit /\ WorkerInit => WorkerInv
<1> SUFFICES ASSUME ChannelsInit, WorkerInit PROVE WorkerInv
  OBVIOUS
<1>1. WorkerControlTypeOK
  BY WorkerInitTyped
<1>2. ScreenTypeOK
  BY DEF WorkerInit, ScreenTypeOK
<1>3. ScreenInv
  BY DEF ChannelsInit, WorkerInit, ScreenInv, ScreenIsCurrent
<1>4. /\ loaded \in Caches(RamLimit) /\ Lru!Keys(loaded) = {} /\ loaded.bytes = 0
      /\ uploaded \in Caches(GpuLimit) /\ uploaded.bytes = 0
  BY NewCacheKeys DEF WorkerInit
<1>5. pendingLoads = {} /\ pendingMetadata = {} /\ outbox = {} /\ OutboxIds = {}
        /\ workerPc = "starting"
  BY DEF ChannelsInit, WorkerInit, OutboxIds
<1>6. Cardinality({}) <= LargestBudget
  BY FS_EmptySet, Extremes
<1>7. CacheInv
  BY <1>4, <1>5, <1>6 DEF CacheInv
<1>8. ArrivedBytes(pendingLoads) \in Nat
  BY <1>5, <1>6, ArrivedBytesGrow
<1>9. MemoryInv
  BY <1>4, <1>5, <1>8, WorkerAssumption DEF MemoryInv
<1>10. SightInv
  BY <1>5 DEF SightInv
<1> QED
  BY <1>1, <1>2, <1>3, <1>7, <1>9, <1>10 DEF WorkerInv

LEMMA WorkerStepInv ==
  ASSUME WorkerInv, WorkerThread
  PROVE  WorkerInv'
BY WorkerStepTyped, ScreenTypedStep, CacheStep, ScreenStep, MemoryStep, SightStep
   DEF WorkerInv

(* What the other threads do to the worker is to send it commands.         *)
LEMMA WorkerOthersInv ==
  ASSUME WorkerInv, UNCHANGED <<workerPc, workerVars>>,
         commands' \in Seq(RenderCommand)
  PROVE  WorkerInv'
<1> USE DEF workerVars, mapVars, screenVars, pendingVars, cacheVars
<1>1. WorkerControlTypeOK'
  BY DEF WorkerInv, WorkerControlTypeOK
<1>2. ScreenTypeOK' /\ CacheInv'
  BY DEF WorkerInv, ScreenTypeOK, CacheInv, OutboxIds
<1>3. HasVisibleTileLayer' = HasVisibleTileLayer /\ ViewBytes' = ViewBytes
        /\ OutboxIds' = OutboxIds
  BY DEF HasVisibleTileLayer, ViewBytes, OutboxIds
<1>4. ScreenInv'
  BY <1>3 DEF WorkerInv, ScreenInv, ScreenIsCurrent, Picture
<1>5. MemoryInv'
  BY <1>3 DEF WorkerInv, MemoryInv
<1>6. SightInv'
  BY <1>3 DEF WorkerInv, SightInv, Provided, NeedsUpload
<1> QED
  BY <1>1, <1>2, <1>4, <1>5, <1>6 DEF WorkerInv

(* The invariant gives every property of the worker's states.              *)
LEMMA WorkerInvImplies ==
  ASSUME WorkerInv
  PROVE  /\ WorkerTypeOK /\ PendingConsistent /\ RequestsWithinBudget
         /\ CachesWellFormed /\ MemoryBounded /\ NothingForgotten
         /\ ScreenIsCurrent
<1>1. /\ WorkerControlTypeOK /\ ScreenTypeOK /\ CacheInv /\ ScreenInv
      /\ MemoryInv /\ SightInv
  BY DEF WorkerInv
<1>2. loaded \in Caches(RamLimit) /\ uploaded \in Caches(GpuLimit)
  BY <1>1 DEF CacheInv
<1>3. WorkerTypeOK
  <2>1. ASSUME NEW limit, NEW c \in Caches(limit)
        PROVE  /\ Lru!Keys(c) \subseteq Tiles
               /\ c.order \in Seq(Tiles) /\ c.bytes \in Nat
    BY CacheParts DEF Orders
  <2>2. CacheTypeOK
    BY <1>2, <2>1 DEF CacheTypeOK
  <2> QED
    BY <1>1, <2>2 DEF WorkerTypeOK
<1>4. PendingConsistent
  BY <1>1 DEF CacheInv, PendingConsistent
<1>5. RequestsWithinBudget
  BY <1>1 DEF CacheInv, RequestsWithinBudget, OutboxIds
<1>6. CachesWellFormed
  BY <1>2, CachesAreWellFormed DEF CachesWellFormed
<1>7. MemoryBounded
  BY <1>1 DEF MemoryInv, MemoryBounded, ArrivedBytes
<1>8. NothingForgotten
  <2> SUFFICES ASSUME workerPc = "loop", ~needsRender, viewport,
                      HasVisibleTileLayer, NEW t \in VisibleSet(view)
               PROVE  /\ \/ Lru!ContainsKey(loaded, t) \/ t \in pendingLoads
                         \/ Cardinality(pendingLoads) >= SmallestBudget
                         \/ ViewBytes > RamLimit
                      /\ NeedsUpload(t) => ViewBytes > GpuLimit
    BY DEF NothingForgotten
  <2>1. Provided(t) /\ (NeedsUpload(t) => ViewBytes > GpuLimit)
    BY <1>1 DEF SightInv
  <2>2. OutboxIds = {} /\ pendingLoads \cup OutboxIds = pendingLoads
    BY <1>1 DEF CacheInv, OutboxIds
  <2> QED
    BY <2>1, <2>2 DEF Provided, Lru!ContainsKey
<1>9. ScreenIsCurrent
  BY <1>1 DEF ScreenInv
<1> QED
  BY <1>3, <1>4, <1>5, <1>6, <1>7, <1>8, <1>9

(* A step that finds the worker evicting is a round of one of the loops of *)
(* enforce_cache_limits, or leaves the caches alone.                       *)
LEMMA EvictingSpares ==
  ASSUME WorkerInv, WorkerThread, workerPc = "evicting"
  PROVE  /\ SparesVisible(Lru!Keys(loaded), Lru!Keys(loaded'))
         /\ SparesVisible(Lru!Keys(uploaded), Lru!Keys(uploaded'))
<1>1. loaded \in Caches(RamLimit) /\ uploaded \in Caches(GpuLimit)
  BY DEF WorkerInv, CacheInv
<1>2. ASSUME NEW limit, NEW c \in Caches(limit)
      PROVE  SparesVisible(Lru!Keys(c), Lru!Keys(Lru!EvictOne(c, VisibleSet(view))))
  <2> DEFINE e == Lru!EvictOne(c, VisibleSet(view))
  <2>1. CASE Lru!Keys(c) = {}
    BY <2>1 DEF SparesVisible
  <2>2. CASE Lru!Keys(c) # {}
    <3>1. PICK t \in Lru!Keys(c) :
             /\ Lru!Keys(e) = Lru!Keys(c) \ {t}
             /\ t \in VisibleSet(view) => Lru!Keys(c) \subseteq VisibleSet(view)
      BY <2>2, EvictOneKeys
    <3> DEFINE before == Lru!Keys(c)
               after == Lru!Keys(e)
    <3>2. after = before \ {t} /\ (t \in VisibleSet(view) => before \subseteq VisibleSet(view))
      BY <3>1
    <3> HIDE DEF before, after
    <3>3. SparesVisible(before, after)
      BY <3>2 DEF SparesVisible
    <3> QED
      BY <3>3 DEF before, after
  <2> QED
    BY <2>1, <2>2
<1>3. CASE EvictTile
  <2>1. \/ /\ loaded' = Lru!EvictOne(loaded, VisibleSet(view))
           /\ uploaded' = uploaded
        \/ /\ uploaded' = Lru!EvictOne(uploaded, VisibleSet(view))
           /\ loaded' = loaded
    BY <1>3 DEF EvictTile
  <2>2. \A keys : SparesVisible(keys, keys)
    BY DEF SparesVisible
  <2> QED
    BY <1>1, <1>2, <2>1, <2>2
<1>4. CASE MotionExpires
  BY <1>4 DEF MotionExpires, cacheVars, SparesVisible
<1> QED
  BY <1>3, <1>4
  DEF WorkerThread, ReceiveCommand, ContinueFrame, Take, WorkerStarts,
      WorkerFailsToStart, SurfaceCreated, SurfaceDestroyed, Resize, ResizeWith,
      SetCamera, AddTileLayer, RemoveLayer, SetLayerVisible, SetLayerOpacity,
      ReceiveTile, WorkerShutdown, RenderFrame, SendRequest, UploadTiles,
      DrawFrame
=============================================================================
