--------------------------- MODULE SizedLruCache ---------------------------
(***************************************************************************)
(* SizedLruCache<T>: the renderer's byte-bounded least-recently-used cache,*)
(* used once for decoded tiles in memory and once for tiles uploaded to    *)
(* the GPU. The stored values are left out: an entry is its size.          *)
(*                                                                         *)
(* The code keeps three things that have to agree: the map of entries, the *)
(* order from the least to the most recently used key, and the running     *)
(* total of the sizes. No method enforces the limit; the caller evicts one *)
(* entry at a time while the total exceeds it.                             *)
(***************************************************************************)
EXTENDS Integers, Sequences, FiniteSets, SequencesExt, FiniteSetsExt

NewCache(limit) ==
  [entries |-> <<>>, order |-> <<>>, bytes |-> 0, limit |-> limit]

Keys(cache) == DOMAIN cache.entries

ContainsKey(cache, key) == key \in Keys(cache)

(* usize::saturating_sub.                                                  *)
SaturatingSub(a, b) == IF b > a THEN 0 ELSE a - b

(* VecDeque::position then VecDeque::remove: the first occurrence goes.    *)
IsFirst(order, i, key) ==
  order[i] = key /\ \A j \in 1..(i-1) : order[j] # key

DropFirst(order, key) ==
  IF \E i \in DOMAIN order : order[i] = key
  THEN RemoveAt(order, CHOOSE i \in DOMAIN order : IsFirst(order, i, key))
  ELSE order

DropEntry(entries, key) == [k \in DOMAIN entries \ {key} |-> entries[k]]

(* Mutant of Touch: the key keeps its old place in the order, too.         *)
TouchAppends(cache, key) == [cache EXCEPT !.order = Append(@, key)]

(* touch puts the key at the young end whether or not it has an entry.     *)
Touch(cache, key) ==
  [cache EXCEPT !.order = Append(DropFirst(@, key), key)]

RemoveKey(cache, key) ==
  IF ContainsKey(cache, key)
  THEN [cache EXCEPT
          !.entries = DropEntry(@, key),
          !.bytes = SaturatingSub(@, cache.entries[key]),
          !.order = DropFirst(@, key)]
  ELSE cache

Insert(cache, key, size) ==
  LET rest == RemoveKey(cache, key) IN
  [rest EXCEPT
     !.entries = [k \in DOMAIN @ \cup {key} |-> IF k = key THEN size ELSE @[k]],
     !.bytes = @ + size,
     !.order = Append(@, key)]

(* get_cloned: a hit makes the entry the most recently used one.           *)
GetCloned(cache, key) ==
  IF ContainsKey(cache, key) THEN Touch(cache, key) ELSE cache

EvictAt(cache, i) ==
  LET key == cache.order[i] IN
  [cache EXCEPT
     !.entries = DropEntry(@, key),
     !.bytes = IF ContainsKey(cache, key)
               THEN SaturatingSub(@, cache.entries[key]) ELSE @,
     !.order = RemoveAt(@, i)]

(* Mutant of VictimIndex: what is visible is not spared.                   *)
OldestIndex(cache, visible) == 1

(* The oldest key that is not visible, or the oldest key when all are.     *)
VictimIndex(cache, visible) ==
  LET hidden == {i \in DOMAIN cache.order : cache.order[i] \notin visible}
  IN  IF hidden = {} THEN 1
      ELSE CHOOSE i \in hidden : \A j \in hidden : i <= j

(* evict_one; on an empty order it does nothing and returns None.          *)
EvictOne(cache, visible) ==
  IF cache.order = <<>> THEN cache
  ELSE EvictAt(cache, VictimIndex(cache, visible))

OverLimit(cache) == cache.bytes > cache.limit

(* Removal of every key of a set, in any order.                            *)
RemoveAll(cache, keys) ==
  FoldSet(LAMBDA key, rest : RemoveKey(rest, key), cache, keys)

(* The keys at some positions of a sequence, used or inserted in order.    *)
GetAll(cache, keys, positions) ==
  MapThenFoldSet(LAMBDA key, rest : GetCloned(rest, key), cache,
                 LAMBDA i : keys[i], Max, positions)

InsertAll(cache, sizes, keys, positions) ==
  MapThenFoldSet(LAMBDA key, rest : Insert(rest, key, sizes[key]), cache,
                 LAMBDA i : keys[i], Max, positions)

SizeOf(sizes, keys) == MapThenSumSet(LAMBDA key : sizes[key], keys)

(* The sum the running total stands for.                                   *)
TotalBytes(cache) == SizeOf(cache.entries, Keys(cache))

---------------------------------------------------------------------------
(* What makes a cache well formed.                                         *)

(* The order lists the keys of the map, each once: evict_one can reach     *)
(* every entry, and no index of the order stands for a missing entry.      *)
OrderListsKeys(cache) ==
  /\ {cache.order[i] : i \in DOMAIN cache.order} = Keys(cache)
  /\ \A i, j \in DOMAIN cache.order : cache.order[i] = cache.order[j] => i = j

BytesAddUp(cache) == cache.bytes = TotalBytes(cache)

WellFormed(cache) == OrderListsKeys(cache) /\ BytesAddUp(cache)
===========================================================================
