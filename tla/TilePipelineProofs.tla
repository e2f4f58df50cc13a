------------------------- MODULE TilePipelineProofs -------------------------
(***************************************************************************)
(* Proofs about the whole renderer: TilePipeline's Spec, for every set of  *)
(* tiles, views, limits and faults. Every step is a step of the loader (of *)
(* its thread, its tasks or its decoders), of the worker or of the owner.  *)
(* The first part is about the loader on its own: whatever its client      *)
(* sends, a step of the loader, of a fetch task or of a decoder keeps the  *)
(* loader's state typed and its bookkeeping exact.                         *)
(***************************************************************************)
EXTENDS TilePipeline, RendererWorkerProofs

---------------------------------------------------------------------------
(* The ids in a set or a sequence of records, as elements come and go.     *)

(* Adding an element adds its id.                                          *)
LEMMA IdsAdd ==
  ASSUME NEW S, NEW x
  PROVE  Ids(S \cup {x}) = Ids(S) \cup {x.id}
  BY DEF Ids

(* Removing an element removes its id, when no other element has it.       *)
LEMMA IdsRemove ==
  ASSUME NEW S, NEW x \in S, DistinctIds(S)
  PROVE  /\ Ids(S \ {x}) = Ids(S) \ {x.id}
         /\ x.id \in Ids(S)
         /\ DistinctIds(S \ {x})
  BY DEF Ids, DistinctIds

(* Adding an element with a new id keeps the ids distinct.                 *)
LEMMA DistinctAdd ==
  ASSUME NEW S, NEW x, DistinctIds(S), x.id \notin Ids(S)
  PROVE  DistinctIds(S \cup {x})
  BY DEF Ids, DistinctIds

(* Appending an element adds its id, and keeps distinct ids distinct when  *)
(* the id is new.                                                          *)
LEMMA SeqIdsAppend ==
  ASSUME NEW T, NEW s \in Seq(T), NEW x \in T
  PROVE  /\ SeqIds(Append(s, x)) = SeqIds(s) \cup {x.id}
         /\ DistinctSeqIds(s) /\ x.id \notin SeqIds(s)
              => DistinctSeqIds(Append(s, x))
  <1>1. /\ Len(s) \in Nat
        /\ DOMAIN s = 1..Len(s)
        /\ DOMAIN Append(s, x) = 1..(Len(s) + 1)
        /\ \A i \in 1..Len(s) : Append(s, x)[i] = s[i]
        /\ Append(s, x)[Len(s) + 1] = x
    OBVIOUS
  <1>2. ASSUME NEW t \in SeqIds(Append(s, x))
        PROVE  t \in SeqIds(s) \cup {x.id}
    <2>1. PICK i \in 1..(Len(s) + 1) : t = Append(s, x)[i].id
      BY <1>1 DEF SeqIds
    <2> QED
      BY <1>1, <2>1 DEF SeqIds
  <1>3. ASSUME NEW t \in SeqIds(s) \cup {x.id}
        PROVE  t \in SeqIds(Append(s, x))
    <2>1. CASE t = x.id
      BY <1>1, <2>1 DEF SeqIds
    <2>2. CASE t \in SeqIds(s)
      <3>1. PICK i \in 1..Len(s) : t = s[i].id
        BY <1>1, <2>2 DEF SeqIds
      <3> QED
        BY <1>1, <3>1 DEF SeqIds
    <2> QED
      BY <1>3, <2>1, <2>2
  <1>4. ASSUME DistinctSeqIds(s), x.id \notin SeqIds(s)
        PROVE  DistinctSeqIds(Append(s, x))
    BY <1>1, <1>4 DEF DistinctSeqIds, SeqIds
  <1> QED
    BY <1>2, <1>3, <1>4

(* Taking the head removes its id, when no other element has it.           *)
LEMMA SeqIdsTail ==
  ASSUME NEW T, NEW s \in Seq(T), s # <<>>, DistinctSeqIds(s)
  PROVE  /\ SeqIds(Tail(s)) = SeqIds(s) \ {Head(s).id}
         /\ Head(s).id \in SeqIds(s)
         /\ DistinctSeqIds(Tail(s))
  <1>1. /\ Len(s) \in Nat \ {0}
        /\ DOMAIN s = 1..Len(s)
        /\ Head(s) = s[1]
        /\ Tail(s) \in Seq(T)
        /\ Len(Tail(s)) = Len(s) - 1
        /\ DOMAIN Tail(s) = 1..(Len(s) - 1)
        /\ \A i \in 1..(Len(s) - 1) : Tail(s)[i] = s[i + 1]
    OBVIOUS
  <1>2. Head(s).id \in SeqIds(s)
    BY <1>1 DEF SeqIds
  <1>3. DistinctSeqIds(Tail(s))
    BY <1>1 DEF DistinctSeqIds
  <1>4. ASSUME NEW t \in SeqIds(Tail(s))
        PROVE  t \in SeqIds(s) \ {Head(s).id}
    <2>1. PICK i \in 1..(Len(s) - 1) : t = s[i + 1].id
      BY <1>1 DEF SeqIds
    <2> QED
      BY <1>1, <2>1 DEF SeqIds, DistinctSeqIds
  <1>5. ASSUME NEW t \in SeqIds(s) \ {Head(s).id}
        PROVE  t \in SeqIds(Tail(s))
    <2>1. PICK i \in 1..Len(s) : t = s[i].id
      BY <1>1 DEF SeqIds
    <2>2. i - 1 \in 1..(Len(s) - 1) /\ Tail(s)[i - 1] = s[i]
      BY <1>1, <2>1
    <2> QED
      BY <1>1, <2>1, <2>2 DEF SeqIds
  <1> QED
    BY <1>2, <1>3, <1>4, <1>5
---------------------------------------------------------------------------
(* Types.                                                                  *)

LEMMA LoaderInitTyped == ChannelsInit /\ LoaderInit => LoaderTypeOK
  <1> SUFFICES ASSUME ChannelsInit, LoaderInit PROVE LoaderTypeOK
    OBVIOUS
  <1>1. disk \in [Tiles -> {"none", "good", "bad"}]
    BY LoaderAssumption DEF LoaderInit
  <1>2. liveDecoders \in 0..DecodeWorkers
    BY LoaderAssumption DEF LoaderInit
  <1>3. /\ tileRequests \in Seq(TileLoaderRequest)
        /\ decodeQueue \in Seq(Fetched)
        /\ decoded \in Seq(Decoded)
    BY DEF ChannelsInit, LoaderInit
  <1> QED
    BY <1>1, <1>2, <1>3
    DEF ChannelsInit, LoaderInit, LoaderTypeOK, LoaderPcs

(* How many elements a finite set can have after a change.                 *)
LEMMA CardinalityAdd ==
  ASSUME NEW S, IsFiniteSet(S), NEW x
  PROVE  /\ IsFiniteSet(S \cup {x})
         /\ Cardinality(S \cup {x}) \in Nat
         /\ Cardinality(S \cup {x}) <= Cardinality(S) + 1
  <1>1. Cardinality(S) \in Nat
    BY FS_CardinalityType
  <1>2. /\ IsFiniteSet(S \cup {x})
        /\ Cardinality(S \cup {x}) =
             IF x \in S THEN Cardinality(S) ELSE Cardinality(S) + 1
    BY FS_AddElement
  <1> QED
    BY <1>1, <1>2

(* Taking a member out of a finite set takes one from its cardinality: a   *)
(* fetch joined, a tile decoded.                                           *)
LEMMA CardinalityRemove ==
  ASSUME NEW S, IsFiniteSet(S), NEW x \in S
  PROVE  /\ IsFiniteSet(S \ {x})
         /\ Cardinality(S \ {x}) \in Nat
         /\ Cardinality(S \ {x}) = Cardinality(S) - 1
  <1>1. /\ IsFiniteSet(S \ {x})
        /\ Cardinality(S \ {x}) =
             IF x \in S THEN Cardinality(S) - 1 ELSE Cardinality(S)
    BY FS_RemoveElement
  <1>2. Cardinality(S \ {x}) \in Nat
    BY <1>1, FS_CardinalityType
  <1> QED
    BY <1>1, <1>2

(* A decode thread takes a tile only when it is free.                      *)
LEMMA DecodersCountedStep ==
  ASSUME LoaderTypeOK, DecodersCounted, LoaderNext
  PROVE  DecodersCounted'
  <1> USE DEF LoaderTypeOK, DecodersCounted, loaderVars
  <1>1. Cardinality(decoding) \in Nat
    BY FS_CardinalityType
  <1>2. Cardinality({}) = 0 /\ IsFiniteSet({})
    BY FS_EmptySet
  <1>3. CASE LoaderFailsToStart
    <2>1. decoding = {} /\ decoding' = decoding /\ liveDecoders' = 0
      BY <1>3 DEF LoaderFailsToStart
    <2>2. loaderPc' # "starting"
      BY <1>3 DEF LoaderFailsToStart
    <2> QED
      BY <1>2, <2>1, <2>2
  <1>4. CASE DecodeTake
    <2> DEFINE x == Head(decodeQueue)
    <2>1. /\ IsFiniteSet(decoding \cup {x})
          /\ Cardinality(decoding \cup {x}) \in Nat
          /\ Cardinality(decoding \cup {x}) <= Cardinality(decoding) + 1
      BY CardinalityAdd
    <2>2. loaderPc' # "starting"
      BY <1>4 DEF DecodeTake
    <2>3. decoding' = decoding \cup {x} /\ liveDecoders' = liveDecoders
      BY <1>4 DEF DecodeTake
    <2>4. Cardinality(decoding) < liveDecoders
      BY <1>4 DEF DecodeTake
    <2> HIDE DEF x
    <2> QED
      BY <1>1, <2>1, <2>2, <2>3, <2>4
  <1>5. ASSUME NEW d \in decoding, decoding' = decoding \ {d},
               liveDecoders' \in {liveDecoders, liveDecoders - 1},
               loaderPc' = loaderPc, decodeQueue' = decodeQueue
        PROVE  DecodersCounted'
    <2>1. /\ IsFiniteSet(decoding \ {d})
          /\ Cardinality(decoding \ {d}) = Cardinality(decoding) - 1
      BY CardinalityRemove
    <2> QED
      BY <1>1, <1>5, <2>1
  <1>6. CASE DecoderExits
    BY <1>1, <1>6 DEF DecoderExits
  <1>7. CASE UNCHANGED <<decoding, liveDecoders>> /\ loaderPc' # "starting"
    BY <1>7
  <1>8. CASE UNCHANGED <<decoding, decodeQueue, liveDecoders, loaderPc>>
    BY <1>8
  <1> QED
    BY <1>3, <1>4, <1>5, <1>6, <1>7, <1>8
    DEF LoaderNext, LoaderThread, FetchTask, DecoderThreads, LoaderPanics,
        LoaderStarts, DiscardOutOfDate, SpawnFetch, SpawnDone, ReceiveLoad,
        ReceiveShutdown, ReceiveTimeout, JoinFetch, JoinPanicked, JoinNothing,
        DrainDecoded, NextRound, LeaveLoop, LoaderReturns, FetchFromCache,
        FetchFromNetwork, FetchIntoCache, FetchPanics, FetchUnchanged,
        DecodeFinish, DecodePanics

(* What a fetch task may become.                                           *)
LEMMA FetchMoves ==
  ASSUME NEW f \in Fetch
  PROVE  /\ f.id \in Tiles
         /\ [f EXCEPT !.step = "download", !.bytes = "none"] \in Fetch
         /\ [f EXCEPT !.step = "panicked", !.bytes = "none"] \in Fetch
         /\ \A b \in {"good", "bad"} :
              [f EXCEPT !.step = "put", !.bytes = b] \in Fetch
         /\ \A b \in {"good", "bad", "error"} :
              [f EXCEPT !.step = "done", !.bytes = b] \in Fetch
  BY DEF Fetch

(* Every step of the loader keeps its variables typed.                     *)
LEMMA LoaderStepTyped ==
  ASSUME LoaderTypeOK, DecodersCounted, LoaderNext
  PROVE  LoaderTypeOK'
  <1> USE LoaderAssumption
  <1> USE DEF LoaderTypeOK, loaderVars
  <1>1. CASE LoaderStarts
    BY <1>1 DEF LoaderStarts, LoaderPcs
  <1>2. CASE LoaderFailsToStart
    BY <1>2 DEF LoaderFailsToStart, LoaderPcs
  <1>3. ASSUME NEW r \in queued, DiscardOutOfDate(r)
        PROVE  LoaderTypeOK'
    BY <1>3 DEF DiscardOutOfDate, TileLoadRequest
  <1>4. ASSUME NEW r \in queued, SpawnFetch(r)
        PROVE  LoaderTypeOK'
    BY <1>4 DEF SpawnFetch, TileLoadRequest, Fetch
  <1>5. CASE SpawnDone
    BY <1>5 DEF SpawnDone, LoaderPcs
  <1>6. CASE ReceiveLoad
    <2>1. Head(tileRequests) \in TileLoaderRequest
      BY <1>6 DEF ReceiveLoad
    <2>2. Head(tileRequests).request \in TileLoadRequest
      BY <1>6, <2>1 DEF ReceiveLoad, TileLoaderRequest, LoaderShutdown
    <2>3. Head(tileRequests).request.id \in Tiles
      BY <2>2 DEF TileLoadRequest
    <2>4. tileRequests' \in Seq(TileLoaderRequest)
      BY <1>6 DEF ReceiveLoad
    <2> QED
      BY <1>6, <2>2, <2>3, <2>4 DEF ReceiveLoad
  <1>7. CASE ReceiveShutdown
    BY <1>7 DEF ReceiveShutdown
  <1>8. CASE ReceiveTimeout
    BY <1>8 DEF ReceiveTimeout, LoaderPcs
  <1>9. ASSUME NEW f \in fetches, JoinFetch(f)
        PROVE  LoaderTypeOK'
    <2>1. [id |-> f.id, bytes |-> f.bytes] \in Fetched
      BY <1>9 DEF JoinFetch, Fetch, Fetched
    <2>2. decodeQueue' \in Seq(Fetched)
      BY <1>9, <2>1 DEF JoinFetch
    <2> QED
      BY <1>9, <2>2 DEF JoinFetch, LoaderPcs
  <1>10. ASSUME NEW f \in fetches, JoinPanicked(f)
         PROVE  LoaderTypeOK'
    BY <1>10 DEF JoinPanicked, LoaderPcs, Fetch
  <1>11. CASE JoinNothing
    BY <1>11 DEF JoinNothing, LoaderPcs
  <1>12. CASE DrainDecoded
    <2>1. Head(decoded) \in Decoded
      BY <1>12 DEF DrainDecoded
    <2>2. Head(decoded).id \in Tiles
      BY <2>1 DEF Decoded
    <2>3. disk' \in [Tiles -> {"none", "good", "bad"}]
      BY <1>12, <2>2 DEF DrainDecoded
    <2>4. decoded' \in Seq(Decoded)
      BY <1>12 DEF DrainDecoded
    <2> QED
      BY <1>12, <2>3, <2>4 DEF DrainDecoded
  <1>13. CASE NextRound
    BY <1>13 DEF NextRound, LoaderPcs
  <1>14. CASE LeaveLoop
    BY <1>14 DEF LeaveLoop, LoaderPcs
  <1>15. CASE LoaderReturns
    BY <1>15 DEF LoaderReturns, LoaderPcs
  <1>16. ASSUME NEW f \in fetches, NEW step, NEW bytes,
                [f EXCEPT !.step = step, !.bytes = bytes] \in Fetch,
                FetchStep(f, step, bytes), FetchUnchanged,
                disk' \in [Tiles -> {"none", "good", "bad"}]
         PROVE  LoaderTypeOK'
    BY <1>16 DEF FetchStep, FetchUnchanged
  <1>17. ASSUME NEW f \in fetches, FetchFromCache(f)
         PROVE  LoaderTypeOK'
    <2>1. UNCHANGED disk /\ FetchUnchanged
      BY <1>17 DEF FetchFromCache
    <2>2. CASE FetchStep(f, "download", "none")
      BY <1>16, <2>1, <2>2, FetchMoves
    <2>3. CASE disk[f.id] # "none" /\ FetchStep(f, "done", disk[f.id])
      <3>1. disk[f.id] \in {"good", "bad"}
        BY <2>3, FetchMoves
      <3> QED
        BY <1>16, <2>1, <2>3, <3>1, FetchMoves
    <2>4. CASE FetchStep(f, "done", "error")
      BY <1>16, <2>1, <2>4, FetchMoves
    <2> QED
      BY <1>17, <2>2, <2>3, <2>4 DEF FetchFromCache
  <1>18. ASSUME NEW f \in fetches, FetchFromNetwork(f)
         PROVE  LoaderTypeOK'
    <2>1. UNCHANGED disk /\ FetchUnchanged
      BY <1>18 DEF FetchFromNetwork
    <2>2. CASE FetchStep(f, "put", "good") \/ FetchStep(f, "put", "bad")
      BY <1>16, <2>1, <2>2, FetchMoves
    <2>3. CASE FetchStep(f, "done", "error")
      BY <1>16, <2>1, <2>3, FetchMoves
    <2> QED
      BY <1>18, <2>2, <2>3 DEF FetchFromNetwork
  <1>19. ASSUME NEW f \in fetches, FetchIntoCache(f)
         PROVE  LoaderTypeOK'
    <2>1. f.bytes \in {"good", "bad"}
      BY <1>19 DEF FetchIntoCache, Fetch
    <2>2. disk' \in [Tiles -> {"none", "good", "bad"}]
      BY <1>19, <2>1 DEF FetchIntoCache
    <2>3. FetchUnchanged
      BY <1>19 DEF FetchIntoCache
    <2>4. CASE FetchStep(f, "done", f.bytes)
      BY <1>16, <2>1, <2>2, <2>3, <2>4, FetchMoves
    <2>5. CASE FetchStep(f, "done", "error")
      BY <1>16, <2>2, <2>3, <2>5, FetchMoves
    <2> QED
      BY <1>19, <2>4, <2>5 DEF FetchIntoCache
  <1>20. ASSUME NEW f \in fetches, FetchPanics(f)
         PROVE  LoaderTypeOK'
    BY <1>16, <1>20, FetchMoves DEF FetchPanics
  <1>21. CASE DecodeTake
    <2>1. Head(decodeQueue) \in Fetched /\ decodeQueue' \in Seq(Fetched)
      BY <1>21 DEF DecodeTake
    <2> QED
      BY <1>21, <2>1 DEF DecodeTake
  <1>22. ASSUME NEW d \in decoding, DecodeFinish(d)
         PROVE  LoaderTypeOK'
    <2>1. [id |-> d.id, ok |-> d.bytes = "good"] \in Decoded
      BY DEF Fetched, Decoded
    <2>2. decoded' \in Seq(Decoded)
      BY <1>22, <2>1 DEF DecodeFinish
    <2> QED
      BY <1>22, <2>2 DEF DecodeFinish
  <1>23. Cardinality(decoding) \in Nat
    BY FS_CardinalityType DEF DecodersCounted
  <1>24. ASSUME NEW d \in decoding, DecodePanics(d)
         PROVE  LoaderTypeOK'
    <2>1. Cardinality(decoding) - 1 \in Nat
      BY CardinalityRemove DEF DecodersCounted
    <2>2. liveDecoders' \in 0..DecodeWorkers
      BY <1>23, <1>24, <2>1 DEF DecodePanics, DecodersCounted
    <2> QED
      BY <1>24, <2>2 DEF DecodePanics, Fetched
  <1>25. CASE DecoderExits
    <2>1. liveDecoders' \in 0..DecodeWorkers
      BY <1>23, <1>25 DEF DecoderExits
    <2> QED
      BY <1>25, <2>1 DEF DecoderExits
  <1> QED
    BY <1>1, <1>2, <1>3, <1>4, <1>5, <1>6, <1>7, <1>8, <1>9, <1>10, <1>11,
       <1>12, <1>13, <1>14, <1>15, <1>17, <1>18, <1>19, <1>20, <1>21, <1>22,
       <1>24, <1>25
    DEF LoaderNext, LoaderThread, FetchTask, DecoderThreads, LoaderPanics
---------------------------------------------------------------------------
(* The bookkeeping of in_flight.                                           *)

(* Bytes that are good are in the file. While no file operation fails, the *)
(* file of a tile without good bytes is not good either.                   *)
FileAgrees(id, good) ==
  /\ good => disk[id] = "good"
  /\ ~good /\ "io" \notin Faults => disk[id] # "good"

(* A tile is downloaded only while it has no file, and what the later      *)
(* stages hold of it agrees with its file.                                 *)
StagesBacked ==
  /\ \A f \in fetches :
       /\ f.step \in {"download", "put"} => disk[f.id] = "none"
       /\ f.step = "done" => FileAgrees(f.id, f.bytes = "good")
  /\ \A i \in DOMAIN decodeQueue :
       FileAgrees(decodeQueue[i].id, decodeQueue[i].bytes = "good")
  /\ \A d \in decoding : FileAgrees(d.id, d.bytes = "good")
  /\ \A i \in DOMAIN decoded : FileAgrees(decoded[i].id, decoded[i].ok)

LoaderInv ==
  /\ LoaderTypeOK
  /\ DecodersCounted
  /\ InFlightExact
  /\ OneStagePerTile
  /\ NothingLeftBehind
  /\ StagesBacked

(* The loader starts with nothing in any stage, so its invariant holds.    *)
LEMMA LoaderInitInv == ChannelsInit /\ LoaderInit => LoaderInv
  <1> SUFFICES ASSUME ChannelsInit, LoaderInit PROVE LoaderInv
    OBVIOUS
  <1>1. LoaderTypeOK
    BY LoaderInitTyped
  <1>2. IsFiniteSet({}) /\ Cardinality({}) = 0
    BY FS_EmptySet
  <1>3. DecodersCounted
    BY <1>1, <1>2
    DEF ChannelsInit, LoaderInit, DecodersCounted, LoaderTypeOK
  <1>4. Ids({}) = {} /\ SeqIds(<<>>) = {}
    BY DEF Ids, SeqIds
  <1>5. StageIds = {} /\ InFlightExact
    BY <1>4 DEF LoaderInit, StageIds, InFlightExact
  <1>6. DistinctIds({}) /\ DistinctSeqIds(<<>>)
    BY DEF DistinctIds, DistinctSeqIds
  <1>7. OneStagePerTile
    BY <1>4, <1>6 DEF LoaderInit, OneStagePerTile
  <1>8. StagesBacked
    BY DEF LoaderInit, StagesBacked
  <1> QED
    BY <1>1, <1>3, <1>5, <1>7, <1>8
    DEF ChannelsInit, LoaderInv, NothingLeftBehind

(* A step that leaves all the stages alone.                                *)
LEMMA StagesUnchanged ==
  ASSUME InFlightExact, OneStagePerTile,
         UNCHANGED <<queued, inFlight, fetches, decodeQueue, decoding,
                     decoded, orphaned>>
  PROVE  InFlightExact' /\ OneStagePerTile'
  BY DEF InFlightExact, OneStagePerTile, StageIds

(* A fetch task that moves on stays the same tile's task.                  *)
LEMMA FetchKeepsId ==
  ASSUME DistinctIds(fetches), NEW f \in fetches, NEW step, NEW bytes,
         FetchStep(f, step, bytes)
  PROVE  Ids(fetches)' = Ids(fetches) /\ DistinctIds(fetches)'
  <1> DEFINE g == [f EXCEPT !.step = step, !.bytes = bytes]
  <1>1. /\ Ids(fetches \ {f}) = Ids(fetches) \ {f.id}
        /\ f.id \in Ids(fetches)
        /\ DistinctIds(fetches \ {f})
    BY IdsRemove
  <1>2. fetches' = (fetches \ {f}) \cup {g} /\ g.id = f.id
    BY DEF FetchStep
  <1> HIDE DEF g
  <1>3. Ids((fetches \ {f}) \cup {g}) = Ids(fetches \ {f}) \cup {g.id}
    BY IdsAdd
  <1>4. DistinctIds((fetches \ {f}) \cup {g})
    BY <1>1, <1>2, DistinctAdd
  <1>5. Ids(fetches') = Ids(fetches) /\ DistinctIds(fetches')
    BY <1>1, <1>2, <1>3, <1>4
  <1> QED
    BY <1>5 DEF Ids, DistinctIds

(* The loader's bookkeeping: every step keeps in_flight exact and the      *)
(* stages disjoint.                                                        *)
LEMMA LoaderStepBooked ==
  ASSUME LoaderTypeOK, InFlightExact, OneStagePerTile, LoaderNext
  PROVE  InFlightExact' /\ OneStagePerTile'
  <1> USE DEF loaderVars
  <1> DEFINE Booked == InFlightExact' /\ OneStagePerTile'
  <1>1. ASSUME NEW r \in queued, DiscardOutOfDate(r)
        PROVE  Booked
    <2>1. /\ Ids(queued \ {r}) = Ids(queued) \ {r.id}
          /\ r.id \in Ids(queued)
          /\ DistinctIds(queued \ {r})
      BY IdsRemove DEF OneStagePerTile
    <2>2. /\ queued' = queued \ {r} /\ inFlight' = inFlight \ {r.id}
          /\ UNCHANGED <<fetches, decodeQueue, decoding, decoded, orphaned>>
      BY <1>1 DEF DiscardOutOfDate
    <2> QED
      BY <2>1, <2>2 DEF InFlightExact, OneStagePerTile, StageIds
  <1>2. ASSUME NEW r \in queued, SpawnFetch(r)
        PROVE  Booked
    <2> DEFINE g == [id |-> r.id, step |-> "get", bytes |-> "none"]
    <2>1. /\ Ids(queued \ {r}) = Ids(queued) \ {r.id}
          /\ r.id \in Ids(queued)
          /\ DistinctIds(queued \ {r})
      BY IdsRemove DEF OneStagePerTile
    <2>2. fetches' = fetches \cup {g} /\ g.id = r.id
      BY <1>2 DEF SpawnFetch
    <2> HIDE DEF g
    <2>3. Ids(fetches \cup {g}) = Ids(fetches) \cup {r.id}
      BY <2>2, IdsAdd
    <2>4. DistinctIds(fetches \cup {g})
      BY <2>1, <2>2, DistinctAdd DEF OneStagePerTile
    <2>5. /\ queued' = queued \ {r}
          /\ UNCHANGED <<inFlight, decodeQueue, decoding, decoded, orphaned>>
      BY <1>2 DEF SpawnFetch
    <2>6. /\ Ids(fetches') = Ids(fetches) \cup {r.id}
          /\ DistinctIds(fetches')
      BY <2>2, <2>3, <2>4
    <2> QED
      BY <2>1, <2>5, <2>6 DEF InFlightExact, OneStagePerTile, StageIds
  <1>3. CASE ReceiveLoad
    <2> DEFINE r == Head(tileRequests).request
    <2>1. CASE r.id \in inFlight
      BY <1>3, <2>1, StagesUnchanged DEF ReceiveLoad
    <2>2. CASE r.id \notin inFlight
      <3>1. Ids(queued \cup {r}) = Ids(queued) \cup {r.id}
        BY IdsAdd
      <3>2. r.id \notin Ids(queued)
        BY <2>2 DEF InFlightExact, StageIds
      <3>3. DistinctIds(queued \cup {r})
        BY <3>2, DistinctAdd DEF OneStagePerTile
      <3>4. queued' = queued \cup {r} /\ inFlight' = inFlight \cup {r.id}
        BY <1>3, <2>2 DEF ReceiveLoad
      <3>5. UNCHANGED <<fetches, decodeQueue, decoding, decoded, orphaned>>
        BY <1>3 DEF ReceiveLoad
      <3> HIDE DEF r
      <3> QED
        BY <2>2, <3>1, <3>3, <3>4, <3>5
        DEF InFlightExact, OneStagePerTile, StageIds
    <2> QED
      BY <2>1, <2>2
  <1>4. ASSUME NEW f \in fetches, JoinFetch(f)
        PROVE  Booked
    <2> DEFINE g == [id |-> f.id, bytes |-> f.bytes]
    <2>1. /\ Ids(fetches \ {f}) = Ids(fetches) \ {f.id}
          /\ f.id \in Ids(fetches)
          /\ DistinctIds(fetches \ {f})
      BY IdsRemove DEF OneStagePerTile
    <2>2. decodeQueue' = Append(decodeQueue, g) /\ g.id = f.id
      BY <1>4 DEF JoinFetch
    <2>3. g \in Fetched /\ decodeQueue \in Seq(Fetched)
      BY <1>4 DEF JoinFetch, Fetch, Fetched, LoaderTypeOK
    <2> HIDE DEF g
    <2>4. /\ SeqIds(Append(decodeQueue, g)) = SeqIds(decodeQueue) \cup {f.id}
          /\ f.id \notin SeqIds(decodeQueue)
               => DistinctSeqIds(Append(decodeQueue, g))
      BY <2>2, <2>3, SeqIdsAppend DEF OneStagePerTile
    <2>5. /\ fetches' = fetches \ {f}
          /\ UNCHANGED <<queued, inFlight, decoding, decoded, orphaned>>
      BY <1>4 DEF JoinFetch
    <2>6. /\ SeqIds(decodeQueue') = SeqIds(decodeQueue) \cup {f.id}
          /\ DistinctSeqIds(decodeQueue')
      BY <2>1, <2>2, <2>4 DEF OneStagePerTile
    <2> QED
      BY <2>1, <2>5, <2>6
      DEF InFlightExact, OneStagePerTile, StageIds
  <1>5. ASSUME NEW f \in fetches, JoinPanicked(f)
        PROVE  Booked
    <2>1. /\ Ids(fetches \ {f}) = Ids(fetches) \ {f.id}
          /\ f.id \in Ids(fetches)
          /\ DistinctIds(fetches \ {f})
      BY IdsRemove DEF OneStagePerTile
    <2>2. /\ fetches' = fetches \ {f} /\ orphaned' = orphaned \cup {f.id}
          /\ UNCHANGED <<queued, inFlight, decodeQueue, decoding, decoded>>
      BY <1>5 DEF JoinPanicked
    <2> QED
      BY <2>1, <2>2 DEF InFlightExact, OneStagePerTile, StageIds
  <1>6. CASE DrainDecoded
    <2> DEFINE result == Head(decoded)
    <2>1. /\ SeqIds(Tail(decoded)) = SeqIds(decoded) \ {result.id}
          /\ result.id \in SeqIds(decoded)
          /\ DistinctSeqIds(Tail(decoded))
      BY <1>6, SeqIdsTail DEF DrainDecoded, LoaderTypeOK, OneStagePerTile
    <2>2. decoded' = Tail(decoded) /\ inFlight' = inFlight \ {result.id}
      BY <1>6 DEF DrainDecoded
    <2>3. UNCHANGED <<queued, fetches, decodeQueue, decoding, orphaned>>
      BY <1>6 DEF DrainDecoded
    <2> HIDE DEF result
    <2> QED
      BY <2>1, <2>2, <2>3 DEF InFlightExact, OneStagePerTile, StageIds
  <1>7. ASSUME NEW f \in fetches, NEW step, NEW bytes,
               FetchStep(f, step, bytes), FetchUnchanged
        PROVE  Booked
    <2>1. Ids(fetches)' = Ids(fetches) /\ DistinctIds(fetches)'
      BY <1>7, FetchKeepsId DEF OneStagePerTile
    <2> QED
      BY <1>7, <2>1
      DEF FetchUnchanged, InFlightExact, OneStagePerTile, StageIds
  <1>8. CASE DecodeTake
    <2> DEFINE x == Head(decodeQueue)
    <2>1. /\ SeqIds(Tail(decodeQueue)) = SeqIds(decodeQueue) \ {x.id}
          /\ x.id \in SeqIds(decodeQueue)
          /\ DistinctSeqIds(Tail(decodeQueue))
      BY <1>8, SeqIdsTail DEF DecodeTake, LoaderTypeOK, OneStagePerTile
    <2>2. Ids(decoding \cup {x}) = Ids(decoding) \cup {x.id}
      BY IdsAdd
    <2>3. DistinctIds(decoding \cup {x})
      BY <2>1, DistinctAdd DEF OneStagePerTile
    <2>4. decodeQueue' = Tail(decodeQueue) /\ decoding' = decoding \cup {x}
      BY <1>8 DEF DecodeTake
    <2>5. UNCHANGED <<queued, inFlight, fetches, decoded, orphaned>>
      BY <1>8 DEF DecodeTake
    <2> HIDE DEF x
    <2>6. /\ SeqIds(decodeQueue') = SeqIds(decodeQueue) \ {x.id}
          /\ DistinctSeqIds(decodeQueue')
          /\ x.id \in SeqIds(decodeQueue)
      BY <2>1, <2>4
    <2>7. /\ Ids(decoding') = Ids(decoding) \cup {x.id}
          /\ DistinctIds(decoding')
      BY <2>2, <2>3, <2>4
    <2> QED
      BY <2>5, <2>6, <2>7
      DEF InFlightExact, OneStagePerTile, StageIds
  <1>9. ASSUME NEW d \in decoding, DecodeFinish(d)
        PROVE  Booked
    <2> DEFINE g == [id |-> d.id, ok |-> d.bytes = "good"]
    <2>1. /\ Ids(decoding \ {d}) = Ids(decoding) \ {d.id}
          /\ d.id \in Ids(decoding)
          /\ DistinctIds(decoding \ {d})
      BY IdsRemove DEF OneStagePerTile
    <2>2. decoded' = Append(decoded, g) /\ g.id = d.id
      BY <1>9 DEF DecodeFinish
    <2>3. g \in Decoded /\ decoded \in Seq(Decoded)
      BY DEF Fetched, Decoded, LoaderTypeOK
    <2> HIDE DEF g
    <2>4. /\ SeqIds(Append(decoded, g)) = SeqIds(decoded) \cup {d.id}
          /\ d.id \notin SeqIds(decoded)
               => DistinctSeqIds(Append(decoded, g))
      BY <2>2, <2>3, SeqIdsAppend DEF OneStagePerTile
    <2>5. /\ decoding' = decoding \ {d}
          /\ UNCHANGED <<queued, inFlight, fetches, decodeQueue, orphaned>>
      BY <1>9 DEF DecodeFinish
    <2>6. /\ SeqIds(decoded') = SeqIds(decoded) \cup {d.id}
          /\ DistinctSeqIds(decoded')
      BY <2>1, <2>2, <2>4 DEF OneStagePerTile
    <2> QED
      BY <2>1, <2>5, <2>6
      DEF InFlightExact, OneStagePerTile, StageIds
  <1>10. ASSUME NEW d \in decoding, DecodePanics(d)
         PROVE  Booked
    <2>1. /\ Ids(decoding \ {d}) = Ids(decoding) \ {d.id}
          /\ d.id \in Ids(decoding)
          /\ DistinctIds(decoding \ {d})
      BY IdsRemove DEF OneStagePerTile
    <2>2. /\ decoding' = decoding \ {d} /\ orphaned' = orphaned \cup {d.id}
          /\ UNCHANGED <<queued, inFlight, fetches, decodeQueue, decoded>>
      BY <1>10 DEF DecodePanics
    <2> QED
      BY <2>1, <2>2 DEF InFlightExact, OneStagePerTile, StageIds
  <1>11. ASSUME UNCHANGED <<queued, inFlight, fetches, decodeQueue, decoding,
                            decoded, orphaned>>
         PROVE  Booked
    BY <1>11, StagesUnchanged
  <1>12. ASSUME NEW f \in fetches,
                \/ FetchFromCache(f) \/ FetchFromNetwork(f)
                \/ FetchIntoCache(f) \/ FetchPanics(f)
         PROVE  Booked
    <2>1. FetchUnchanged /\ \E step, bytes : FetchStep(f, step, bytes)
      BY <1>12
      DEF FetchFromCache, FetchFromNetwork, FetchIntoCache, FetchPanics
    <2> QED
      BY <1>7, <2>1
  <1> QED
    BY <1>1, <1>2, <1>3, <1>4, <1>5, <1>6, <1>8, <1>9, <1>10, <1>11, <1>12
    DEF LoaderNext, LoaderThread, FetchTask, DecoderThreads, LoaderPanics,
        LoaderStarts, LoaderFailsToStart, SpawnDone, ReceiveShutdown,
        ReceiveTimeout, JoinNothing, NextRound, LeaveLoop, LoaderReturns,
        DecoderExits

(* No stage holds anything when no tile is in a stage.                     *)
LEMMA StagesEmpty ==
  ASSUME LoaderTypeOK, StageIds = {}
  PROVE  /\ queued = {} /\ fetches = {} /\ decoding = {}
         /\ decodeQueue = <<>> /\ decoded = <<>>
  <1>1. queued = {} /\ fetches = {} /\ decoding = {}
    BY DEF StageIds, Ids
  <1>2. SeqIds(decodeQueue) = {} /\ SeqIds(decoded) = {}
    BY DEF StageIds
  <1>3. ASSUME NEW T, NEW s \in Seq(T), SeqIds(s) = {}
        PROVE  s = <<>>
    <2>1. SUFFICES ASSUME s # <<>> PROVE FALSE
      OBVIOUS
    <2>2. 1 \in DOMAIN s
      BY <1>3, <2>1
    <2> QED
      BY <1>3, <2>2 DEF SeqIds
  <1> QED
    BY <1>1, <1>2, <1>3 DEF LoaderTypeOK

(* A loader that has left its loop has nothing left to do.                 *)
LEMMA NothingLeftStep ==
  ASSUME LoaderTypeOK, InFlightExact, NothingLeftBehind, LoaderNext
  PROVE  NothingLeftBehind'
  <1> USE DEF loaderVars
  <1>1. CASE loaderPc = "joining"
    <2>1. /\ queued = {} /\ fetches = {} /\ decoding = {}
          /\ decodeQueue = <<>> /\ decoded = <<>>
      BY <1>1, StagesEmpty DEF NothingLeftBehind
    <2>2. UNCHANGED <<queued, inFlight, fetches, decodeQueue, decoding, decoded>>
      BY <1>1, <2>1
      DEF LoaderNext, LoaderThread, FetchTask, DecoderThreads, LoaderPanics,
          LoaderStarts, LoaderFailsToStart, DiscardOutOfDate, SpawnFetch,
          SpawnDone, ReceiveLoad, ReceiveShutdown, ReceiveTimeout, JoinFetch,
          JoinPanicked, JoinNothing, DrainDecoded, NextRound, LeaveLoop,
          LoaderReturns, DecodeTake, DecoderExits
    <2> QED
      BY <1>1, <2>2 DEF NothingLeftBehind, StageIds
  <1>2. CASE loaderPc # "joining"
    <2> SUFFICES ASSUME loaderPc' = "joining"
                 PROVE  StageIds' = {} /\ inFlight' = {}
      BY DEF NothingLeftBehind
    <2>1. LeaveLoop
      BY <1>2
      DEF LoaderNext, LoaderThread, FetchTask, DecoderThreads, LoaderPanics,
          LoaderStarts, LoaderFailsToStart, DiscardOutOfDate, SpawnFetch,
          SpawnDone, ReceiveLoad, ReceiveShutdown, ReceiveTimeout, JoinFetch,
          JoinPanicked, JoinNothing, DrainDecoded, NextRound, LoaderReturns,
          FetchFromCache, FetchFromNetwork, FetchIntoCache, FetchPanics,
          FetchUnchanged, DecodeTake, DecodeFinish, DecodePanics, DecoderExits
    <2>2. StageIds = {} /\ inFlight = {}
      BY <2>1 DEF LeaveLoop, Idle, InFlightExact
    <2> QED
      BY <2>1, <2>2 DEF LeaveLoop, StageIds
  <1> QED
    BY <1>1, <1>2

---------------------------------------------------------------------------
(* What the stages know of the tile's file.                                *)

LEMMA TailElements ==
  ASSUME NEW T, NEW s \in Seq(T), s # <<>>
  PROVE  /\ 1 \in DOMAIN s /\ Head(s) = s[1]
         /\ \A i \in DOMAIN Tail(s) :
              i + 1 \in DOMAIN s /\ i + 1 # 1 /\ Tail(s)[i] = s[i + 1]
<1>1. /\ Len(s) \in Nat \ {0} /\ DOMAIN s = 1..Len(s)
      /\ Head(s) = s[1] /\ DOMAIN Tail(s) = 1..(Len(s) - 1)
      /\ \A i \in 1..(Len(s) - 1) : Tail(s)[i] = s[i + 1]
  OBVIOUS
<1>2. \A i \in 1..(Len(s) - 1) : i + 1 \in 1..Len(s) /\ i + 1 # 1
  BY <1>1
<1> QED
  BY <1>1, <1>2

LEMMA AppendElements ==
  ASSUME NEW T, NEW s \in Seq(T), NEW x \in T
  PROVE  \A i \in DOMAIN Append(s, x) :
           \/ i \in DOMAIN s /\ Append(s, x)[i] = s[i]
           \/ Append(s, x)[i] = x
<1>1. /\ Len(s) \in Nat /\ DOMAIN s = 1..Len(s)
      /\ DOMAIN Append(s, x) = 1..(Len(s) + 1)
      /\ \A i \in 1..Len(s) : Append(s, x)[i] = s[i]
      /\ Append(s, x)[Len(s) + 1] = x
  OBVIOUS
<1>2. \A i \in 1..(Len(s) + 1) : i \in 1..Len(s) \/ i = Len(s) + 1
  BY <1>1
<1> QED
  BY <1>1, <1>2

(* A fetch that does not touch the file.                                   *)
LEMMA FetchStepBacked ==
  ASSUME LoaderTypeOK, StagesBacked, NEW f \in fetches, NEW step, NEW bytes,
         FetchStep(f, step, bytes), FetchUnchanged, UNCHANGED disk,
         step \in {"download", "put"} => disk[f.id] = "none",
         step = "done" => FileAgrees(f.id, bytes = "good")
  PROVE  StagesBacked'
<1> DEFINE g == [f EXCEPT !.step = step, !.bytes = bytes]
<1>1. f \in Fetch
  BY DEF LoaderTypeOK
<1>2. g.id = f.id /\ g.step = step /\ g.bytes = bytes
  BY <1>1 DEF Fetch
<1>3. fetches' = (fetches \ {f}) \cup {g}
  BY DEF FetchStep
<1> HIDE DEF g
<1>4. \A h \in fetches' :
        /\ h.step \in {"download", "put"} => disk[h.id] = "none"
        /\ h.step = "done" => FileAgrees(h.id, h.bytes = "good")
  BY <1>2, <1>3 DEF StagesBacked
<1> QED
  BY <1>4 DEF StagesBacked, FileAgrees, FetchUnchanged

(* The file changes for one tile while one stage holds it: nothing else    *)
(* knows of that file.                                                     *)
LEMMA OtherStages ==
  ASSUME OneStagePerTile
  PROVE  /\ \A f \in fetches :
              /\ \A g \in fetches : g # f => g.id # f.id
              /\ \A i \in DOMAIN decodeQueue : decodeQueue[i].id # f.id
              /\ \A d \in decoding : d.id # f.id
              /\ \A i \in DOMAIN decoded : decoded[i].id # f.id
         /\ \A j \in DOMAIN decoded :
              /\ \A i \in DOMAIN decodeQueue : decodeQueue[i].id # decoded[j].id
              /\ \A d \in decoding : d.id # decoded[j].id
              /\ \A i \in DOMAIN decoded : i # j => decoded[i].id # decoded[j].id
<1>1. /\ DistinctIds(fetches) /\ DistinctSeqIds(decoded)
      /\ Ids(fetches) \cap (SeqIds(decodeQueue) \cup Ids(decoding)
           \cup SeqIds(decoded) \cup orphaned) = {}
      /\ SeqIds(decodeQueue) \cap
           (Ids(decoding) \cup SeqIds(decoded) \cup orphaned) = {}
      /\ Ids(decoding) \cap (SeqIds(decoded) \cup orphaned) = {}
  BY DEF OneStagePerTile
<1>2. /\ \A f \in fetches : f.id \in Ids(fetches)
      /\ \A d \in decoding : d.id \in Ids(decoding)
      /\ \A i \in DOMAIN decodeQueue : decodeQueue[i].id \in SeqIds(decodeQueue)
      /\ \A i \in DOMAIN decoded : decoded[i].id \in SeqIds(decoded)
  BY DEF Ids, SeqIds
<1>3. /\ \A f, g \in fetches : f.id = g.id => f = g
      /\ \A i, j \in DOMAIN decoded : decoded[i].id = decoded[j].id => i = j
  BY <1>1 DEF DistinctIds, DistinctSeqIds
<1>4. /\ \A t \in Ids(fetches) :
           t \notin SeqIds(decodeQueue) /\ t \notin Ids(decoding)
             /\ t \notin SeqIds(decoded)
      /\ \A t \in SeqIds(decoded) :
           t \notin SeqIds(decodeQueue) /\ t \notin Ids(decoding)
  BY <1>1
<1> QED
  BY <1>2, <1>3, <1>4

LEMMA FileWritten ==
  ASSUME LoaderTypeOK, OneStagePerTile, StagesBacked, NEW f \in fetches,
         f.step = "put", FetchStep(f, "done", f.bytes), FetchUnchanged,
         disk' = [disk EXCEPT ![f.id] = f.bytes]
  PROVE  StagesBacked'
<1> DEFINE g == [f EXCEPT !.step = "done", !.bytes = f.bytes]
<1>1. f \in Fetch /\ disk \in [Tiles -> {"none", "good", "bad"}]
  BY DEF LoaderTypeOK
<1>2. g.id = f.id /\ g.step = "done" /\ g.bytes = f.bytes /\ f.id \in Tiles
  BY <1>1 DEF Fetch
<1>3. fetches' = (fetches \ {f}) \cup {g}
  BY DEF FetchStep
<1>4. disk'[f.id] = f.bytes /\ \A t : t # f.id => disk'[t] = disk[t]
  BY <1>1, <1>2
<1> HIDE DEF g
<1>5. \A h \in fetches' :
        /\ h.step \in {"download", "put"} => disk'[h.id] = "none"
        /\ h.step = "done" => FileAgrees(h.id, h.bytes = "good")'
  BY <1>2, <1>3, <1>4, OtherStages DEF StagesBacked, FileAgrees
<1>6. /\ \A i \in DOMAIN decodeQueue :
           FileAgrees(decodeQueue[i].id, decodeQueue[i].bytes = "good")'
      /\ \A d \in decoding : FileAgrees(d.id, d.bytes = "good")'
      /\ \A i \in DOMAIN decoded : FileAgrees(decoded[i].id, decoded[i].ok)'
  BY <1>4, OtherStages DEF StagesBacked, FileAgrees, FetchUnchanged
<1> QED
  BY <1>5, <1>6 DEF StagesBacked, FetchUnchanged

LEMMA DrainBacked ==
  ASSUME LoaderTypeOK, OneStagePerTile, StagesBacked, DrainDecoded
  PROVE  StagesBacked'
<1> DEFINE t == Head(decoded).id
<1>1. /\ decoded \in Seq(Decoded) /\ decoded # <<>> /\ decoded' = Tail(decoded)
      /\ disk \in [Tiles -> {"none", "good", "bad"}]
      /\ UNCHANGED <<fetches, decodeQueue, decoding>>
  BY DEF DrainDecoded, LoaderTypeOK
<1>2. /\ 1 \in DOMAIN decoded /\ t = decoded[1].id
      /\ \A i \in DOMAIN decoded' :
           i + 1 \in DOMAIN decoded /\ i + 1 # 1 /\ decoded'[i] = decoded[i + 1]
  BY <1>1, TailElements
<1>3. \A s : s # t => disk'[s] = disk[s]
  <2>1. disk' = disk \/ disk' = [disk EXCEPT ![t] = "none"]
    BY DEF DrainDecoded
  <2>2. disk \in [Tiles -> {"none", "good", "bad"}]
    BY <1>1
  <2> HIDE DEF t
  <2>3. CASE disk' = [disk EXCEPT ![t] = "none"]
    BY <2>2, <2>3
  <2> QED
    BY <2>1, <2>3
<1> HIDE DEF t
<1>4. /\ \A f \in fetches : f.id # t
      /\ \A i \in DOMAIN decodeQueue : decodeQueue[i].id # t
      /\ \A d \in decoding : d.id # t
      /\ \A i \in DOMAIN decoded' : decoded'[i].id # t
  BY <1>2, OtherStages
<1>5. \A i \in DOMAIN decoded' : FileAgrees(decoded'[i].id, decoded'[i].ok)
  BY <1>2 DEF StagesBacked
<1>6. \A i \in DOMAIN decoded' : FileAgrees(decoded[i].id, decoded[i].ok)'
  BY <1>3, <1>4, <1>5 DEF FileAgrees
<1>7. /\ \A f \in fetches :
           /\ f.step \in {"download", "put"} => disk'[f.id] = "none"
           /\ f.step = "done" => FileAgrees(f.id, f.bytes = "good")'
      /\ \A i \in DOMAIN decodeQueue :
           FileAgrees(decodeQueue[i].id, decodeQueue[i].bytes = "good")'
      /\ \A d \in decoding : FileAgrees(d.id, d.bytes = "good")'
  BY <1>1, <1>3, <1>4 DEF StagesBacked, FileAgrees
<1> QED
  BY <1>1, <1>6, <1>7 DEF StagesBacked

(* Every step of the loader keeps what its stages know of the files.       *)
LEMMA LoaderStepBacked ==
  ASSUME LoaderTypeOK, OneStagePerTile, StagesBacked, LoaderNext
  PROVE  StagesBacked'
<1> USE DEF loaderVars
<1>1. ASSUME NEW r \in queued, SpawnFetch(r)
      PROVE  StagesBacked'
  BY <1>1 DEF SpawnFetch, StagesBacked, FileAgrees
<1>2. ASSUME NEW f \in fetches, JoinFetch(f)
      PROVE  StagesBacked'
  <2> DEFINE d == [id |-> f.id, bytes |-> f.bytes]
  <2>1. f \in Fetch /\ f.step = "done"
    BY <1>2 DEF JoinFetch, LoaderTypeOK
  <2>2. d \in Fetched /\ d.id = f.id /\ d.bytes = f.bytes
    BY <2>1 DEF Fetch, Fetched
  <2>3. /\ decodeQueue \in Seq(Fetched) /\ decodeQueue' = Append(decodeQueue, d)
        /\ fetches' \subseteq fetches
        /\ UNCHANGED <<disk, decoding, decoded>>
    BY <1>2 DEF JoinFetch, LoaderTypeOK
  <2> HIDE DEF d
  <2>4. \A i \in DOMAIN decodeQueue' :
          (i \in DOMAIN decodeQueue /\ decodeQueue'[i] = decodeQueue[i])
            \/ decodeQueue'[i] = d
    BY <2>2, <2>3, AppendElements
  <2> QED
    BY <2>1, <2>2, <2>3, <2>4 DEF StagesBacked, FileAgrees
<1>3. ASSUME NEW f \in fetches, JoinPanicked(f)
      PROVE  StagesBacked'
  BY <1>3 DEF JoinPanicked, StagesBacked, FileAgrees
<1>4. CASE DrainDecoded
  BY <1>4, DrainBacked
<1>5. ASSUME NEW f \in fetches, FetchFromCache(f)
      PROVE  StagesBacked'
  <2>1. f.id \in Tiles /\ disk \in [Tiles -> {"none", "good", "bad"}]
    BY DEF LoaderTypeOK, Fetch
  <2>2. CASE disk[f.id] = "none" /\ FetchStep(f, "download", "none")
    BY <1>5, <2>2, FetchStepBacked DEF FetchFromCache
  <2>3. CASE disk[f.id] # "none" /\ FetchStep(f, "done", disk[f.id])
    <3>1. FileAgrees(f.id, disk[f.id] = "good")
      BY DEF FileAgrees
    <3> QED
      BY <1>5, <2>3, <3>1, FetchStepBacked DEF FetchFromCache
  <2>4. CASE "io" \in Faults /\ FetchStep(f, "done", "error")
    <3>1. FileAgrees(f.id, "error" = "good")
      BY <2>4 DEF FileAgrees
    <3> QED
      BY <1>5, <2>4, <3>1, FetchStepBacked DEF FetchFromCache
  <2> QED
    BY <1>5, <2>2, <2>3, <2>4 DEF FetchFromCache
<1>6. ASSUME NEW f \in fetches, FetchFromNetwork(f)
      PROVE  StagesBacked'
  <2>1. disk[f.id] = "none"
    BY <1>6 DEF FetchFromNetwork, StagesBacked
  <2>2. FileAgrees(f.id, "error" = "good")
    BY <2>1 DEF FileAgrees
  <2>3. PICK step \in {"put", "done"}, bytes \in {"good", "bad", "error"} :
          FetchStep(f, step, bytes) /\ (step = "done" => bytes = "error")
    BY <1>6 DEF FetchFromNetwork
  <2> QED
    BY <1>6, <2>1, <2>2, <2>3, FetchStepBacked DEF FetchFromNetwork
<1>7. ASSUME NEW f \in fetches, FetchIntoCache(f)
      PROVE  StagesBacked'
  <2>1. CASE FetchStep(f, "done", f.bytes)
             /\ disk' = [disk EXCEPT ![f.id] = f.bytes]
    BY <1>7, <2>1, FileWritten DEF FetchIntoCache
  <2>2. CASE "io" \in Faults /\ FetchStep(f, "done", "error") /\ UNCHANGED disk
    <3>1. FileAgrees(f.id, "error" = "good")
      BY <2>2 DEF FileAgrees
    <3> QED
      BY <1>7, <2>2, <3>1, FetchStepBacked DEF FetchIntoCache
  <2> QED
    BY <1>7, <2>1, <2>2 DEF FetchIntoCache
<1>8. ASSUME NEW f \in fetches, FetchPanics(f)
      PROVE  StagesBacked'
  BY <1>8, FetchStepBacked DEF FetchPanics
<1>9. CASE DecodeTake
  <2>1. /\ decodeQueue \in Seq(Fetched) /\ decodeQueue # <<>>
        /\ decodeQueue' = Tail(decodeQueue)
        /\ decoding' = decoding \cup {Head(decodeQueue)}
        /\ UNCHANGED <<disk, fetches, decoded>>
    BY <1>9 DEF DecodeTake, LoaderTypeOK
  <2>2. /\ 1 \in DOMAIN decodeQueue /\ Head(decodeQueue) = decodeQueue[1]
        /\ \A i \in DOMAIN decodeQueue' :
             i + 1 \in DOMAIN decodeQueue /\ decodeQueue'[i] = decodeQueue[i + 1]
    BY <2>1, TailElements
  <2> QED
    BY <2>1, <2>2 DEF StagesBacked, FileAgrees
<1>10. ASSUME NEW d \in decoding, DecodeFinish(d)
       PROVE  StagesBacked'
  <2> DEFINE r == [id |-> d.id, ok |-> d.bytes = "good"]
  <2>1. d \in Fetched
    BY DEF LoaderTypeOK
  <2>2. r \in Decoded /\ r.id = d.id /\ r.ok = (d.bytes = "good")
    BY <2>1 DEF Fetched, Decoded
  <2>3. /\ decoded \in Seq(Decoded) /\ decoded' = Append(decoded, r)
        /\ decoding' \subseteq decoding
        /\ UNCHANGED <<disk, fetches, decodeQueue>>
    BY <1>10 DEF DecodeFinish, LoaderTypeOK
  <2> HIDE DEF r
  <2>4. \A i \in DOMAIN decoded' :
          (i \in DOMAIN decoded /\ decoded'[i] = decoded[i]) \/ decoded'[i] = r
    BY <2>2, <2>3, AppendElements
  <2>5. FileAgrees(r.id, r.ok)
    <3>1. FileAgrees(d.id, d.bytes = "good")
      BY DEF StagesBacked
    <3> QED
      BY <2>2, <3>1
  <2>6. \A i \in DOMAIN decoded' : FileAgrees(decoded'[i].id, decoded'[i].ok)
    BY <2>4, <2>5 DEF StagesBacked
  <2> QED
    BY <2>3, <2>6 DEF StagesBacked, FileAgrees
<1>11. ASSUME NEW d \in decoding, DecodePanics(d)
       PROVE  StagesBacked'
  BY <1>11 DEF DecodePanics, StagesBacked, FileAgrees
<1>12. CASE UNCHANGED <<fetches, decodeQueue, decoding, decoded, disk>>
  BY <1>12 DEF StagesBacked, FileAgrees
<1> QED
  BY <1>1, <1>2, <1>3, <1>4, <1>5, <1>6, <1>7, <1>8, <1>9, <1>10, <1>11, <1>12
  DEF LoaderNext, LoaderThread, FetchTask, DecoderThreads, LoaderPanics,
      LoaderStarts, LoaderFailsToStart, DiscardOutOfDate, SpawnDone,
      ReceiveLoad, ReceiveShutdown, ReceiveTimeout, JoinNothing, NextRound,
      LeaveLoop, LoaderReturns, DecoderExits

(* While no file operation fails, the loader takes no good file away: it   *)
(* writes only to a tile without a file, and removes what gave no tile.    *)
LEMMA GoodFileKept ==
  ASSUME LoaderTypeOK, StagesBacked, LoaderNext, "io" \notin Faults,
         NEW t \in Tiles, disk[t] = "good"
  PROVE  disk'[t] = "good"
<1> USE DEF loaderVars
<1>1. disk \in [Tiles -> {"none", "good", "bad"}]
  BY DEF LoaderTypeOK
<1>2. CASE DrainDecoded
  <2>1. 1 \in DOMAIN decoded /\ Head(decoded) = decoded[1]
    BY <1>2, TailElements DEF DrainDecoded, LoaderTypeOK
  <2>2. Head(decoded).id = t => Head(decoded).ok
    BY <2>1 DEF StagesBacked, FileAgrees
  <2>3. disk' = IF Head(decoded).ok THEN disk
                ELSE [disk EXCEPT ![Head(decoded).id] = "none"]
    BY <1>2 DEF DrainDecoded
  <2> QED
    BY <1>1, <2>2, <2>3
<1>3. ASSUME NEW f \in fetches, FetchIntoCache(f)
      PROVE  disk'[t] = "good"
  <2>1. f.id # t
    BY <1>3 DEF FetchIntoCache, StagesBacked
  <2>2. disk' = [disk EXCEPT ![f.id] = f.bytes]
    BY <1>3 DEF FetchIntoCache
  <2> QED
    BY <1>1, <2>1, <2>2
<1>4. CASE UNCHANGED disk
  BY <1>4
<1> QED
  BY <1>2, <1>3, <1>4
  DEF LoaderNext, LoaderThread, FetchTask, DecoderThreads, LoaderPanics,
      LoaderStarts, LoaderFailsToStart, DiscardOutOfDate, SpawnFetch,
      SpawnDone, ReceiveLoad, ReceiveShutdown, ReceiveTimeout, JoinFetch,
      JoinPanicked, JoinNothing, NextRound, LeaveLoop, LoaderReturns,
      FetchFromCache, FetchFromNetwork, FetchPanics, FetchUnchanged,
      DecodeTake, DecodeFinish, DecodePanics, DecoderExits

---------------------------------------------------------------------------
(* Every step of the loader keeps its whole invariant.                     *)
LEMMA LoaderStepInv ==
  ASSUME LoaderInv, LoaderNext
  PROVE  LoaderInv'
  BY LoaderStepTyped, DecodersCountedStep, LoaderStepBooked, NothingLeftStep,
     LoaderStepBacked
  DEF LoaderInv

(* A step of the loader's surroundings may send to the loader and receive  *)
(* what it sends, and does nothing else to it.                             *)
LEMMA LoaderOthersInv ==
  ASSUME LoaderInv, UNCHANGED <<loaderPc, loaderVars>>,
         tileRequests' \in Seq(TileLoaderRequest)
  PROVE  LoaderInv'
  <1>1. InFlightExact' /\ OneStagePerTile'
    BY StagesUnchanged DEF LoaderInv, loaderVars
  <1>2. StagesBacked'
    BY DEF LoaderInv, loaderVars, StagesBacked, FileAgrees
  <1> QED
    BY <1>1, <1>2
    DEF LoaderInv, loaderVars, LoaderTypeOK, DecodersCounted,
        NothingLeftBehind, StageIds

---------------------------------------------------------------------------
(* The tiles named in the two channels, as messages come and go.           *)

LEMMA RequestedAfterSend ==
  ASSUME tileRequests \in Seq(TileLoaderRequest),
         NEW m \in TileLoaderRequest,
         tileRequests' = Append(tileRequests, m)
  PROVE  /\ tileRequests' \in Seq(TileLoaderRequest)
         /\ RequestedIds \subseteq RequestedIds'
         /\ m.type = "Load" => m.request.id \in RequestedIds'
  <1>1. /\ Len(tileRequests) \in Nat
        /\ DOMAIN tileRequests = 1..Len(tileRequests)
        /\ DOMAIN tileRequests' = 1..(Len(tileRequests) + 1)
        /\ \A i \in 1..Len(tileRequests) : tileRequests'[i] = tileRequests[i]
        /\ tileRequests'[Len(tileRequests) + 1] = m
    OBVIOUS
  <1>2. tileRequests' \in Seq(TileLoaderRequest)
    OBVIOUS
  <1> QED
    BY <1>1, <1>2 DEF RequestedIds

(* Receiving a request takes at most its own tile out of the requested     *)
(* ones.                                                                   *)
LEMMA RequestedAfterReceive ==
  ASSUME tileRequests \in Seq(TileLoaderRequest), tileRequests # <<>>,
         tileRequests' = Tail(tileRequests)
  PROVE  \A t \in RequestedIds :
           \/ t \in RequestedIds'
           \/ /\ Head(tileRequests).type = "Load"
              /\ t = Head(tileRequests).request.id
  <1>1. /\ Len(tileRequests) \in Nat \ {0}
        /\ DOMAIN tileRequests = 1..Len(tileRequests)
        /\ Head(tileRequests) = tileRequests[1]
        /\ DOMAIN tileRequests' = 1..(Len(tileRequests) - 1)
        /\ \A i \in 1..(Len(tileRequests) - 1) :
             tileRequests'[i] = tileRequests[i + 1]
    OBVIOUS
  <1> SUFFICES ASSUME NEW t \in RequestedIds,
                      ~ /\ Head(tileRequests).type = "Load"
                        /\ t = Head(tileRequests).request.id
               PROVE  t \in RequestedIds'
    OBVIOUS
  <1>2. PICK i \in 1..Len(tileRequests) :
          tileRequests[i].type = "Load" /\ t = tileRequests[i].request.id
    BY <1>1 DEF RequestedIds
  <1>3. i - 1 \in 1..(Len(tileRequests) - 1)
    BY <1>1, <1>2
  <1>4. tileRequests'[i - 1] = tileRequests[i]
    BY <1>1, <1>3
  <1> QED
    BY <1>1, <1>2, <1>3, <1>4 DEF RequestedIds

(* A command queued for the worker takes no tile out of the answered ones, *)
(* and a TileLoaded adds its tile.                                         *)
LEMMA AnsweredAfterSend ==
  ASSUME commands \in Seq(RenderCommand), NEW m \in RenderCommand,
         commands' = Append(commands, m)
  PROVE  /\ commands' \in Seq(RenderCommand)
         /\ AnsweredIds \subseteq AnsweredIds'
         /\ m.type = "TileLoaded" => m.id \in AnsweredIds'
  <1>1. /\ Len(commands) \in Nat
        /\ DOMAIN commands = 1..Len(commands)
        /\ DOMAIN commands' = 1..(Len(commands) + 1)
        /\ \A i \in 1..Len(commands) : commands'[i] = commands[i]
        /\ commands'[Len(commands) + 1] = m
    OBVIOUS
  <1>2. commands' \in Seq(RenderCommand)
    OBVIOUS
  <1> QED
    BY <1>1, <1>2 DEF AnsweredIds

(* Taking a command takes at most its own tile out of the answered ones.   *)
LEMMA AnsweredAfterReceive ==
  ASSUME commands \in Seq(RenderCommand), commands # <<>>,
         commands' = Tail(commands)
  PROVE  \A t \in AnsweredIds :
           \/ t \in AnsweredIds'
           \/ Head(commands).type = "TileLoaded" /\ t = Head(commands).id
  <1>1. /\ Len(commands) \in Nat \ {0}
        /\ DOMAIN commands = 1..Len(commands)
        /\ Head(commands) = commands[1]
        /\ DOMAIN commands' = 1..(Len(commands) - 1)
        /\ \A i \in 1..(Len(commands) - 1) : commands'[i] = commands[i + 1]
    OBVIOUS
  <1> SUFFICES ASSUME NEW t \in AnsweredIds,
                      ~ (Head(commands).type = "TileLoaded"
                           /\ t = Head(commands).id)
               PROVE  t \in AnsweredIds'
    OBVIOUS
  <1>2. PICK i \in 1..Len(commands) :
          commands[i].type = "TileLoaded" /\ t = commands[i].id
    BY <1>1 DEF AnsweredIds
  <1>3. i - 1 \in 1..(Len(commands) - 1)
    BY <1>1, <1>2
  <1>4. commands'[i - 1] = commands[i]
    BY <1>1, <1>3
  <1> QED
    BY <1>1, <1>2, <1>3, <1>4 DEF AnsweredIds
---------------------------------------------------------------------------
(* Where a pending tile is.                                                *)

(* What the loader's stages and the panicked tasks hold is in_flight, so a *)
(* pending tile is in one of four places; before its loop the worker has   *)
(* no pending tiles.                                                       *)
PendingInv ==
  /\ WorkerRuns /\ LoaderRuns =>
       pendingLoads \subseteq
         RequestedIds \cup inFlight \cup AnsweredIds \cup superseded
  /\ workerPc = "starting" => pendingLoads = {}

(* The stronger invariant gives the property: every pending tile has a     *)
(* trace somewhere while both threads run.                                 *)
LEMMA PendingInvAccounted ==
  ASSUME PendingInv, InFlightExact
  PROVE  PendingAccounted
  BY DEF PendingInv, InFlightExact, PendingAccounted

(* The loader loses no tile but those it discards.                         *)
LEMMA LoaderStepPending ==
  ASSUME LoaderTypeOK, commands \in Seq(RenderCommand), PendingInv, LoaderNext,
         UNCHANGED workerVars
  PROVE  PendingInv'
  <1> USE DEF PendingInv, WorkerRuns, LoaderRuns, loaderVars
  <1>1. pendingLoads' = pendingLoads /\ workerPc' = workerPc
    BY DEF workerVars, pendingVars, LoaderNext
  <1>2. ASSUME NEW r \in queued, DiscardOutOfDate(r)
        PROVE  PendingInv'
    <2>1. RequestedIds' = RequestedIds /\ AnsweredIds' = AnsweredIds
      BY <1>2 DEF DiscardOutOfDate, RequestedIds, AnsweredIds
    <2> QED
      BY <1>1, <1>2, <2>1 DEF DiscardOutOfDate
  <1>3. CASE ReceiveLoad
    <2>1. \A t \in RequestedIds :
            t \in RequestedIds' \/ t = Head(tileRequests).request.id
      BY <1>3, RequestedAfterReceive DEF ReceiveLoad, LoaderTypeOK
    <2>2. AnsweredIds' = AnsweredIds
      BY <1>3 DEF ReceiveLoad, AnsweredIds
    <2>3. /\ inFlight' = inFlight \cup {Head(tileRequests).request.id}
          /\ superseded \subseteq superseded' \cup inFlight'
      BY <1>3 DEF ReceiveLoad
    <2>4. loaderPc' = loaderPc
      BY <1>3 DEF ReceiveLoad
    <2> QED
      BY <1>1, <2>1, <2>2, <2>3, <2>4
  <1>4. CASE ReceiveShutdown
    <2>1. \A t \in RequestedIds : t \in RequestedIds'
      BY <1>4, RequestedAfterReceive DEF ReceiveShutdown, LoaderTypeOK
    <2>2. AnsweredIds' = AnsweredIds
      BY <1>4 DEF ReceiveShutdown, AnsweredIds
    <2> QED
      BY <1>1, <1>4, <2>1, <2>2 DEF ReceiveShutdown
  <1>5. CASE DrainDecoded
    <2> DEFINE result == Head(decoded)
               m == TileLoaded(result.id, result.ok)
    <2>1. result \in Decoded
      BY <1>5 DEF DrainDecoded, LoaderTypeOK
    <2>2. m \in RenderCommand /\ m.type = "TileLoaded" /\ m.id = result.id
      BY <2>1 DEF Decoded, TileLoaded, TileLoadedCommand, RenderCommand
    <2>3. commands' = IF workerPc = "stopped" THEN commands
                      ELSE Append(commands, m)
      BY <1>5 DEF DrainDecoded, SendToWorker
    <2>4. RequestedIds' = RequestedIds
      BY <1>5 DEF DrainDecoded, RequestedIds
    <2>5. /\ inFlight' = inFlight \ {result.id}
          /\ UNCHANGED <<superseded, loaderPc>>
      BY <1>5 DEF DrainDecoded
    <2> HIDE DEF m, result
    <2>6. CASE workerPc # "stopped"
      <3>1. AnsweredIds \subseteq AnsweredIds' /\ m.id \in AnsweredIds'
        BY <2>2, <2>3, <2>6, AnsweredAfterSend
      <3> QED
        BY <1>1, <2>2, <2>4, <2>5, <3>1
    <2> QED
      BY <1>1, <2>6
  <1>6. CASE loaderPc' = "stopped"
    BY <1>1, <1>6
  <1>7. CASE /\ UNCHANGED <<tileRequests, commands, inFlight, superseded>>
             /\ LoaderRuns' => LoaderRuns
    <2>1. RequestedIds' = RequestedIds /\ AnsweredIds' = AnsweredIds
      BY <1>7 DEF RequestedIds, AnsweredIds
    <2> QED
      BY <1>1, <1>7, <2>1
  <1> QED
    BY <1>2, <1>3, <1>4, <1>5, <1>6, <1>7
    DEF LoaderNext, LoaderThread, FetchTask, DecoderThreads, LoaderPanics,
        LoaderStarts, LoaderFailsToStart, SpawnFetch, SpawnDone,
        ReceiveTimeout, JoinFetch, JoinPanicked, JoinNothing, NextRound,
        LeaveLoop, LoaderReturns, FetchFromCache, FetchFromNetwork,
        FetchIntoCache, FetchPanics, FetchUnchanged, DecodeTake, DecodeFinish,
        DecodePanics, DecoderExits

(* The worker forgets a pending tile when it takes its answer, and asks    *)
(* the loader for every tile it starts to count as pending.                *)
LEMMA WorkerStepPending ==
  ASSUME WorkerControlTypeOK, tileRequests \in Seq(TileLoaderRequest),
         PendingInv, WorkerThread, UNCHANGED loaderVars
  PROVE  PendingInv'
  <1> USE DEF PendingInv, WorkerRuns, LoaderRuns, mapVars, pendingVars,
              cacheVars
  <1>1. UNCHANGED <<inFlight, superseded>>
    BY DEF loaderVars
  <1>2. loaderPc' = loaderPc
    BY DEF WorkerThread, WorkerStarts, WorkerFailsToStart, ReceiveCommand,
        Take, SurfaceCreated, SurfaceDestroyed, Resize, ResizeWith, SetCamera,
        AddTileLayer, RemoveLayer, SetLayerVisible, SetLayerOpacity,
        ReceiveTile, WorkerShutdown, RenderFrame, ContinueFrame, SendRequest,
        UploadTiles, EvictTile, DrawFrame, MotionExpires
  <1>3. CASE WorkerStarts
    BY <1>3 DEF WorkerStarts, workerVars
  <1>4. CASE WorkerFailsToStart \/ WorkerShutdown
    BY <1>4 DEF WorkerFailsToStart, WorkerShutdown
  <1>5. ASSUME NEW type, Take(type), workerPc' = workerPc
        PROVE  /\ RequestedIds' = RequestedIds
               /\ workerPc = "loop"
               /\ \A t \in AnsweredIds :
                    \/ t \in AnsweredIds'
                    \/ type = "TileLoaded" /\ t = Head(commands).id
    <2>1. RequestedIds' = RequestedIds
      BY <1>5 DEF Take, RequestedIds
    <2> QED
      BY <1>5, <2>1, AnsweredAfterReceive DEF Take, WorkerControlTypeOK
  <1>6. ASSUME NEW type, type # "TileLoaded", Take(type),
               UNCHANGED <<workerPc, pendingLoads>>
        PROVE  PendingInv'
    BY <1>1, <1>2, <1>5, <1>6
  <1>7. CASE ReceiveTile
    <2>1. /\ Take("TileLoaded") /\ workerPc' = workerPc
          /\ pendingLoads' = pendingLoads \ {Head(commands).id}
      BY <1>7 DEF ReceiveTile
    <2> QED
      BY <1>1, <1>2, <1>5, <2>1
  <1>8. CASE RenderFrame
    <2>1. pendingLoads' \subseteq pendingLoads
      BY <1>8 DEF RenderFrame, PlanRequests, SkipPlanning
    <2>2. RequestedIds' = RequestedIds /\ AnsweredIds' = AnsweredIds
      BY <1>8 DEF RenderFrame, RequestedIds, AnsweredIds
    <2>3. workerPc = "loop" /\ workerPc' \in {"drawing", "sending"}
      BY <1>8 DEF RenderFrame, PlanRequests, SkipPlanning
    <2> QED
      BY <1>1, <1>2, <2>1, <2>2, <2>3
  <1>9. ASSUME NEW r \in outbox, NEW p \in PriorityLevels, SendRequest(r, p)
        PROVE  PendingInv'
    <2> DEFINE m == [id |-> r.id, generation |-> generation, priority |-> p]
    <2>1. m \in TileLoadRequest
      BY DEF WorkerControlTypeOK, Request, TileLoadRequest
    <2>2. /\ Load(m) \in TileLoaderRequest
          /\ Load(m).type = "Load"
          /\ Load(m).request.id = r.id
      BY <2>1 DEF Load, TileLoaderRequest
    <2>3. CASE loaderPc # "stopped"
      <3>1. tileRequests' = Append(tileRequests, Load(m))
        BY <1>9, <2>3 DEF SendRequest, SendToLoader
      <3>2. RequestedIds \subseteq RequestedIds' /\ r.id \in RequestedIds'
        BY <2>2, <3>1, RequestedAfterSend
      <3>3. AnsweredIds' = AnsweredIds
        BY <1>9 DEF SendRequest, AnsweredIds
      <3>4. /\ pendingLoads' = pendingLoads \cup {r.id}
            /\ workerPc = "sending" /\ workerPc' = workerPc
        BY <1>9 DEF SendRequest
      <3> HIDE DEF m
      <3> QED
        BY <1>1, <1>2, <3>2, <3>3, <3>4
    <2>4. CASE loaderPc = "stopped"
      BY <1>2, <1>9, <2>4 DEF SendRequest
    <2> QED
      BY <2>3, <2>4
  <1>10. CASE UploadTiles \/ EvictTile \/ DrawFrame \/ MotionExpires
    <2>1. RequestedIds' = RequestedIds /\ AnsweredIds' = AnsweredIds
      BY <1>10
      DEF UploadTiles, EvictTile, DrawFrame, MotionExpires, RequestedIds,
          AnsweredIds
    <2>2. /\ pendingLoads' = pendingLoads
          /\ \/ workerPc' = workerPc
             \/ /\ workerPc \in {"sending", "evicting", "drawing"}
                /\ workerPc' \in {"loop", "evicting", "drawing"}
      BY <1>10 DEF UploadTiles, EvictTile, DrawFrame, MotionExpires
    <2> QED
      BY <1>1, <1>2, <2>1, <2>2
  <1> QED
    BY <1>3, <1>4, <1>6, <1>7, <1>8, <1>9, <1>10
    DEF WorkerThread, ReceiveCommand, ContinueFrame, SurfaceCreated,
        SurfaceDestroyed, Resize, ResizeWith, SetCamera, AddTileLayer, RemoveLayer,
        SetLayerVisible, SetLayerOpacity, LayersUnchanged

(* The owner only sends.                                                   *)
LEMMA OwnerStep ==
  ASSUME WorkerControlTypeOK, tileRequests \in Seq(TileLoaderRequest),
         PendingInv, Owner
  PROVE  /\ commands' \in Seq(RenderCommand)
         /\ tileRequests' \in Seq(TileLoaderRequest)
         /\ PendingInv'
         /\ UNCHANGED <<loaderPc, workerPc, loaderVars, workerVars>>
  <1>1. UNCHANGED <<loaderPc, workerPc, loaderVars, workerVars>>
    BY DEF Owner, Drop, DropStopsWorker, DropStopsLoader, DropJoinsWorker,
           DropJoinsLoader, UiSends
  <1>2. \A m \in UiCommand : m \in RenderCommand
    BY DEF RenderCommand
  <1>3. [type |-> "Shutdown"] \in UiCommand
    BY DEF UiCommand
  <1>4. \/ commands' = commands
        \/ \E m \in RenderCommand : commands' = Append(commands, m)
    BY <1>2, <1>3, PipelineAssumption
    DEF Owner, Drop, DropStopsWorker, DropStopsLoader, DropJoinsWorker,
        DropJoinsLoader, UiSends, SendToWorker
  <1>5. LoaderShutdown \in TileLoaderRequest
    BY DEF TileLoaderRequest
  <1>6. tileRequests' \in {tileRequests, Append(tileRequests, LoaderShutdown)}
    BY DEF Owner, Drop, DropStopsWorker, DropStopsLoader, DropJoinsWorker,
           DropJoinsLoader, UiSends, SendToLoader
  <1>7. commands' \in Seq(RenderCommand) /\ AnsweredIds \subseteq AnsweredIds'
    <2>1. CASE commands' = commands
      BY <2>1 DEF WorkerControlTypeOK, AnsweredIds
    <2>2. CASE \E m \in RenderCommand : commands' = Append(commands, m)
      BY <2>2, AnsweredAfterSend DEF WorkerControlTypeOK
    <2> QED
      BY <1>4, <2>1, <2>2
  <1>8. /\ tileRequests' \in Seq(TileLoaderRequest)
        /\ RequestedIds \subseteq RequestedIds'
    <2>1. CASE tileRequests' = tileRequests
      BY <2>1 DEF RequestedIds
    <2>2. CASE tileRequests' = Append(tileRequests, LoaderShutdown)
      BY <1>5, <2>2, RequestedAfterSend
    <2> QED
      BY <1>6, <2>1, <2>2
  <1>9. PendingInv'
    BY <1>1, <1>7, <1>8
    DEF PendingInv, WorkerRuns, LoaderRuns, loaderVars, workerVars, pendingVars
  <1> QED
    BY <1>1, <1>7, <1>8, <1>9

---------------------------------------------------------------------------
(* What is answered is on disk.                                            *)

(* With the property: a worker that has ended has no answers any more, so  *)
(* that the loader may remove files without anybody being told.            *)
AnswersInv ==
  /\ AnsweredTilesAreCached
  /\ workerPc = "stopped" => commands = <<>>

(* A message that is sent keeps the property when it tells the truth, and  *)
(* when a good file is lost only for a tile that it says has failed.       *)
LEMMA AnswersAfterSend ==
  ASSUME commands \in Seq(RenderCommand), AnsweredTilesAreCached,
         NEW m \in RenderCommand, commands' = Append(commands, m),
         m.type = "TileLoaded" /\ m.ok => disk'[m.id] = "good",
         \A t : /\ disk[t] = "good"
                /\ ~(m.type = "TileLoaded" /\ m.id = t)
                => disk'[t] = "good"
  PROVE  AnsweredTilesAreCached'
<1>0. PICK n \in Nat : n = Len(commands)
  OBVIOUS
<1>1. /\ DOMAIN commands = 1..n /\ DOMAIN commands' = 1..(n + 1)
      /\ \A i \in 1..n : commands'[i] = commands[i]
      /\ commands'[n + 1] = m
  BY <1>0
<1>2. ASSUME NEW i \in 1..n, IsLastAnswer(i)', commands[i].ok
      PROVE  disk'[commands[i].id] = "good"
  <2>1. IsLastAnswer(i)
    BY <1>1, <1>2 DEF IsLastAnswer
  <2>2. ~(m.type = "TileLoaded" /\ m.id = commands[i].id)
    <3>1. n + 1 \in DOMAIN commands' /\ n + 1 > i
      BY <1>1
    <3> QED
      BY <1>1, <1>2, <3>1 DEF IsLastAnswer
  <2>3. disk[commands[i].id] = "good"
    BY <1>1, <1>2, <2>1 DEF AnsweredTilesAreCached
  <2> QED
    BY <2>2, <2>3
<1>3. IsLastAnswer(n + 1)' => m.type = "TileLoaded"
  BY <1>1 DEF IsLastAnswer
<1>4. \A i \in 1..(n + 1) : i \in 1..n \/ i = n + 1
  BY <1>1
<1> QED
  BY <1>1, <1>2, <1>3, <1>4 DEF AnsweredTilesAreCached

(* Taking the oldest message leaves the last answers what they are.        *)
LEMMA AnswersAfterReceive ==
  ASSUME commands \in Seq(RenderCommand), commands # <<>>,
         AnsweredTilesAreCached, commands' = Tail(commands), disk' = disk
  PROVE  AnsweredTilesAreCached'
<1>0. PICK n \in Nat \ {0} : n = Len(commands)
  OBVIOUS
<1>1. /\ DOMAIN commands = 1..n /\ DOMAIN commands' = 1..(n - 1)
      /\ \A i \in 1..(n - 1) : commands'[i] = commands[i + 1]
  BY <1>0
<1>2. ASSUME NEW i \in 1..(n - 1), IsLastAnswer(i)'
      PROVE  IsLastAnswer(i + 1)
  <2>1. commands[i + 1].type = "TileLoaded"
    BY <1>1, <1>2 DEF IsLastAnswer
  <2>2. ASSUME NEW j \in 1..n, j > i + 1, commands[j].type = "TileLoaded"
        PROVE  commands[j].id # commands[i + 1].id
    <3>1. j - 1 \in 1..(n - 1) /\ j - 1 > i /\ (j - 1) + 1 = j
      BY <1>1, <2>2
    <3>2. commands'[j - 1] = commands[j] /\ commands'[i] = commands[i + 1]
      BY <1>1, <3>1
    <3> QED
      BY <1>1, <1>2, <2>2, <3>1, <3>2 DEF IsLastAnswer
  <2> QED
    BY <1>1, <2>1, <2>2 DEF IsLastAnswer
<1>3. \A i \in 1..(n - 1) : i + 1 \in 1..n
  BY <1>1
<1> QED
  BY <1>1, <1>2, <1>3 DEF AnsweredTilesAreCached

(* The loader answers with a tile only when the tile's file is good, and   *)
(* removes a file only as it answers without one.                          *)
LEMMA LoaderStepAnswers ==
  ASSUME LoaderInv, commands \in Seq(RenderCommand), AnswersInv, LoaderNext
  PROVE  AnswersInv'
<1> USE DEF loaderVars
<1>1. /\ LoaderTypeOK /\ StagesBacked /\ workerPc' = workerPc
      /\ disk \in [Tiles -> {"none", "good", "bad"}]
  BY DEF LoaderInv, LoaderTypeOK, LoaderNext
<1>2. CASE DrainDecoded
  <2> DEFINE m == TileLoaded(Head(decoded).id, Head(decoded).ok)
  <2>1. Head(decoded) \in Decoded
    BY <1>1, <1>2 DEF DrainDecoded, LoaderTypeOK
  <2>2. /\ m \in RenderCommand /\ m.type = "TileLoaded"
        /\ m.id = Head(decoded).id /\ m.ok = Head(decoded).ok
    BY <2>1 DEF Decoded, TileLoaded, TileLoadedCommand, RenderCommand
  <2>3. commands' = IF workerPc = "stopped" THEN commands
                    ELSE Append(commands, m)
    BY <1>2 DEF DrainDecoded, SendToWorker
  <2>4. Head(decoded).ok => disk[Head(decoded).id] = "good"
    <3>1. 1 \in DOMAIN decoded /\ Head(decoded) = decoded[1]
      BY <1>1, <1>2, TailElements DEF DrainDecoded, LoaderTypeOK
    <3> QED
      BY <1>1, <3>1 DEF StagesBacked, FileAgrees
  <2>5. /\ disk' = disk \/ disk' = [disk EXCEPT ![m.id] = "none"]
        /\ m.ok => disk' = disk
    BY <1>2, <2>2 DEF DrainDecoded
  <2> HIDE DEF m
  <2>6. \A t : disk[t] = "good" /\ m.id # t => disk'[t] = "good"
    <3>1. CASE disk' = [disk EXCEPT ![m.id] = "none"]
      BY <1>1, <3>1
    <3> QED
      BY <2>5, <3>1
  <2>7. CASE workerPc = "stopped"
    BY <1>1, <2>3, <2>7 DEF AnswersInv, AnsweredTilesAreCached
  <2>8. CASE workerPc # "stopped"
    <3>1. AnsweredTilesAreCached'
      BY <2>2, <2>3, <2>4, <2>5, <2>6, <2>8, AnswersAfterSend DEF AnswersInv
    <3> QED
      BY <1>1, <2>8, <3>1 DEF AnswersInv
  <2> QED
    BY <2>7, <2>8
<1>3. CASE commands' = commands /\ \A t : disk[t] = "good" => disk'[t] = "good"
  BY <1>1, <1>3 DEF AnswersInv, AnsweredTilesAreCached, IsLastAnswer
<1>4. ASSUME NEW f \in fetches, FetchIntoCache(f)
      PROVE  commands' = commands /\ \A t : disk[t] = "good" => disk'[t] = "good"
  <2>1. f.step = "put" /\ disk[f.id] = "none"
    BY <1>1, <1>4 DEF FetchIntoCache, StagesBacked
  <2>2. \/ disk' = disk \/ disk' = [disk EXCEPT ![f.id] = f.bytes]
    BY <1>4 DEF FetchIntoCache
  <2>3. commands' = commands
    BY <1>4 DEF FetchIntoCache, FetchUnchanged
  <2>4. CASE disk' = [disk EXCEPT ![f.id] = f.bytes]
    BY <1>1, <2>1, <2>3, <2>4
  <2> QED
    BY <2>2, <2>3, <2>4
<1>5. CASE UNCHANGED <<commands, disk>>
  BY <1>3, <1>5
<1> QED
  BY <1>2, <1>3, <1>4, <1>5
  DEF LoaderNext, LoaderThread, FetchTask, DecoderThreads, LoaderPanics,
      LoaderStarts, LoaderFailsToStart, DiscardOutOfDate, SpawnFetch,
      SpawnDone, ReceiveLoad, ReceiveShutdown, ReceiveTimeout, JoinFetch,
      JoinPanicked, JoinNothing, NextRound, LeaveLoop, LoaderReturns,
      FetchFromCache, FetchFromNetwork, FetchPanics, FetchUnchanged,
      DecodeTake, DecodeFinish, DecodePanics, DecoderExits

(* The worker takes its messages in order, and none is left when it ends.  *)
LEMMA WorkerStepAnswers ==
  ASSUME commands \in Seq(RenderCommand), AnswersInv, WorkerThread,
         UNCHANGED loaderVars
  PROVE  AnswersInv'
<1>1. disk' = disk
  BY DEF loaderVars
<1>2. \/ UNCHANGED commands /\ workerPc' \in WorkerPcs \ {"stopped"}
      \/ UNCHANGED <<commands, workerPc>>
      \/ commands # <<>> /\ commands' = Tail(commands) /\ workerPc' = "loop"
      \/ commands' = <<>>
  <2>1. CASE ReceiveCommand
    <3>1. \/ WorkerShutdown
          \/ workerPc' = workerPc /\ \E type : Take(type)
      BY <2>1
      DEF ReceiveCommand, SurfaceCreated, SurfaceDestroyed, Resize, ResizeWith, SetCamera,
          AddTileLayer, RemoveLayer, SetLayerVisible, SetLayerOpacity,
          ReceiveTile, LayersUnchanged
    <3> QED
      BY <3>1 DEF Take, WorkerShutdown
  <2>2. CASE RenderFrame
    BY <2>2 DEF RenderFrame, PlanRequests, SkipPlanning, WorkerPcs
  <2>3. CASE ContinueFrame
    BY <2>3
    DEF ContinueFrame, SendRequest, UploadTiles, EvictTile, DrawFrame, WorkerPcs
  <2>4. CASE WorkerStarts \/ WorkerFailsToStart \/ MotionExpires
    BY <2>4 DEF WorkerStarts, WorkerFailsToStart, MotionExpires, WorkerPcs
  <2> QED
    BY <2>1, <2>2, <2>3, <2>4 DEF WorkerThread
<1>3. CASE \/ UNCHANGED commands /\ workerPc' \in WorkerPcs \ {"stopped"}
           \/ UNCHANGED <<commands, workerPc>>
  BY <1>1, <1>3 DEF AnswersInv, AnsweredTilesAreCached, IsLastAnswer
<1>4. CASE commands # <<>> /\ commands' = Tail(commands) /\ workerPc' = "loop"
  BY <1>1, <1>4, AnswersAfterReceive DEF AnswersInv
<1>5. CASE commands' = <<>>
  BY <1>5 DEF AnswersInv, AnsweredTilesAreCached
<1> QED
  BY <1>2, <1>3, <1>4, <1>5

(* The owner sends no answers, and nothing to a worker that has ended.     *)
LEMMA OwnerStepAnswers ==
  ASSUME commands \in Seq(RenderCommand), AnswersInv, Owner
  PROVE  AnswersInv'
<1>1. disk' = disk /\ workerPc' = workerPc
  BY DEF Owner, Drop, DropStopsWorker, DropStopsLoader, DropJoinsWorker,
         DropJoinsLoader, UiSends, loaderVars
<1>2. \A m \in UiCommand : m \in RenderCommand /\ m.type # "TileLoaded"
  BY DEF RenderCommand, UiCommand
<1>3. [type |-> "Shutdown"] \in UiCommand
  BY DEF UiCommand
<1>4. \/ commands' = commands
      \/ /\ workerPc # "stopped"
         /\ \E m \in UiCommand : commands' = Append(commands, m)
  BY <1>3, PipelineAssumption
  DEF Owner, Drop, DropStopsWorker, DropStopsLoader, DropJoinsWorker,
      DropJoinsLoader, UiSends, SendToWorker
<1>5. CASE commands' = commands
  BY <1>1, <1>5 DEF AnswersInv, AnsweredTilesAreCached, IsLastAnswer
<1>6. ASSUME NEW m \in UiCommand, commands' = Append(commands, m),
             workerPc # "stopped"
      PROVE  AnswersInv'
  BY <1>1, <1>2, <1>6, AnswersAfterSend DEF AnswersInv
<1> QED
  BY <1>4, <1>5, <1>6

---------------------------------------------------------------------------
(* The renderer.                                                           *)

(* The inductive invariant. It goes beyond the theorems below in three     *)
(* ways: what the threads exchange is typed, so that a step can rely on    *)
(* what it receives; the decode threads are counted, so that the loader is *)
(* typed; and a tile's place is given in terms of in_flight.               *)
Inv ==
  /\ LoaderInv
  /\ WorkerInv
  /\ PendingInv
  /\ AnswersInv

(* The initial states of the pipeline satisfy its invariant.               *)
LEMMA InitInv == Init => Inv
  <1> SUFFICES ASSUME Init PROVE Inv
    OBVIOUS
  <1>1. LoaderInv
    BY LoaderInitInv DEF Init
  <1>2. WorkerInv
    BY WorkerInitInv DEF Init
  <1>3. PendingInv
    BY DEF Init, ChannelsInit, WorkerInit, PendingInv, WorkerRuns
  <1>4. AnswersInv
    BY DEF Init, ChannelsInit, AnswersInv, AnsweredTilesAreCached
  <1> QED
    BY <1>1, <1>2, <1>3, <1>4 DEF Inv

(* Every step of the loader, the worker or the owner keeps it.             *)
LEMMA NextInv == Inv /\ [Next]_vars => Inv'
  <1> SUFFICES ASSUME Inv, [Next]_vars PROVE Inv'
    OBVIOUS
  <1>0. /\ LoaderInv /\ WorkerInv /\ PendingInv /\ AnswersInv /\ LoaderTypeOK
        /\ WorkerControlTypeOK
        /\ tileRequests \in Seq(TileLoaderRequest)
        /\ commands \in Seq(RenderCommand)
    BY DEF Inv, LoaderInv, LoaderTypeOK, WorkerInv, WorkerControlTypeOK
  <1>1. CASE Loader
    <2>1. LoaderNext /\ UNCHANGED workerVars /\ workerPc' = workerPc
      BY <1>1 DEF Loader, LoaderNext
    <2>2. LoaderInv'
      BY <1>0, <2>1, LoaderStepInv
    <2>3. PendingInv'
      BY <1>0, <2>1, LoaderStepPending
    <2>4. commands' \in Seq(RenderCommand)
      <3>1. CASE commands' = commands
        BY <1>0, <3>1
      <3>2. CASE DrainDecoded
        <4> DEFINE m == TileLoaded(Head(decoded).id, Head(decoded).ok)
        <4>1. Head(decoded) \in Decoded
          BY <1>0, <3>2 DEF DrainDecoded, LoaderTypeOK
        <4>2. m \in RenderCommand
          BY <4>1 DEF Decoded, TileLoaded, TileLoadedCommand, RenderCommand
        <4>3. commands' \in {commands, Append(commands, m)}
          BY <3>2 DEF DrainDecoded, SendToWorker
        <4> HIDE DEF m
        <4> QED
          BY <1>0, <4>2, <4>3
      <3> QED
        BY <2>1, <3>1, <3>2
        DEF LoaderNext, LoaderThread, FetchTask, DecoderThreads, LoaderPanics,
            LoaderStarts, LoaderFailsToStart, DiscardOutOfDate, SpawnFetch,
            SpawnDone, ReceiveLoad, ReceiveShutdown, ReceiveTimeout,
            JoinFetch, JoinPanicked, JoinNothing, NextRound, LeaveLoop,
            LoaderReturns, FetchFromCache, FetchFromNetwork, FetchIntoCache,
            FetchPanics, FetchUnchanged, DecodeTake, DecodeFinish,
            DecodePanics, DecoderExits
    <2>5. WorkerInv'
      BY <1>0, <2>1, <2>4, WorkerOthersInv
    <2>6. AnswersInv'
      BY <1>0, <2>1, LoaderStepAnswers
    <2> QED
      BY <2>2, <2>3, <2>5, <2>6 DEF Inv
  <1>2. CASE Worker
    <2>1. WorkerThread /\ UNCHANGED loaderVars
      BY <1>2 DEF Worker
    <2>2. WorkerInv'
      BY <1>0, <2>1, WorkerStepInv
    <2>3. PendingInv'
      BY <1>0, <2>1, WorkerStepPending
    <2>4. tileRequests' \in Seq(TileLoaderRequest)
      BY <1>0, <2>1, WorkerStepRequests
    <2>5. loaderPc' = loaderPc
      BY <2>1
      DEF WorkerThread, WorkerStarts, WorkerFailsToStart, ReceiveCommand,
          Take, SurfaceCreated, SurfaceDestroyed, Resize, ResizeWith, SetCamera,
          AddTileLayer, RemoveLayer, SetLayerVisible, SetLayerOpacity,
          ReceiveTile, WorkerShutdown, RenderFrame, ContinueFrame,
          SendRequest, UploadTiles, EvictTile, DrawFrame, MotionExpires
    <2>6. LoaderInv'
      BY <1>0, <2>1, <2>4, <2>5, LoaderOthersInv
    <2>7. AnswersInv'
      BY <1>0, <2>1, WorkerStepAnswers
    <2> QED
      BY <2>2, <2>3, <2>6, <2>7 DEF Inv
  <1>3. CASE Owner
    <2>1. /\ commands' \in Seq(RenderCommand)
          /\ tileRequests' \in Seq(TileLoaderRequest)
          /\ PendingInv'
          /\ UNCHANGED <<loaderPc, workerPc, loaderVars, workerVars>>
      BY <1>0, <1>3, OwnerStep
    <2>2. LoaderInv'
      BY <1>0, <2>1, LoaderOthersInv
    <2>3. WorkerInv'
      BY <1>0, <2>1, WorkerOthersInv
    <2>4. AnswersInv'
      BY <1>0, <1>3, OwnerStepAnswers
    <2> QED
      BY <2>1, <2>2, <2>3, <2>4 DEF Inv
  <1>4. CASE UNCHANGED vars
    <2>1. UNCHANGED <<tileRequests, commands, loaderPc, workerPc, loaderVars,
                      workerVars>>
      BY <1>4 DEF vars
    <2>2. LoaderInv'
      BY <1>0, <2>1, LoaderOthersInv
    <2>3. WorkerInv'
      <3>1. commands' \in Seq(RenderCommand)
        BY <1>0, <2>1
      <3> QED
        BY <1>0, <2>1, <3>1, WorkerOthersInv
    <2>4. PendingInv'
      BY <1>0, <2>1
      DEF PendingInv, WorkerRuns, LoaderRuns, RequestedIds, AnsweredIds,
          loaderVars, workerVars, pendingVars
    <2>5. AnswersInv'
      BY <1>0, <2>1
      DEF AnswersInv, AnsweredTilesAreCached, IsLastAnswer, loaderVars
    <2> QED
      BY <2>2, <2>3, <2>4, <2>5 DEF Inv
  <1> QED
    BY <1>1, <1>2, <1>3, <1>4 DEF Next, Dropped

(* So it holds in every reachable state.                                   *)
LEMMA SpecInv == Spec => []Inv
  BY InitInv, NextInv, PTL DEF Spec

(* Type correctness: whatever the UI sends and whatever goes wrong, the    *)
(* loader's queues hold requests, bytes and results of tiles of the map,   *)
(* and never more decodes run than there are decode threads.               *)
THEOREM LoaderTyped == Spec => [](LoaderTypeOK /\ DecodersCounted)
  <1>1. Inv => LoaderTypeOK /\ DecodersCounted
    BY DEF Inv, LoaderInv
  <1> QED
    BY <1>1, SpecInv, PTL

(* What the worker promises among any surroundings it keeps in the whole   *)
(* renderer, and the commands it takes are typed.                          *)
THEOREM WorkerKeepsPromises ==
  Spec => [](/\ WorkerTypeOK /\ PendingConsistent /\ RequestsWithinBudget
             /\ CachesWellFormed /\ MemoryBounded /\ NothingForgotten
             /\ ScreenIsCurrent)
  <1>1. Inv => /\ WorkerTypeOK /\ PendingConsistent /\ RequestsWithinBudget
               /\ CachesWellFormed /\ MemoryBounded /\ NothingForgotten
               /\ ScreenIsCurrent
    BY WorkerInvImplies DEF Inv
  <1> QED
    BY <1>1, SpecInv, PTL

(* tile_loader_loop's set in_flight is exact: a tile is in it exactly while*)
(* a stage of the loader holds it, or when the task that held it panicked. *)
THEOREM InFlightIsExact == Spec => []InFlightExact
  <1>1. Inv => InFlightExact
    BY DEF Inv, LoaderInv
  <1> QED
    BY <1>1, SpecInv, PTL

(* No tile is fetched or decoded twice at the same time, for any number of *)
(* concurrent fetches and decode threads.                                  *)
THEOREM TilesHaveOneStage == Spec => []OneStagePerTile
  <1>1. Inv => OneStagePerTile
    BY DEF Inv, LoaderInv
  <1> QED
    BY <1>1, SpecInv, PTL

(* A loader that joins its decoders has nothing left to answer.            *)
THEOREM LoaderLeavesNothing == Spec => []NothingLeftBehind
  <1>1. Inv => NothingLeftBehind
    BY DEF Inv, LoaderInv
  <1> QED
    BY <1>1, SpecInv, PTL

(* A tile the worker waits for is requested, in a stage of the loader, or  *)
(* answered, unless the loader discarded it or a task panicked with it.    *)
THEOREM PendingTilesAccounted == Spec => []PendingAccounted
  <1>1. Inv => PendingAccounted
    BY PendingInvAccounted DEF Inv, LoaderInv
  <1> QED
    BY <1>1, SpecInv, PTL

(* A tile whose last answer brought pixels has them in its cache file,     *)
(* whatever fails: network, files, decoders and tasks.                     *)
THEOREM AnswersAreCached == Spec => []AnsweredTilesAreCached
  <1>1. Inv => AnsweredTilesAreCached
    BY DEF Inv, AnswersInv
  <1> QED
    BY <1>1, SpecInv, PTL

(* While no file operation fails and the renderer has the directory for    *)
(* itself, tile_loader_loop's removal of files without a tile never hits a *)
(* good one, and no fetch overwrites one.                                  *)
THEOREM GoodTilesStayCached ==
  ASSUME "io" \notin Faults
  PROVE  Spec => GoodTileStaysCached
  <1>1. Inv /\ [Next]_vars =>
          [\A t \in Tiles : disk[t] = "good" => disk'[t] = "good"]_disk
    <2> SUFFICES ASSUME Inv, [Next]_vars, disk' # disk, NEW t \in Tiles,
                        disk[t] = "good"
                 PROVE  disk'[t] = "good"
      OBVIOUS
    <2>1. LoaderNext
      BY DEF Next, Loader, Worker, Owner, Drop, DropStopsWorker,
             DropStopsLoader, DropJoinsWorker, DropJoinsLoader, UiSends,
             Dropped, vars, loaderVars
    <2> QED
      BY <2>1, GoodFileKept DEF Inv, LoaderInv
  <1> QED
    BY <1>1, SpecInv, PTL DEF Spec, GoodTileStaysCached
===========================================================================
