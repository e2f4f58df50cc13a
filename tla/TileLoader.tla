---------------------------- MODULE TileLoader ----------------------------
(***************************************************************************)
(* The tile loader thread of the Android renderer (tile_loader_loop), the  *)
(* fetch tasks it spawns on its tokio runtime, and its decode threads.     *)
(*                                                                         *)
(* A request goes through                                                  *)
(*                                                                         *)
(*   tileRequests -> queued -> fetches -> decodeQueue -> decoding          *)
(*                -> decoded -> a TileLoaded command for the worker        *)
(*                                                                         *)
(* and the loader's set in_flight is meant to hold its tile all the way,   *)
(* so that a second request for the tile is dropped on arrival.            *)
(*                                                                         *)
(* One round of the loop is: spawn fetches for the most urgent requests,   *)
(* receive until the channel has been empty for 2 ms, join at most one     *)
(* finished fetch, drain the decoded tiles, and stop if asked to and idle. *)
(* Every thread and task is an actor of its own: a fetch may finish, and a *)
(* decode thread may take or give back a tile, between any two steps.      *)
(***************************************************************************)
EXTENDS TileChannels, FiniteSetsExt

CONSTANTS
  MaxConcurrentFetches,  \* MAX_CONCURRENT_FETCHES
  DecodeQueueBound,      \* DECODE_QUEUE_BOUND
  DecodeWorkers,         \* decode_workers: 1 or 2, from the cpu count
  InitialFiles           \* what earlier runs of the app left in tile files

ASSUME LoaderAssumption ==
  /\ MaxConcurrentFetches \in Nat \ {0}
  /\ DecodeQueueBound \in Nat \ {0}
  /\ DecodeWorkers \in Nat \ {0}
  /\ InitialFiles \subseteq {"none", "good", "bad"}

VARIABLES
  queued,        \* the BinaryHeap of requests waiting for a fetch slot
  inFlight,      \* in_flight: ids the loader believes it is working on
  fetches,       \* in_flight_fetches: the JoinSet of fetch tasks
  decodeQueue,   \* the bounded channel from the loader to the decoders
  decoding,      \* what the decode threads hold
  liveDecoders,  \* decode threads that have neither exited nor panicked
  decoded,       \* the unbounded channel back from the decoders
  shuttingDown,  \* shutting_down
  disk           \* what the tile's file in the FileTileCache holds

(* History variables: they take no part in any guard.                      *)
VARIABLES
  superseded,    \* ids whose last request was discarded as out of date
  orphaned       \* ids whose fetch task or decoder panicked

loaderVars == <<queued, inFlight, fetches, decodeQueue, decoding,
                liveDecoders, decoded, shuttingDown, disk, superseded,
                orphaned>>

(* A fetch task: where CachedTileSource::load_tile is and what it holds.   *)
Fetch ==
  [id : Tiles, step : {"get", "download", "panicked"}, bytes : {"none"}]
  \cup [id : Tiles, step : {"put"}, bytes : {"good", "bad"}]
  \cup [id : Tiles, step : {"done"}, bytes : {"good", "bad", "error"}]
(* FetchedTile and DecodedTileResult.                                      *)
Fetched == [id : Tiles, bytes : {"good", "bad", "error"}]
Decoded == [id : Tiles, ok : BOOLEAN]

Ids(things) == {thing.id : thing \in things}
SeqIds(s) == {s[i].id : i \in DOMAIN s}

LoaderTypeOK ==
  /\ tileRequests \in Seq(TileLoaderRequest)
  /\ loaderPc \in LoaderPcs
  /\ queued \subseteq TileLoadRequest
  /\ inFlight \subseteq Tiles
  /\ fetches \subseteq Fetch
  /\ decodeQueue \in Seq(Fetched)
  /\ decoding \subseteq Fetched
  /\ liveDecoders \in 0..DecodeWorkers
  /\ decoded \in Seq(Decoded)
  /\ shuttingDown \in BOOLEAN
  /\ disk \in [Tiles -> {"none", "good", "bad"}]
  /\ superseded \subseteq Tiles
  /\ orphaned \subseteq Tiles

LoaderInit ==
  /\ queued = {}
  /\ inFlight = {}
  /\ fetches = {}
  /\ decodeQueue = <<>>
  /\ decoding = {}
  /\ liveDecoders = DecodeWorkers
  /\ decoded = <<>>
  /\ shuttingDown = FALSE
  /\ disk \in [Tiles -> InitialFiles]
  /\ superseded = {}
  /\ orphaned = {}

---------------------------------------------------------------------------
(* Starting: without a tokio runtime the thread returns at once and its    *)
(* receiver goes with it.                                                  *)

LoaderStarts ==
  /\ loaderPc = "starting"
  /\ loaderPc' = "spawn"
  /\ UNCHANGED <<tileRequests, commands, loaderVars>>

LoaderFailsToStart ==
  /\ "start" \in Faults
  /\ loaderPc = "starting"
  /\ loaderPc' = "stopped"
  /\ tileRequests' = <<>>
  /\ liveDecoders' = 0
  /\ UNCHANGED <<commands, queued, inFlight, fetches, decodeQueue, decoding,
                 decoded, shuttingDown, disk, superseded, orphaned>>

---------------------------------------------------------------------------
(* Spawning.                                                               *)

(* BinaryHeap::pop under the Ord of PrioritizedTileRequest: the greatest   *)
(* priority, then the greatest generation; any one among equals.           *)
MostUrgent(q) ==
  {r \in q : \A s \in q :
     \/ s.priority < r.priority
     \/ s.priority = r.priority /\ s.generation <= r.generation}

(* newest_generation over what the heap holds after the pop.               *)
NewestGeneration(q, fallback) ==
  Max({r.generation : r \in q} \cup {fallback})

OutOfDate(r) == r.generation # NewestGeneration(queued \ {r}, r.generation)

HasFetchSlot == Cardinality(fetches) < MaxConcurrentFetches

(* A request older than some request still queued is discarded: its id     *)
(* leaves in_flight and nobody is told.                                    *)
DiscardOutOfDate(r) ==
  /\ loaderPc = "spawn"
  /\ HasFetchSlot
  /\ r \in MostUrgent(queued)
  /\ OutOfDate(r)
  /\ queued' = queued \ {r}
  /\ inFlight' = inFlight \ {r.id}
  /\ superseded' = superseded \cup {r.id}
  /\ UNCHANGED <<tileRequests, commands, loaderPc, fetches, decodeQueue,
                 decoding, liveDecoders, decoded, shuttingDown, disk,
                 orphaned>>

SpawnFetch(r) ==
  /\ loaderPc = "spawn"
  /\ HasFetchSlot
  /\ r \in MostUrgent(queued)
  /\ ~OutOfDate(r)
  /\ queued' = queued \ {r}
  /\ fetches' = fetches \cup {[id |-> r.id, step |-> "get", bytes |-> "none"]}
  /\ UNCHANGED <<tileRequests, commands, loaderPc, inFlight, decodeQueue,
                 decoding, liveDecoders, decoded, shuttingDown, disk,
                 superseded, orphaned>>

SpawnDone ==
  /\ loaderPc = "spawn"
  /\ ~HasFetchSlot \/ queued = {}
  /\ loaderPc' = "receive"
  /\ UNCHANGED <<tileRequests, commands, loaderVars>>

---------------------------------------------------------------------------
(* Receiving.                                                              *)

(* Mutant of ReceiveLoad: in_flight is not consulted.                      *)
ReceiveEveryLoad ==
  /\ loaderPc = "receive"
  /\ tileRequests # <<>>
  /\ Head(tileRequests).type = "Load"
  /\ tileRequests' = Tail(tileRequests)
  /\ LET r == Head(tileRequests).request IN
       /\ inFlight' = inFlight \cup {r.id}
       /\ queued' = queued \cup {r}
       /\ superseded' = superseded \ {r.id}
  /\ UNCHANGED <<commands, loaderPc, fetches, decodeQueue, decoding,
                 liveDecoders, decoded, shuttingDown, disk, orphaned>>

(* A request for an id that is in flight is dropped: the older request,    *)
(* with the generation and the priority it was made with, stands for it.   *)
ReceiveLoad ==
  /\ loaderPc = "receive"
  /\ tileRequests # <<>>
  /\ Head(tileRequests).type = "Load"
  /\ tileRequests' = Tail(tileRequests)
  /\ LET r == Head(tileRequests).request IN
       IF r.id \in inFlight
       THEN UNCHANGED <<queued, inFlight, superseded>>
       ELSE /\ inFlight' = inFlight \cup {r.id}
            /\ queued' = queued \cup {r}
            /\ superseded' = superseded \ {r.id}
  /\ UNCHANGED <<commands, loaderPc, fetches, decodeQueue, decoding,
                 liveDecoders, decoded, shuttingDown, disk, orphaned>>

(* Mutant of ReceiveShutdown: the flag is not set.                         *)
ReceiveShutdownUnheeded ==
  /\ loaderPc = "receive"
  /\ tileRequests # <<>>
  /\ Head(tileRequests).type = "Shutdown"
  /\ tileRequests' = Tail(tileRequests)
  /\ UNCHANGED <<commands, loaderPc, loaderVars>>

ReceiveShutdown ==
  /\ loaderPc = "receive"
  /\ tileRequests # <<>>
  /\ Head(tileRequests).type = "Shutdown"
  /\ tileRequests' = Tail(tileRequests)
  /\ shuttingDown' = TRUE
  /\ UNCHANGED <<commands, loaderPc, queued, inFlight, fetches, decodeQueue,
                 decoding, liveDecoders, decoded, disk, superseded, orphaned>>

(* recv_timeout gives up after 2 ms without a message.                     *)
ReceiveTimeout ==
  /\ loaderPc = "receive"
  /\ tileRequests = <<>>
  /\ loaderPc' = "join"
  /\ UNCHANGED <<tileRequests, commands, loaderVars>>

---------------------------------------------------------------------------
(* Joining at most one finished fetch. decode_tx.send blocks while the     *)
(* decode queue is full. (Its error branch is dead: the loader itself      *)
(* keeps the receiver alive.)                                              *)

JoinFetch(f) ==
  /\ loaderPc = "join"
  /\ f \in fetches
  /\ f.step = "done"
  /\ Len(decodeQueue) < DecodeQueueBound
  /\ loaderPc' = "drain"
  /\ fetches' = fetches \ {f}
  /\ decodeQueue' = Append(decodeQueue, [id |-> f.id, bytes |-> f.bytes])
  /\ UNCHANGED <<tileRequests, commands, queued, inFlight, decoding,
                 liveDecoders, decoded, shuttingDown, disk, superseded,
                 orphaned>>

(* A JoinError is only logged: the id stays in in_flight.                  *)
JoinPanicked(f) ==
  /\ loaderPc = "join"
  /\ f \in fetches
  /\ f.step = "panicked"
  /\ loaderPc' = "drain"
  /\ fetches' = fetches \ {f}
  /\ orphaned' = orphaned \cup {f.id}
  /\ UNCHANGED <<tileRequests, commands, queued, inFlight, decodeQueue,
                 decoding, liveDecoders, decoded, shuttingDown, disk,
                 superseded>>

(* Nothing finished within 2 ms, or nothing to wait for.                   *)
JoinNothing ==
  /\ loaderPc = "join"
  /\ \A f \in fetches : f.step \notin {"done", "panicked"}
  /\ loaderPc' = "drain"
  /\ UNCHANGED <<tileRequests, commands, loaderVars>>

---------------------------------------------------------------------------
(* Draining what the decoders gave back. A result without a tile removes   *)
(* the tile's cache file, whatever the reason, before the worker is told.  *)

(* Mutants of DrainDecoded: the id stays in in_flight; every result loses  *)
(* its cache file; a result without a tile is not reported.                *)
DrainWith(ids, files, answers) ==
  /\ loaderPc = "drain"
  /\ decoded # <<>>
  /\ inFlight' = ids
  /\ disk' = files
  /\ IF answers THEN SendToWorker(TileLoaded(Head(decoded).id, Head(decoded).ok))
                ELSE UNCHANGED commands
  /\ decoded' = Tail(decoded)
  /\ UNCHANGED <<tileRequests, loaderPc, queued, fetches, decodeQueue,
                 decoding, liveDecoders, shuttingDown, superseded, orphaned>>
DrainKeepsId == DrainWith(inFlight, disk, TRUE)
DrainRemovesFile ==
  DrainWith(inFlight \ {Head(decoded).id},
            [disk EXCEPT ![Head(decoded).id] = "none"], TRUE)
DrainHidesErrors ==
  DrainWith(inFlight \ {Head(decoded).id}, disk, Head(decoded).ok)

DrainDecoded ==
  /\ loaderPc = "drain"
  /\ decoded # <<>>
  /\ LET result == Head(decoded) IN
       /\ inFlight' = inFlight \ {result.id}
       /\ \/ disk' = IF result.ok THEN disk
                     ELSE [disk EXCEPT ![result.id] = "none"]
          \/ ~result.ok /\ "io" \in Faults /\ UNCHANGED disk
       /\ SendToWorker(TileLoaded(result.id, result.ok))
  /\ decoded' = Tail(decoded)
  /\ UNCHANGED <<tileRequests, loaderPc, queued, fetches, decodeQueue,
                 decoding, liveDecoders, shuttingDown, superseded, orphaned>>

(* Mutant of Idle: what is being decoded is forgotten.                     *)
NothingToFetch == queued = {} /\ fetches = {}

Idle == queued = {} /\ fetches = {} /\ inFlight = {}

NextRound ==
  /\ loaderPc = "drain"
  /\ decoded = <<>>
  /\ ~(shuttingDown /\ Idle)
  /\ loaderPc' = "spawn"
  /\ UNCHANGED <<tileRequests, commands, loaderVars>>

(* Leaving the loop: decode_tx is dropped and the decoders are joined.     *)
LeaveLoop ==
  /\ loaderPc = "drain"
  /\ decoded = <<>>
  /\ shuttingDown
  /\ Idle
  /\ loaderPc' = "joining"
  /\ UNCHANGED <<tileRequests, commands, loaderVars>>

LoaderReturns ==
  /\ loaderPc = "joining"
  /\ liveDecoders = 0
  /\ loaderPc' = "stopped"
  /\ tileRequests' = <<>>
  /\ UNCHANGED <<commands, loaderVars>>

---------------------------------------------------------------------------
(* The fetch tasks: CachedTileSource::load_tile, one file or network       *)
(* operation per step.                                                     *)

FetchStep(f, step, bytes) ==
  fetches' = (fetches \ {f}) \cup {[f EXCEPT !.step = step, !.bytes = bytes]}

FetchUnchanged ==
  UNCHANGED <<tileRequests, commands, loaderPc, queued, inFlight,
              decodeQueue, decoding, liveDecoders, decoded, shuttingDown,
              superseded, orphaned>>

(* Mutant of FetchFromCache: a missing file counts as a hit.               *)
FetchFromCacheUnchecked(f) ==
  /\ f \in fetches
  /\ f.step = "get"
  /\ FetchStep(f, "done", disk[f.id])
  /\ UNCHANGED disk
  /\ FetchUnchanged

(* FileTileCache::get: a file that is there is the answer, good or bad.    *)
FetchFromCache(f) ==
  /\ f \in fetches
  /\ f.step = "get"
  /\ \/ disk[f.id] = "none" /\ FetchStep(f, "download", "none")
     \/ disk[f.id] # "none" /\ FetchStep(f, "done", disk[f.id])
     \/ "io" \in Faults /\ FetchStep(f, "done", "error")
  /\ UNCHANGED disk
  /\ FetchUnchanged

FetchFromNetwork(f) ==
  /\ f \in fetches
  /\ f.step = "download"
  /\ \/ FetchStep(f, "put", "good")
     \/ "undecodable" \in Faults /\ FetchStep(f, "put", "bad")
     \/ "network" \in Faults /\ FetchStep(f, "done", "error")
  /\ UNCHANGED disk
  /\ FetchUnchanged

(* FileTileCache::put: the rename makes the file visible in one step. A    *)
(* put that fails loses the downloaded bytes.                              *)
FetchIntoCache(f) ==
  /\ f \in fetches
  /\ f.step = "put"
  /\ \/ FetchStep(f, "done", f.bytes)
        /\ disk' = [disk EXCEPT ![f.id] = f.bytes]
     \/ "io" \in Faults /\ FetchStep(f, "done", "error") /\ UNCHANGED disk
  /\ FetchUnchanged

FetchPanics(f) ==
  /\ "panic" \in Faults
  /\ f \in fetches
  /\ f.step \in {"get", "download", "put"}
  /\ FetchStep(f, "panicked", "none")
  /\ UNCHANGED disk
  /\ FetchUnchanged

FetchTask ==
  \E f \in fetches :
    FetchFromCache(f) \/ FetchFromNetwork(f) \/ FetchIntoCache(f)

---------------------------------------------------------------------------
(* The decode threads.                                                     *)

DecodeTake ==
  /\ decodeQueue # <<>>
  /\ Cardinality(decoding) < liveDecoders
  /\ decoding' = decoding \cup {Head(decodeQueue)}
  /\ decodeQueue' = Tail(decodeQueue)
  /\ UNCHANGED <<tileRequests, commands, loaderPc, queued, inFlight, fetches,
                 liveDecoders, decoded, shuttingDown, disk, superseded,
                 orphaned>>

(* A failed fetch passes through; bytes that are no image become an error. *)
DecodeFinish(d) ==
  /\ d \in decoding
  /\ decoding' = decoding \ {d}
  /\ decoded' = Append(decoded, [id |-> d.id, ok |-> d.bytes = "good"])
  /\ UNCHANGED <<tileRequests, commands, loaderPc, queued, inFlight, fetches,
                 decodeQueue, liveDecoders, shuttingDown, disk, superseded,
                 orphaned>>

DecodePanics(d) ==
  /\ "panic" \in Faults
  /\ d \in decoding
  /\ d.bytes # "error"
  /\ decoding' = decoding \ {d}
  /\ liveDecoders' = liveDecoders - 1
  /\ orphaned' = orphaned \cup {d.id}
  /\ UNCHANGED <<tileRequests, commands, loaderPc, queued, inFlight, fetches,
                 decodeQueue, decoded, shuttingDown, disk, superseded>>

(* recv fails once the sender is dropped and the queue is empty.           *)
DecoderExits ==
  /\ loaderPc = "joining"
  /\ decodeQueue = <<>>
  /\ Cardinality(decoding) < liveDecoders
  /\ liveDecoders' = liveDecoders - 1
  /\ UNCHANGED <<tileRequests, commands, loaderPc, queued, inFlight, fetches,
                 decodeQueue, decoding, decoded, shuttingDown, disk,
                 superseded, orphaned>>

---------------------------------------------------------------------------
LoaderThread ==
  \/ LoaderStarts \/ LoaderFailsToStart
  \/ \E r \in queued : DiscardOutOfDate(r) \/ SpawnFetch(r)
  \/ SpawnDone
  \/ ReceiveLoad \/ ReceiveShutdown \/ ReceiveTimeout
  \/ \E f \in fetches : JoinFetch(f) \/ JoinPanicked(f)
  \/ JoinNothing
  \/ DrainDecoded \/ NextRound \/ LeaveLoop \/ LoaderReturns

DecoderThreads ==
  DecodeTake \/ DecoderExits \/ \E d \in decoding : DecodeFinish(d)

LoaderPanics ==
  \/ \E f \in fetches : FetchPanics(f)
  \/ \E d \in decoding : DecodePanics(d)

LoaderNext ==
  /\ LoaderThread \/ FetchTask \/ DecoderThreads \/ LoaderPanics
  /\ UNCHANGED workerPc

---------------------------------------------------------------------------
(* What the loader promises.                                               *)

(* A tile counts as in flight exactly while one of the loader's stages     *)
(* holds it, or when the stage that held it panicked.                      *)
StageIds ==
  Ids(queued) \cup Ids(fetches) \cup SeqIds(decodeQueue) \cup Ids(decoding)
    \cup SeqIds(decoded)

InFlightExact == inFlight = StageIds \cup orphaned

(* No tile is worked on twice at the same time: not in two stages, and not *)
(* twice in one stage. This is what keeps two fetches from writing, or a   *)
(* fetch and a removal from racing for, the same cache file.               *)
DistinctIds(S) == \A a, b \in S : a.id = b.id => a = b
DistinctSeqIds(s) == \A i, j \in DOMAIN s : s[i].id = s[j].id => i = j

OneStagePerTile ==
  /\ DistinctIds(queued) /\ DistinctIds(fetches) /\ DistinctIds(decoding)
  /\ DistinctSeqIds(decodeQueue) /\ DistinctSeqIds(decoded)
  /\ Ids(queued) \cap (Ids(fetches) \cup SeqIds(decodeQueue)
       \cup Ids(decoding) \cup SeqIds(decoded) \cup orphaned) = {}
  /\ Ids(fetches) \cap (SeqIds(decodeQueue) \cup Ids(decoding)
       \cup SeqIds(decoded) \cup orphaned) = {}
  /\ SeqIds(decodeQueue) \cap
       (Ids(decoding) \cup SeqIds(decoded) \cup orphaned) = {}
  /\ Ids(decoding) \cap (SeqIds(decoded) \cup orphaned) = {}
  /\ SeqIds(decoded) \cap orphaned = {}

(* No more tiles are being decoded than there are threads to decode them.  *)
DecodersCounted ==
  /\ IsFiniteSet(decoding)
  /\ Cardinality(decoding) <= liveDecoders
  /\ loaderPc = "starting" => decoding = {} /\ decodeQueue = <<>>

(* A loader that has left its loop has answered or discarded everything it *)
(* accepted: its decoders have nothing left to give back.                  *)
NothingLeftBehind ==
  loaderPc = "joining" => StageIds = {} /\ inFlight = {}

(* The cache file of a tile that has good bytes is never lost again. It    *)
(* holds as long as no file operation fails and nobody else uses the cache.*)
GoodTileStaysCached ==
  [][\A t \in Tiles : disk[t] = "good" => disk'[t] = "good"]_disk
===========================================================================
