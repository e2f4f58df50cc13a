--------------------- MODULE RendererWorkerClientProofs ---------------------
(***************************************************************************)
(* Proofs about the renderer worker among the most general surroundings:   *)
(* RendererWorkerClient's Spec, for every UI, loader, set of tiles, views, *)
(* limits and budgets. RendererWorkerProofs has the worker's own steps.    *)
(***************************************************************************)
EXTENDS RendererWorkerClient, RendererWorkerProofs

---------------------------------------------------------------------------
(* The client's channel to the loader holds nothing but requests.          *)
LoadMessages == [type : {"Load"}, request : TileLoadRequest]

ClientInv == WorkerInv /\ tileRequests \in Seq(LoadMessages)

LEMMA ClientRequests ==
  ASSUME ClientInv, WorkerThread
  PROVE  tileRequests' \in Seq(LoadMessages)
<1>1. tileRequests \in Seq(LoadMessages) /\ WorkerControlTypeOK
  BY DEF ClientInv, WorkerInv
<1>2. ASSUME NEW r \in outbox, NEW p \in PriorityLevels, SendRequest(r, p)
      PROVE  tileRequests' \in Seq(LoadMessages)
  <2> DEFINE m == [id |-> r.id, generation |-> generation, priority |-> p]
  <2>1. m \in TileLoadRequest
    BY <1>1 DEF WorkerControlTypeOK, Request, TileLoadRequest
  <2>2. Load(m) \in LoadMessages
    BY <2>1 DEF Load, LoadMessages
  <2>3. tileRequests' \in {tileRequests, Append(tileRequests, Load(m))}
    BY <1>2 DEF SendRequest, SendToLoader
  <2> HIDE DEF m
  <2> QED
    BY <1>1, <2>2, <2>3
<1>3. CASE tileRequests' = tileRequests
  BY <1>1, <1>3
<1> QED
  BY <1>2, <1>3
  DEF WorkerThread, WorkerStarts, WorkerFailsToStart, ReceiveCommand, Take,
      SurfaceCreated, SurfaceDestroyed, Resize, ResizeWith, SetCamera, AddTileLayer,
      RemoveLayer, SetLayerVisible, SetLayerOpacity, ReceiveTile,
      WorkerShutdown, RenderFrame, ContinueFrame, UploadTiles, EvictTile,
      DrawFrame, MotionExpires

(* The UI sends commands, the loader takes requests and answers them.      *)
LEMMA ClientStep ==
  ASSUME ClientInv, Client
  PROVE  /\ tileRequests' \in Seq(LoadMessages)
         /\ commands' \in Seq(RenderCommand)
         /\ UNCHANGED <<workerPc, workerVars>>
<1>1. /\ tileRequests \in Seq(LoadMessages) /\ commands \in Seq(RenderCommand)
  BY DEF ClientInv, WorkerInv, WorkerControlTypeOK
<1>2. ASSUME NEW m \in RenderCommand, SendToWorker(m)
      PROVE  commands' \in Seq(RenderCommand)
  <2>1. commands' \in {commands, Append(commands, m)}
    BY <1>2 DEF SendToWorker
  <2> QED
    BY <1>1, <1>2, <2>1
<1>3. ASSUME NEW i \in DOMAIN tileRequests, LoaderHandles(i)
      PROVE  tileRequests' \in Seq(LoadMessages)
  <2>1. /\ SubSeq(tileRequests, 1, i - 1) \in Seq(LoadMessages)
        /\ SubSeq(tileRequests, i + 1, Len(tileRequests)) \in Seq(LoadMessages)
    BY <1>1
  <2> QED
    BY <1>3, <2>1, ConcatProperties DEF LoaderHandles
<1>4. ASSUME NEW c \in UiCommands, UiSends(c)
      PROVE  /\ tileRequests' \in Seq(LoadMessages)
             /\ commands' \in Seq(RenderCommand)
             /\ UNCHANGED <<workerPc, workerVars>>
  <2>1. c \in RenderCommand
    BY ClientAssumption DEF RenderCommand
  <2> QED
    BY <1>1, <1>2, <1>4, <2>1 DEF UiSends
<1>5. ASSUME NEW i \in DOMAIN tileRequests, NEW ok \in BOOLEAN,
             LoaderAnswers(i, ok)
      PROVE  /\ tileRequests' \in Seq(LoadMessages)
             /\ commands' \in Seq(RenderCommand)
             /\ UNCHANGED <<workerPc, workerVars>>
  <2>1. tileRequests[i].request.id \in Tiles
    <3>1. tileRequests[i] \in LoadMessages
      BY <1>1
    <3> QED
      BY <3>1 DEF LoadMessages, TileLoadRequest
  <2>2. TileLoaded(tileRequests[i].request.id, ok) \in RenderCommand
    BY <2>1 DEF TileLoaded, TileLoadedCommand, RenderCommand
  <2>3. SendToWorker(TileLoaded(tileRequests[i].request.id, ok))
    BY <1>5 DEF LoaderAnswers
  <2> QED
    BY <1>2, <1>3, <1>5, <2>2, <2>3 DEF LoaderAnswers
<1>6. ASSUME NEW i \in DOMAIN tileRequests, LoaderDiscards(i)
      PROVE  /\ tileRequests' \in Seq(LoadMessages)
             /\ commands' \in Seq(RenderCommand)
             /\ UNCHANGED <<workerPc, workerVars>>
  BY <1>1, <1>3, <1>6 DEF LoaderDiscards
<1> QED
  BY <1>4, <1>5, <1>6 DEF Client

LEMMA ClientInitInv == ClientInit => ClientInv
<1> SUFFICES ASSUME ClientInit PROVE ClientInv
  OBVIOUS
<1>1. WorkerInv
  BY WorkerInitInv DEF ClientInit
<1>2. tileRequests \in Seq(LoadMessages)
  BY DEF ClientInit, ChannelsInit
<1> QED
  BY <1>1, <1>2 DEF ClientInv

LEMMA ClientNextInv == ClientInv /\ [Next]_vars => ClientInv'
<1> SUFFICES ASSUME ClientInv, [Next]_vars PROVE ClientInv'
  OBVIOUS
<1>1. CASE WorkerThread
  BY <1>1, ClientRequests, WorkerStepInv DEF ClientInv
<1>2. CASE Client
  BY <1>2, ClientStep, WorkerOthersInv DEF ClientInv
<1>3. CASE UNCHANGED vars
  <2>1. /\ UNCHANGED <<workerPc, workerVars>>
        /\ tileRequests' \in Seq(LoadMessages)
        /\ commands' \in Seq(RenderCommand)
    BY <1>3 DEF vars, ClientInv, WorkerInv, WorkerControlTypeOK
  <2> QED
    BY <2>1, WorkerOthersInv DEF ClientInv
<1> QED
  BY <1>1, <1>2, <1>3 DEF Next, AtRest

LEMMA ClientSpecInv == Spec => []ClientInv
  BY ClientInitInv, ClientNextInv, PTL DEF Spec

---------------------------------------------------------------------------
(* The theorems.                                                           *)

(* Type correctness: whatever commands the UI sends and however the loader *)
(* answers, the worker's records of tiles, its caches and its screen hold  *)
(* tiles of the map and views it accepted.                                 *)
THEOREM WorkerIsTyped == Spec => []WorkerTypeOK
<1>1. ClientInv => WorkerTypeOK
  BY WorkerInvImplies DEF ClientInv
<1> QED
  BY <1>1, ClientSpecInv, PTL

(* pending_tile_loads and pending_metadata name the same tiles, none of    *)
(* them in memory, over all the places that update one of the three.       *)
THEOREM PendingIsConsistent == Spec => []PendingConsistent
<1>1. ClientInv => PendingConsistent
  BY WorkerInvImplies DEF ClientInv
<1> QED
  BY <1>1, ClientSpecInv, PTL

(* A frame never asks for a pending tile, and what is pending stays within *)
(* the largest prefetch budget, whichever budgets the frames measure.      *)
THEOREM RequestsStayWithinBudget == Spec => []RequestsWithinBudget
<1>1. ClientInv => RequestsWithinBudget
  BY WorkerInvImplies DEF ClientInv
<1> QED
  BY <1>1, ClientSpecInv, PTL

(* The order of each SizedLruCache lists its entries, each once, and its   *)
(* running total is the sum of their sizes, after any uses and evictions.  *)
THEOREM CachesStayWellFormed == Spec => []CachesWellFormed
<1>1. ClientInv => CachesWellFormed
  BY WorkerInvImplies DEF ClientInv
<1> QED
  BY <1>1, ClientSpecInv, PTL

(* Between frames the decoded tiles exceed their limit by no more than the *)
(* largest tile for each request that was answered since the last frame,   *)
(* and the uploaded ones never exceed theirs.                              *)
THEOREM MemoryStaysBounded == Spec => []MemoryBounded
<1>1. ClientInv => MemoryBounded
  BY WorkerInvImplies DEF ClientInv
<1> QED
  BY <1>1, ClientSpecInv, PTL

(* A worker that waits for a command has provided for every visible tile,  *)
(* up to its budget and the limits of its caches.                          *)
THEOREM NothingIsForgotten == Spec => []NothingForgotten
<1>1. ClientInv => NothingForgotten
  BY WorkerInvImplies DEF ClientInv
<1> QED
  BY <1>1, ClientSpecInv, PTL

(* A worker that waits for a command shows the map as it is, whatever      *)
(* order surfaces, layers, cameras and tiles came in.                      *)
THEOREM ScreenStaysCurrent == Spec => []ScreenIsCurrent
<1>1. ClientInv => ScreenIsCurrent
  BY WorkerInvImplies DEF ClientInv
<1> QED
  BY <1>1, ClientSpecInv, PTL

(* enforce_cache_limits evicts a visible tile only from a cache that holds *)
(* nothing else.                                                           *)
THEOREM EvictionSpares == Spec => EvictionSparesVisible
<1>1. ClientInv /\ [Next]_vars =>
        [workerPc = "evicting" =>
           /\ SparesVisible(Lru!Keys(loaded), Lru!Keys(loaded'))
           /\ SparesVisible(Lru!Keys(uploaded), Lru!Keys(uploaded'))
          ]_<<workerPc, loaded, uploaded>>
  <2> SUFFICES ASSUME ClientInv, [Next]_vars, workerPc = "evicting",
                      ~ UNCHANGED <<workerPc, loaded, uploaded>>
               PROVE  /\ SparesVisible(Lru!Keys(loaded), Lru!Keys(loaded'))
                      /\ SparesVisible(Lru!Keys(uploaded), Lru!Keys(uploaded'))
    OBVIOUS
  <2>1. CASE WorkerThread
    BY <2>1, EvictingSpares DEF ClientInv
  <2>2. CASE Client
    BY <2>2, ClientStep DEF workerVars, cacheVars
  <2>3. CASE UNCHANGED vars
    BY <2>3 DEF vars, workerVars, cacheVars
  <2> QED
    BY <2>1, <2>2, <2>3 DEF Next, AtRest
<1> QED
  BY <1>1, ClientSpecInv, PTL DEF Spec, EvictionSparesVisible
=============================================================================
