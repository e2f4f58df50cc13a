-------------------------- MODULE RendererWorker --------------------------
(***************************************************************************)
(* The renderer worker thread (RendererWorker): it takes one command at a  *)
(* time from its channel and, when something has changed, renders a frame. *)
(* A frame applies the latest camera, plans which tiles to have, asks the  *)
(* tile loader for the ones that are missing, uploads decoded tiles to the *)
(* GPU and evicts what no longer fits the caches.                          *)
(*                                                                         *)
(* Geometry is abstracted to views: a view is a camera together with the   *)
(* screen it fills, and says which tiles it shows and which surround it.   *)
(* MapFrame has the geometry. Telemetry and logging are left out, and so   *)
(* is pending_tile_priorities, which is only ever written.                 *)
(***************************************************************************)
EXTENDS TileChannels

Lru == INSTANCE SizedLruCache

CONSTANTS
  Cameras,          \* cameras that MapCamera::validate accepts
  InvalidCamera,    \* a camera it refuses
  Screens,          \* sizes and densities that make a RenderViewport
  InvalidScreen,    \* a size with a density that does not
  InitialView,      \* MapCamera::default(); its screen means nothing yet
  VisibleTiles,     \* [Views -> Seq(Tiles)]: visible_tiles, row by row
  PrefetchTier,     \* [Views -> tiles around the visible ones -> tier]
  TierPriorities,   \* [Tiers -> SUBSET PriorityLevels]
  Zoom,             \* [Tiles -> Nat]
  TileBytes,        \* [Tiles -> Nat]: size of the decoded tile
  RamLimit, GpuLimit,
  MaxZoomDistance,  \* max_zoom_distance_to_keep
  MovingBudget,     \* prefetch_budget while the camera moves
  IdleBudgets,      \* prefetch_budget otherwise, by the measured times
  MovingUploads, IdleUploads,
  LayerIds, BaseLayer

(* TilePriority: P0Visible, P1LookAhead, P2Periphery.                      *)
Tiers == 0..2

(* What RenderState::visible_tiles goes by: its camera and its viewport.   *)
Views == [camera : Cameras, screen : Screens]

VisibleSet(v) == {VisibleTiles[v][i] : i \in DOMAIN VisibleTiles[v]}

ASSUME WorkerAssumption ==
  /\ InitialView \in Views
  /\ InvalidCamera \notin Cameras /\ InvalidScreen \notin Screens
  /\ VisibleTiles \in [Views -> Seq(Tiles)]
  /\ \A v \in Views :
       /\ VisibleTiles[v] # <<>>
       /\ DOMAIN PrefetchTier[v] \subseteq Tiles \ VisibleSet(v)
       /\ \A t \in DOMAIN PrefetchTier[v] : PrefetchTier[v][t] \in Tiers \ {0}
  /\ \A tier \in Tiers :
       TierPriorities[tier] \subseteq PriorityLevels /\ TierPriorities[tier] # {}
  /\ IsFiniteSet(Tiles) /\ IsFiniteSet(IdleBudgets)
  /\ Zoom \in [Tiles -> Nat]
  /\ TileBytes \in [Tiles -> Nat \ {0}]
  /\ RamLimit \in Nat /\ GpuLimit \in Nat /\ MaxZoomDistance \in Nat
  /\ MovingBudget \in Nat /\ IdleBudgets \subseteq Nat /\ IdleBudgets # {}
  /\ MovingUploads \in Nat \ {0} /\ IdleUploads \in Nat \ {0}
  /\ BaseLayer \in LayerIds

VARIABLES
  view,             \* the camera of RenderState and its viewport
  viewport,         \* whether it has a viewport yet
  layers,           \* the tile layers of RenderState, by id
  gpuReady,         \* gpu.is_some()
  pendingCamera,    \* pending_camera
  moving,           \* whether the camera changed less than 250 ms ago
  needsRender,      \* needs_render
  generation,       \* request_generation
  lastZoom,         \* last_visible_zoom
  pendingLoads,     \* pending_tile_loads
  pendingMetadata,  \* the keys of pending_metadata
  loaded,           \* loaded_tiles
  uploaded,         \* gpu.uploaded_tiles
  outbox,           \* the frame's requests that are still to be sent
  sized,            \* surface_width_px > 0: a surface has a configuration
  shown,            \* what the surface shows
  owed              \* whether it misses a frame that nothing makes due

screenVars == <<sized, shown, owed>>
mapVars == <<view, viewport, layers, gpuReady, screenVars>>
pendingVars == <<pendingLoads, pendingMetadata>>
cacheVars == <<loaded, uploaded, lastZoom>>
workerVars == <<mapVars, pendingCamera, moving, needsRender, generation,
                pendingVars, cacheVars, outbox>>

NoCamera == "no camera"
NoZoom == -1
Opacities == {"none", "some"}
Layer == [visible : BOOLEAN, opacity : Opacities]
Request == [id : Tiles, tier : Tiers]

(* RenderCommand, without TileLoaded. JNI sends a Resize only with a       *)
(* positive size; its density may still be refused.                        *)
UiCommand ==
  [type : {"SurfaceCreated", "SurfaceDestroyed", "Shutdown"}]
  \cup [type : {"Resize"}, screen : Screens \cup {InvalidScreen}]
  \cup [type : {"SetCamera"}, camera : Cameras \cup {InvalidCamera}]
  \cup [type : {"AddTileLayer", "SetLayerOpacity"}, layer : LayerIds,
        opacity : Opacities \cup {"invalid"}]
  \cup [type : {"RemoveLayer"}, layer : LayerIds]
  \cup [type : {"SetLayerVisible"}, layer : LayerIds, visible : BOOLEAN]

RenderCommand == UiCommand \cup TileLoadedCommand

WorkerControlTypeOK ==
  /\ commands \in Seq(RenderCommand)
  /\ workerPc \in WorkerPcs
  /\ view \in Views
  /\ viewport \in BOOLEAN
  /\ DOMAIN layers \subseteq LayerIds
  /\ \A l \in DOMAIN layers : layers[l] \in Layer
  /\ gpuReady \in BOOLEAN
  /\ pendingCamera \in Cameras \cup {InvalidCamera, NoCamera}
  /\ moving \in BOOLEAN
  /\ needsRender \in BOOLEAN
  /\ generation \in Nat
  /\ lastZoom \in Nat \cup {NoZoom}
  /\ pendingLoads \subseteq Tiles
  /\ pendingMetadata \subseteq Tiles
  /\ outbox \subseteq Request

CacheTypeOK ==
  \A cache \in {loaded, uploaded} :
    /\ Lru!Keys(cache) \subseteq Tiles
    /\ cache.order \in Seq(Tiles)
    /\ cache.bytes \in Nat

(* A picture: the view it shows and the tiles it is drawn from. Tiles that *)
(* are not uploaded may be drawn from others, further out.                 *)
Cleared == [blank |-> "cleared"]
Nothing == [blank |-> "new"]

ScreenTypeOK ==
  /\ sized \in BOOLEAN /\ owed \in BOOLEAN
  /\ shown \in {Nothing, Cleared} \cup [view : Views, drawn : SUBSET Tiles]

WorkerTypeOK == WorkerControlTypeOK /\ CacheTypeOK /\ ScreenTypeOK

(* with_source adds the base layer; everything else is RendererWorker::new.*)
WorkerInit ==
  /\ view = InitialView
  /\ viewport = FALSE
  /\ layers = [l \in {BaseLayer} |-> [visible |-> TRUE, opacity |-> "some"]]
  /\ gpuReady = FALSE
  /\ pendingCamera = NoCamera
  /\ moving = FALSE
  /\ needsRender = FALSE
  /\ generation = 0
  /\ lastZoom = NoZoom
  /\ pendingLoads = {}
  /\ pendingMetadata = {}
  /\ loaded = Lru!NewCache(RamLimit)
  /\ uploaded = Lru!NewCache(GpuLimit)
  /\ outbox = {}
  /\ sized = FALSE /\ shown = Nothing /\ owed = FALSE

WorkerStarts ==
  /\ workerPc = "starting"
  /\ workerPc' = "loop"
  /\ UNCHANGED <<tileRequests, commands, loaderPc, workerVars>>

WorkerFailsToStart ==
  /\ "start" \in Faults
  /\ workerPc = "starting"
  /\ workerPc' = "stopped"
  /\ commands' = <<>>
  /\ UNCHANGED <<tileRequests, loaderPc, workerVars>>

---------------------------------------------------------------------------
(* One command. Each handler says whether the map has to be drawn again.   *)

Take(type) ==
  /\ workerPc = "loop"
  /\ commands # <<>>
  /\ Head(commands).type = type
  /\ commands' = Tail(commands)
  /\ UNCHANGED <<tileRequests, loaderPc>>

(* The new surface starts with nothing uploaded; it may fail to come up.   *)
SurfaceCreated ==
  /\ Take("SurfaceCreated")
  /\ gpuReady' \in BOOLEAN
  /\ uploaded' = Lru!NewCache(GpuLimit)
  /\ needsRender' = TRUE
  /\ shown' = Nothing /\ owed' = FALSE
  /\ UNCHANGED <<workerPc, view, viewport, layers, pendingCamera, moving,
                 generation, lastZoom, pendingVars, loaded, outbox, sized>>

SurfaceDestroyed ==
  /\ Take("SurfaceDestroyed")
  /\ gpuReady' = FALSE
  /\ uploaded' = Lru!NewCache(GpuLimit)
  /\ shown' = Nothing /\ owed' = FALSE
  /\ UNCHANGED <<workerPc, view, viewport, layers, pendingCamera, moving,
                 needsRender, generation, lastZoom, pendingVars, loaded,
                 outbox, sized>>

(* The surface is configured first; a refused density then leaves it       *)
(* without a frame. A new viewport shows other tiles of the same camera.   *)
(* Mutant: it makes no frame due.                                          *)
ResizeWith(due) ==
  /\ Take("Resize")
  /\ sized' = TRUE
  /\ IF Head(commands).screen \in Screens
     THEN /\ view' = [view EXCEPT !.screen = Head(commands).screen]
          /\ viewport' = TRUE
          /\ needsRender' = due
          /\ UNCHANGED owed
     ELSE owed' = gpuReady /\ UNCHANGED <<view, viewport, needsRender>>
  /\ UNCHANGED <<workerPc, layers, gpuReady, shown, pendingCamera, moving,
                 generation, pendingVars, cacheVars, outbox>>

ResizeQuietly == ResizeWith(needsRender)

Resize == ResizeWith(TRUE)

(* The latest camera wins, also over one that would have been valid.       *)
SetCamera ==
  /\ Take("SetCamera")
  /\ pendingCamera' = Head(commands).camera
  /\ needsRender' = TRUE
  /\ UNCHANGED <<workerPc, mapVars, moving, generation, pendingVars,
                 cacheVars, outbox>>

LayersUnchanged ==
  UNCHANGED <<workerPc, view, viewport, gpuReady, pendingCamera, moving,
              generation, pendingVars, cacheVars, outbox, screenVars>>

AddTileLayer ==
  /\ Take("AddTileLayer")
  /\ LET c == Head(commands)
         added == [visible |-> TRUE, opacity |-> c.opacity] IN
     IF c.opacity \in Opacities
     THEN /\ layers' = [l \in DOMAIN layers \cup {c.layer} |->
                          IF l = c.layer THEN added ELSE layers[l]]
          /\ needsRender' = TRUE
     ELSE UNCHANGED <<layers, needsRender>>
  /\ LayersUnchanged

(* Mutant of RemoveLayer: the map is not drawn again.                      *)
RemoveLayerQuietly ==
  /\ Take("RemoveLayer")
  /\ layers' = [l \in DOMAIN layers \ {Head(commands).layer} |-> layers[l]]
  /\ UNCHANGED needsRender
  /\ LayersUnchanged

RemoveLayer ==
  /\ Take("RemoveLayer")
  /\ layers' = [l \in DOMAIN layers \ {Head(commands).layer} |-> layers[l]]
  /\ needsRender' = TRUE
  /\ LayersUnchanged

SetLayerVisible ==
  /\ Take("SetLayerVisible")
  /\ LET c == Head(commands) IN
     IF c.layer \in DOMAIN layers
     THEN /\ layers' = [layers EXCEPT ![c.layer].visible = c.visible]
          /\ needsRender' = TRUE
     ELSE UNCHANGED <<layers, needsRender>>
  /\ LayersUnchanged

SetLayerOpacity ==
  /\ Take("SetLayerOpacity")
  /\ LET c == Head(commands) IN
     IF c.opacity \in Opacities /\ c.layer \in DOMAIN layers
     THEN /\ layers' = [layers EXCEPT ![c.layer].opacity = c.opacity]
          /\ needsRender' = TRUE
     ELSE UNCHANGED <<layers, needsRender>>
  /\ LayersUnchanged

(* Mutants of ReceiveTile: the metadata is kept; no frame becomes due.     *)
ReceiveTileWith(metadata, due) ==
  /\ Take("TileLoaded")
  /\ LET c == Head(commands) IN
       /\ pendingLoads' = pendingLoads \ {c.id}
       /\ loaded' = IF c.id \in pendingMetadata /\ c.ok
                    THEN Lru!Insert(loaded, c.id, TileBytes[c.id]) ELSE loaded
  /\ pendingMetadata' = metadata
  /\ needsRender' = due
  /\ UNCHANGED <<workerPc, mapVars, pendingCamera, moving, generation,
                 lastZoom, uploaded, outbox>>
ReceiveTileKeepsMetadata == ReceiveTileWith(pendingMetadata, TRUE)
ReceiveTileQuietly ==
  ReceiveTileWith(pendingMetadata \ {Head(commands).id}, needsRender)

(* An answer for a tile that is no longer wanted is thrown away.           *)
ReceiveTile ==
  /\ Take("TileLoaded")
  /\ LET c == Head(commands) IN
       /\ pendingLoads' = pendingLoads \ {c.id}
       /\ IF c.id \in pendingMetadata
          THEN /\ pendingMetadata' = pendingMetadata \ {c.id}
               /\ loaded' = IF c.ok
                            THEN Lru!Insert(loaded, c.id, TileBytes[c.id])
                            ELSE loaded
               /\ needsRender' = TRUE
          ELSE UNCHANGED <<pendingMetadata, loaded, needsRender>>
  /\ UNCHANGED <<workerPc, mapVars, pendingCamera, moving, generation,
                 lastZoom, uploaded, outbox>>

WorkerShutdown ==
  /\ workerPc = "loop"
  /\ commands # <<>>
  /\ Head(commands).type = "Shutdown"
  /\ workerPc' = "stopped"
  /\ commands' = <<>>
  /\ UNCHANGED <<tileRequests, loaderPc, workerVars>>

---------------------------------------------------------------------------
(* One frame.                                                              *)

HasVisibleTileLayer ==
  \E l \in DOMAIN layers : layers[l].visible /\ layers[l].opacity = "some"

(* build_tile_request_plan: prefetching stops while the camera moves.      *)
PlannedTiles(v, isMoving) ==
  VisibleSet(v) \cup (IF isMoving THEN {} ELSE DOMAIN PrefetchTier[v])

TierOf(v, t) == IF t \in VisibleSet(v) THEN 0 ELSE PrefetchTier[v][t]

(* prefetch_budget. The motion may end between the plan and its budget.    *)
Budgets(isMoving) ==
  IF isMoving THEN {MovingBudget} \cup IdleBudgets ELSE IdleBudgets

(* The requests of a frame: as many of the wanted tiles as there are free  *)
(* slots, lower tiers first; a tier is taken in the order of a HashMap.    *)
Selections(v, wanted, slots) ==
  {chosen \in SUBSET wanted :
     /\ Cardinality(chosen) <= slots
     /\ Cardinality(chosen) = slots \/ chosen = wanted
     /\ \A a \in chosen, b \in wanted \ chosen : TierOf(v, a) <= TierOf(v, b)}

ViewZoom(v) == Zoom[VisibleTiles[v][1]]

FarAway(cache, zoom) ==
  {t \in Lru!Keys(cache) : \/ Zoom[t] > zoom + MaxZoomDistance
                           \/ zoom > Zoom[t] + MaxZoomDistance}

(* evict_far_zoom_layers, on one of the caches.                            *)
EvictFarZoom(cache, zoom) ==
  IF lastZoom \in {NoZoom, zoom} THEN cache
  ELSE Lru!RemoveAll(cache, FarAway(cache, zoom))

(* Mutant of ApplyPendingCamera: the camera is not validated.              *)
ApplyAnyCamera ==
  IF pendingCamera # NoCamera
  THEN /\ view' = [view EXCEPT !.camera = pendingCamera]
       /\ generation' = generation + 1
       /\ moving' = TRUE
  ELSE UNCHANGED <<view, generation, moving>>

ApplyPendingCamera ==
  IF pendingCamera \in Cameras
  THEN /\ view' = [view EXCEPT !.camera = pendingCamera]
       /\ generation' = generation + 1
       /\ moving' = TRUE
  ELSE UNCHANGED <<view, generation, moving>>

(* Nothing is planned, requested or evicted without a viewport or a layer. *)
SkipPlanning ==
  /\ workerPc' = "drawing"
  /\ UNCHANGED <<pendingVars, cacheVars, outbox>>

(* Mutant of Missing: what is pending is asked for again.                  *)
NotInMemory(planned, kept) == planned \ Lru!Keys(loaded')

(* What is neither in memory nor pending still.                            *)
Missing(planned, kept) == planned \ (Lru!Keys(loaded') \cup kept)

(* evict_far_zoom_layers and the first half of ensure_visible_tiles, as    *)
(* far as the requests to send. What is pending but not planned any more   *)
(* is forgotten; what is still pending is not asked for again.             *)
PlanRequests ==
  LET planned == PlannedTiles(view', moving')
      zoom == ViewZoom(view')
      kept == pendingLoads \cap planned
  IN
  /\ lastZoom' = zoom
  /\ loaded' = EvictFarZoom(loaded, zoom)
  /\ uploaded' = EvictFarZoom(uploaded, zoom)
  /\ pendingLoads' = kept
  /\ pendingMetadata' = pendingMetadata \cap planned
  /\ \E budget \in Budgets(moving') :
     LET slots == Lru!SaturatingSub(budget, Cardinality(kept))
         wanted == Missing(planned, kept)
     IN \E chosen \in Selections(view', wanted, slots) :
          outbox' = {[id |-> t, tier |-> TierOf(view', t)] : t \in chosen}
  /\ workerPc' = "sending"

(* render_if_due, once the frame interval has passed.                      *)
RenderFrame ==
  /\ workerPc = "loop"
  /\ needsRender
  /\ needsRender' = FALSE
  /\ pendingCamera' = NoCamera
  /\ ApplyPendingCamera
  /\ IF HasVisibleTileLayer /\ viewport THEN PlanRequests ELSE SkipPlanning
  /\ UNCHANGED <<tileRequests, commands, loaderPc, viewport, layers, gpuReady,
                 screenVars>>

(* The tile counts as pending even if the loader is gone.                  *)
SendRequest(r, p) ==
  /\ workerPc = "sending"
  /\ r \in outbox
  /\ \A s \in outbox : r.tier <= s.tier
  /\ p \in TierPriorities[r.tier]
  /\ outbox' = outbox \ {r}
  /\ pendingLoads' = pendingLoads \cup {r.id}
  /\ pendingMetadata' = pendingMetadata \cup {r.id}
  /\ SendToLoader(Load(
       [id |-> r.id, generation |-> generation, priority |-> p]))
  /\ UNCHANGED <<commands, loaderPc, workerPc, mapVars, pendingCamera, moving,
                 needsRender, generation, cacheVars>>

(* Mutant of OverLimit: the memory cache is not looked at.                 *)
GpuOverLimit(ram, gpu) == Lru!OverLimit(gpu)

OverLimit(ram, gpu) == Lru!OverLimit(ram) \/ Lru!OverLimit(gpu)

NeedsUpload(t) ==
  gpuReady /\ Lru!ContainsKey(loaded, t) /\ ~Lru!ContainsKey(uploaded, t)

(* The second half of ensure_visible_tiles: some of the visible tiles that *)
(* are decoded go to the GPU; the rest make the next frame due. A tile that*)
(* a wide screen shows more than once counts where it comes first: at its  *)
(* other places it is uploaded already, or left for later a second time.   *)
UploadTiles ==
  /\ workerPc = "sending"
  /\ outbox = {}
  /\ LET tiles == VisibleTiles[view]
         waiting == {i \in DOMAIN tiles : NeedsUpload(tiles[i])
                                           /\ Lru!IsFirst(tiles, i, tiles[i])}
         budget == IF moving THEN MovingUploads ELSE IdleUploads
         now == {i \in waiting : Cardinality({j \in waiting : j < i}) < budget}
     IN
     /\ loaded' = Lru!GetAll(loaded, tiles, now)
     /\ uploaded' = Lru!InsertAll(uploaded, TileBytes, tiles, now)
     /\ needsRender' = (now # waiting)
  /\ workerPc' = IF OverLimit(loaded', uploaded') THEN "evicting" ELSE "drawing"
  /\ UNCHANGED <<tileRequests, commands, loaderPc, mapVars, pendingCamera,
                 moving, generation, pendingVars, lastZoom, outbox>>

(* One round of the loops of enforce_cache_limits: memory, then GPU.       *)
EvictTile ==
  /\ workerPc = "evicting"
  /\ IF Lru!OverLimit(loaded)
     THEN /\ loaded' = Lru!EvictOne(loaded, VisibleSet(view))
          /\ UNCHANGED uploaded
     ELSE /\ uploaded' = Lru!EvictOne(uploaded, VisibleSet(view))
          /\ UNCHANGED loaded
  /\ workerPc' = IF OverLimit(loaded', uploaded') THEN "evicting" ELSE "drawing"
  /\ UNCHANGED <<tileRequests, commands, loaderPc, mapVars, pendingCamera,
                 moving, needsRender, generation, pendingVars, lastZoom,
                 outbox>>

(* The last part of a frame: GpuSurface::render draws the visible tiles    *)
(* that are uploaded, or clears the surface. It is given up when there is  *)
(* no texture to draw to: nothing makes another frame due then.            *)
Picture ==
  IF HasVisibleTileLayer /\ viewport
  THEN [view |-> view, drawn |-> VisibleSet(view) \cap Lru!Keys(uploaded)]
  ELSE Cleared

DrawFrame ==
  /\ workerPc = "drawing"
  /\ workerPc' = "loop"
  /\ IF gpuReady /\ sized
     THEN \/ shown' = Picture /\ owed' = FALSE
          \/ owed' = TRUE /\ UNCHANGED shown
     ELSE UNCHANGED <<shown, owed>>
  /\ UNCHANGED <<tileRequests, commands, loaderPc, view, viewport, layers,
                 gpuReady, sized, pendingCamera, moving, needsRender,
                 generation, pendingVars, cacheVars, outbox>>

(* 250 ms without a camera update. Nothing wakes the worker up for it.     *)
MotionExpires ==
  /\ moving
  /\ workerPc # "stopped"
  /\ moving' = FALSE
  /\ UNCHANGED <<tileRequests, commands, loaderPc, workerPc, mapVars,
                 pendingCamera, needsRender, generation, pendingVars,
                 cacheVars, outbox>>

ReceiveCommand ==
  \/ SurfaceCreated \/ SurfaceDestroyed \/ Resize \/ SetCamera
  \/ AddTileLayer \/ RemoveLayer \/ SetLayerVisible \/ SetLayerOpacity
  \/ ReceiveTile \/ WorkerShutdown

ContinueFrame ==
  \/ \E r \in outbox, p \in PriorityLevels : SendRequest(r, p)
  \/ UploadTiles
  \/ EvictTile
  \/ DrawFrame

WorkerThread ==
  \/ WorkerStarts \/ WorkerFailsToStart
  \/ ReceiveCommand \/ RenderFrame \/ ContinueFrame
  \/ MotionExpires

---------------------------------------------------------------------------
(* What the worker promises.                                               *)

(* The two records of what is pending always name the same tiles, and a    *)
(* tile that is in memory is not pending: it is not fetched again.         *)
PendingConsistent ==
  /\ pendingLoads = pendingMetadata
  /\ pendingLoads \cap Lru!Keys(loaded) = {}

(* A frame never asks for a tile twice, nor for more than the budgets.     *)
LargestBudget ==
  CHOOSE b \in IdleBudgets \cup {MovingBudget} :
    \A c \in IdleBudgets \cup {MovingBudget} : c <= b

RequestsWithinBudget ==
  /\ outbox # {} => \A r \in outbox : r.id \notin pendingLoads
  /\ Cardinality(pendingLoads \cup {r.id : r \in outbox}) <= LargestBudget

CachesWellFormed == Lru!WellFormed(loaded) /\ Lru!WellFormed(uploaded)

(* The decoded tiles are within their limit whenever the worker rests with *)
(* a map to draw: whatever makes them exceed it makes a frame due, too.    *)
(* While a frame is due, or while no frame plans tiles and so none evicts  *)
(* any, what exceeds the limit was pending when the last frame ended.      *)
LargestTile ==
  CHOOSE n \in {TileBytes[t] : t \in Tiles} :
    \A t \in Tiles : TileBytes[t] <= n

MemoryBounded ==
  workerPc = "loop" =>
    /\ ~needsRender /\ viewport /\ HasVisibleTileLayer =>
         loaded.bytes <= RamLimit
    /\ loaded.bytes <=
         RamLimit + LargestTile * (LargestBudget - Cardinality(pendingLoads))
    /\ uploaded.bytes <= GpuLimit

(* Nothing is forgotten between frames. While the worker waits for a       *)
(* command with no frame due, every visible tile is in memory or pending,  *)
(* and on the GPU once it is in memory. The exceptions are a full budget   *)
(* of pending requests and limits below what the view alone takes.         *)
SmallestBudget ==
  CHOOSE b \in IdleBudgets \cup {MovingBudget} :
    \A c \in IdleBudgets \cup {MovingBudget} : b <= c

ViewBytes == Lru!SizeOf(TileBytes, VisibleSet(view))

NothingForgotten ==
  workerPc = "loop" /\ ~needsRender /\ viewport /\ HasVisibleTileLayer =>
    \A t \in VisibleSet(view) :
      /\ \/ Lru!ContainsKey(loaded, t) \/ t \in pendingLoads
         \/ Cardinality(pendingLoads) >= SmallestBudget
         \/ ViewBytes > RamLimit
      /\ NeedsUpload(t) => ViewBytes > GpuLimit

(* While the worker waits with no frame due, its surface shows the map as  *)
(* it is: the view, from every tile that is uploaded, or no tile without a *)
(* visible layer. Only two frames may be missing, that were given up or    *)
(* that a refused density left out.                                        *)
ScreenIsCurrent ==
  workerPc = "loop" /\ ~needsRender /\ gpuReady /\ sized /\ ~owed =>
    shown = Picture

(* Making room never costs a tile on screen while one off screen is left.  *)
SparesVisible(before, after) ==
  (before \ after) \cap VisibleSet(view) # {} => before \subseteq VisibleSet(view)

EvictionSparesVisible ==
  [][workerPc = "evicting" =>
       /\ SparesVisible(Lru!Keys(loaded), Lru!Keys(loaded'))
       /\ SparesVisible(Lru!Keys(uploaded), Lru!Keys(uploaded'))
    ]_<<workerPc, loaded, uploaded>>
===========================================================================
