# Verification of osm-tile-core

TLA+ models, TLC runs and TLAPS proofs for osm-tile-core: the Kotlin view and
controller, the renderer's threads, the loader and the file cache that feed
them, the geometry of a frame, the layer stack, and the markers of the engine. Paths are relative to the repository
(`src/` here); `android_renderer.rs` is
`crates/osm-tile-engine/src/android_renderer.rs`.

## 1. The system

osm-tile-core loads raster map tiles over HTTP, keeps them in a directory of
files, and draws them with wgpu on an Android surface.

| part | state | operations | talks to |
|---|---|---|---|
| `OsmMapView` (Kotlin) | surface ready, size, configuration, internal, external and bound controller, fling | binding, surface and window callbacks, gestures | its controller |
| `OsmMapController` (Kotlin) | camera, animation, pending fitBounds, posted camera, layers, native handle, observers | camera moves, layer calls, replay, destroy | JNI calls |
| JNI bridge (`jni_bridge.rs`) | the renderer pointer | one function per command | `AndroidMapRenderer::send` |
| `AndroidMapRenderer` | two senders, two join handles | create, send, drop | both threads |
| `RendererWorker` (thread) | camera, viewport, layers, pending tiles, decoded and uploaded tiles, GPU surface | one handler per `RenderCommand`; a frame when something changed | receives `RenderCommand`, sends `TileLoaderRequest` |
| `tile_loader_loop` (thread, tokio tasks, 1-2 decode threads) | queue, `in_flight`, fetch tasks, decode queue | spawn, receive, join, drain | receives `TileLoaderRequest`, sends `RenderCommand::TileLoaded` |
| `SizedLruCache` | entries, order, total size | insert, touch, remove, evict | used twice by the worker |
| `CachedTileSource`, `HttpTileSource`, `FileTileCache` | files under the cache directory | load_tile; get, put, remove | file system, HTTP |
| `OsmTileEngine` (UniFFI) | source, map state behind a mutex | load_tile, markers, clusters | same cache directory |
| `MapState`, markers, clustering | markers, viewport | set viewport, replace, upsert, remove, clear, query, cluster | called by the facade, under its mutex |
| camera, projection, tile ids | - | validation, visible tiles, projection | used by the worker and by `MapState` |
| `LayerStack`, `RenderState` | layers in drawing order, camera, viewport | add or replace, remove, change | used by the worker |

### How they interact

Android calls the view on the UI thread, the view calls the controller it is
bound to, the controller sends commands through JNI. A command is a message on
the worker's unbounded channel; the UI thread waits for the renderer only in
`Drop`, which tells both threads to shut down and joins them. The worker takes
one command at a time and renders a frame when one is due. A frame plans the
tiles around the camera, forgets pending tiles that are no longer planned, and
sends a request for each missing one to the loader's unbounded channel. The
loader keeps the ids it works on in `in_flight`, takes requests out of a heap
into at most `MAX_CONCURRENT_FETCHES` tokio tasks, moves what these bring to
the decode threads through a bounded channel, and sends every result to the
worker as one more command. A fetch reads the tile's file or downloads it and
stores it; a result without a tile makes the loader remove the file.
`OsmTileEngine` may use the same directory from other threads.

### What is hard, and what makes each part correct

| part | hard behaviour | correct when |
|---|---|---|
| loader | tiles move between five stages on four kinds of threads; requests repeat; panics; shutdown with work in hand | `in_flight` names exactly the tiles that some stage holds; no tile is in two stages; shutdown ends and leaves nothing; no good file is lost |
| worker | two records of what is pending; answers for tiles that are no longer wanted; budgets that shrink with requests out; caches that evict what is on screen last | nothing visible is forgotten without a frame being due; budgets and memory stay bounded; the records agree |
| whole renderer | a request can be discarded, dropped as a duplicate or lost to a panic while the worker counts on an answer | a pending tile is always somewhere; a tile that stays visible is loaded in the end; `Drop` returns |
| controller | a camera posted for the next frame against one sent at once; a renderer recreated at any time | the renderer ends up with the controller's camera and layers; nothing outlives destroy |
| view | bound, internal, external, managed, attached and observers state one binding in three objects; callbacks in any order | a renderer has a surface exactly while its view has one; no view forgets a live controller it created; no check fails |
| file cache | failures and crashes between any two file operations; several threads on one tile; files left behind | every call looks atomic; no reader ever has a file that was half written |
| a frame | cameras near a pole or the antimeridian, screens wider than the world, textures of ancestors | every pixel is covered once and by the right part of the right tile |
| layer stack | replacing, changing and removing layers, of which only one sorts | each id once, in drawing order, whatever was called before |
| markers | batches that are half valid, calls on several threads, grid cells | a call has its effect at one instant or none; answers match what is stored |

PROJECT.json lists the hazards one by one, at their lines, with the properties
that watch them.

## 2. Modules

| module | models | extends |
|---|---|---|
| `TileChannels` | the two channels and the program counters of their receivers | |
| `TileLoader` | the loader thread, fetch tasks, decode threads, tile files | `TileChannels` |
| `TileLoaderClient` | a loader with a renderer and an owner in their most general form | `TileLoader` |
| `SizedLruCache` | the cache, as operators on a record | |
| `RendererWorker` | the worker's command handlers and its frame, to what is presented | `TileChannels`, instance of `SizedLruCache` |
| `RendererWorkerClient` | a worker with the most general UI and loader | `RendererWorker` |
| `TilePipeline` | `AndroidMapRenderer`: loader, worker and owner together | `TileLoader`, `RendererWorker` |
| `AtomicTileCache` | what a tile cache promises: abstract | |
| `FileTileCache` | `FileTileCache` on a file system | instance of `AtomicTileCache` |
| `CachedTileSource` | `CachedTileSource` with the engine's callers and loaders | `FileTileCache` |
| `WebMercator` | places, bounds, projection, tile ids of osm-core | |
| `MapFrame` | camera, visible tiles, fallback textures, quads, prefetch plan | `WebMercator` |
| `LayerStack` | the layers in drawing order | |
| `AtomicMarkers` | what the engine's marker calls promise: abstract | `WebMercator` |
| `MarkerEngine` | `OsmTileEngine`'s marker calls, `MapState`, clustering | `WebMercator`, instance of `AtomicMarkers` |
| `MapController` | `OsmMapController`, as operators on a record | |
| `MapView` | `OsmMapView`, its controllers, the app and Android | `MapController` |
| `TilePipelineProofs` | lemmas about the loader; theorems about the whole renderer | `TilePipeline` and the worker's proofs |
| `FoldLemmas` | lemmas: folds over finite sets | |
| `RendererWorkerProofs`, `RendererWorkerClientProofs` | the cache's operators and the worker's invariant; theorems about it | `RendererWorker`; `RendererWorkerClient` |
| `FileTileCacheProofs` | theorems about the file cache | `CachedTileSource` |
| `RenderStateProofs` | theorems about what a frame shows and about the order of the layers | `MapFrame`, `LayerStack` |
| `MarkerEngineProofs` | theorems about the marker calls, with the refinement of `AtomicMarkers` | `MarkerEngine` |
| `MapViewProofs` | lemmas about the controller's methods; theorems about views, controllers and renderers | `MapView` |
| `MC*` | values for TLC | the module they instantiate |

`TileLoader` and `RendererWorker` own disjoint variables and share only the
channels and program counters, so that the same actions run against a general
client and against each other: `TilePipeline` adds the owner and nothing else.

### TileLoader

A request is in one of `tileRequests`, `queued` (the heap), `fetches` (the
`JoinSet`), `decodeQueue`, `decoding` (held by a decode thread), `decoded`, or
it is answered in `commands`. `inFlight` is `in_flight`. `loaderPc` walks
through one round of the loop (lines 1416-1518): `spawn` (one pop of the heap
per step, discarding what is out of date), `receive` (one message per step
until a timeout), `join` (at most one fetch), `drain` (one result per step, the
file removed before the worker is told), then either the next round or
`joining` and `stopped`. A fetch is a task with the steps of
`CachedTileSource::load_tile`: `get`, `download`, `put`. A file is `none`,
`good` or `bad`; `put` takes effect at its rename: the cache is used here as
`AtomicTileCache` has it, which `FileTileCache` is shown to implement; other
users of the directory are in `CachedTileSource`. `superseded` and `orphaned`
are history: tiles whose request was discarded or whose task panicked.

The constant `Faults` says what the environment may do: `network`, `io`,
`undecodable` (an answer that is no image), `panic`, `start` (no tokio
runtime).

### RendererWorker

One action per `RenderCommand`. A frame is `RenderFrame` (the latest camera,
the plan, far zoom levels evicted, requests chosen within the budget), one
`SendRequest` per request, `UploadTiles`, and one `EvictTile` per round of
`enforce_cache_limits`, because the loader answers in between, and `DrawFrame`,
which presents the picture (`shown`) or finds no texture to draw to and gives
the frame up (`owed`). Geometry is replaced by views (`MapFrame` has it): a
view is a camera with the screen it fills, the viewport of `RenderState`, and
says which tiles it shows, which surround it and at which tier. `SetCamera` and
a frame change its camera, a `Resize` with a valid density its screen, so that
either shows other tiles; before the first such `Resize` (`viewport` is false)
nothing is planned or drawn from it. The order inside a tier
comes from a `HashMap`, so any selection is possible (`Selections`);
`prefetch_budget` depends on measured times outside of motion, so it is any of
`IdleBudgets`. `MotionExpires` is the passing of 250 ms without a camera. Left
out: telemetry and `pending_tile_priorities` (only written).

### FileTileCache, CachedTileSource and AtomicTileCache

A file is an inode: `tileFile` and `tempFile` are the names that lead to it,
`data` is what has been written of it. One action per file operation: open,
read, create, write (in `Chunks` parts), rename, unlink; each may fail
(`OperationFails`), and the process may die between any two (`Dies`) and be
started again with the files as they are, the temporary ones included. A
reader keeps the inode it has opened whatever happens to the names.
`CachedTileSource` adds the loads: get, download, put, and, for a loader, the
removal of a file that gave no tile. The nonces of puts that run at the same
time are taken to differ (nanoseconds of the clock). A loss of power, after
which a renamed file may be empty because nothing was synced, is not modelled.

`CacheIsAtomic` is the refinement: a get has its effect when it opens, a put
when it renames, a remove when it unlinks; everything else is a stutter.

### WebMercator and MapFrame

Everything is a whole number: degrees are pixels of zoom 0, latitudes are the
rows they project to (the projection is monotone, and `ValidLatitude` keeps the
part beyond the cut-off), a camera has a zoom level and a magnification of
`Parts` parts, screen positions are half parts of a pixel. What is lost is
rounding, nothing else: the formulas of `visible_tiles`, `resolve_tile_draw`,
`tile_vertices` and `build_tile_request_plan` are divided out. The state is
the camera, the viewport, the size of the surface (which a `Resize` with a
refused density changes alone), and the camera's motion.

### LayerStack

The stack is a sequence that `add_or_replace` sorts and the other operations
leave in order; ids are numbers in the order of the names. No two layers have
one id, so that sorting is to put each at the place of its rank.

### MarkerEngine and AtomicMarkers

A call is converted and checked (`Convert`), waits for the mutex (`Lock`),
works on the `MapState` and returns. `upsert` goes through the map marker by
marker, as the code does. `EngineIsAtomic` is the refinement to a service in
which each call has its effect in one step, whose results are stated without
folds and loops: the last marker of a batch with an id counts, a cluster is
the set of markers of one cell, items come in the order of their smallest id.
An upsert has its effect when it gets the lock, all others when they work.

### MapController and MapView

Everything here runs on the UI thread, one method or callback at a time, so a
public method is one step: the methods are operators on a controller's record
or on the world (views, controllers, who made them, whether an exception was
thrown), composed the way the code calls them. `native` is what the commands
sent to a controller's renderer amount to, `None` when the handle is 0. Abstracted:

- a camera is one clamped number, as the zoom is; a size is one number, 0 when
  it is not known; a layer is its visibility and opacity;
- a destroyed controller that nothing refers to becomes free again: the
  bounded set of identities stands for as many objects as the app needs;
- an exception ends the process, as one does on the UI thread; the exception of
  `addTileLayer` without a template is taken to be caught by the app;
- `ValueAnimator.start` delivers the first frame at once.

Assumed of the app and of Android: templates and directories are valid; a view
is handed only live controllers that the app created itself, and none that
another view is bound to; a method is called only on a live controller; a
window detaches its children first, so that `surfaceDestroyed` comes before
`onDetachedFromWindow` ends.

## 3. Runs

| run | asks | states | bounds |
|---|---|---|---|
| `loader` | `LoaderTypeOK`, `InFlightExact`, `OneStagePerTile`, `NothingLeftBehind`, `GoodTileStaysCached`, `InFlightEnds`, `ShutdownEnds` | 462,000 | 2 tiles, 2 priorities, 1 fetch slot, decode queue of 1, 2 decoders, 3 requests, 2 generations, failing network, undecodable answers, failing start, files missing or bad |
| `tile_store` | `SourceTypeOK`, `ReadableFilesWhole`, `CacheIsAtomic` | 535,000 | 1 tile, 2 callers of the app and a loader, 4 files, 3 nonces, 2 writes to a file, 3 loads, any failure, any number of crashes |
| `undecodable_only` | `OnlyUndecodableRemoved` (violated) | - | the same with 2 loads |
| `worker` | `WorkerTypeOK`, `PendingConsistent`, `RequestsWithinBudget`, `ScreenIsCurrent`, `CachesWellFormed`, `MemoryBounded`, `NothingForgotten`, `EvictionSparesVisible` | 1,546,000 | 3 cameras on 2 screens over 4 tiles on 2 zoom levels, 4 commands of every kind, valid and refused, 1 command waiting, 1 pending tile while moving and 2 otherwise, memory for 3 bytes and GPU for 2, failing downloads and a failing start |
| `map_model` | `EngineTypeOK`, `EngineIsAtomic`; `ViewCovered`, `DrawnInPlace`, `PlanFollowsView`; `StackInOrder` | 31,000 | 2 callers, 4 calls on 3 markers; 3 zoom levels, 9 cameras and 3 refused ones, 2 screens, 2 rates of motion; 3 layer ids |
| `pipeline_safety` | `PendingAccounted`, `AnsweredTilesAreCached` | 3,180,000 | 2 tiles, 1 screen, 2 cameras with one tile each, 3 commands (a size, a camera there and back), 1 fetch slot, every load fault, an empty directory |
| `pipeline_liveness` | `VisibleTileLoadsUnlessDiscarded`, `DropEnds` | 116,000 | 1 screen, 2 cameras that share a tile, 2 commands, no faults and no prefetching, files undecodable at first |
| `visible_tiles` | `VisibleTileLoads` (violated) | - | as `pipeline_liveness` with an empty cache |
| `view_camera` | `ViewTypeOK`, `CameraInSync`, `LayersAgree`, `DestroyedStaysQuiet`, `FitWaitsForSize`, `ViewRemembersCamera`, `NoCheckFails` | 226,000 | 1 view, 3 controllers, 1 of the app, 2 configurations, 2 cameras, gestures, 7 calls, no `setEngine` |
| `two_views` | `SurfaceFollowsView`, `SizeFollowsView`, `BindingMutual`, `NoRendererLeaked`, `InternalUsesViewConfig` | 120,000 | 2 views, 5 controllers, 1 of the app, `setEngine`, 2 configurations |
| `detached_engine` | `NoCheckFails` (violated) | - | 1 view with `setEngine` |
| `detached_fling` | `NoRendererWithoutWindow` (violated) | - | 1 view with gestures |

Every property of a passing run has a mutant in PROJECT.json: a definition of
the model changed the way a bug in the code would change it, under which TLC
finds that property violated. The mutants are in the modules next to what they
change.

### Why the bounds are enough

- Two tiles are enough for a tile and the others: what the loader keeps per
  tile is independent between tiles, but for the order of the heap (two
  priorities and two generations give every outcome of a comparison) and the
  slots (one, so that a second tile waits). The proofs of section 5 are for
  any number.
- Three requests allow a tile to be asked for again while it is in any stage,
  with another tile in between.
- In the worker the caches hold three and two bytes of a map of four tiles of
  which one has two: each view fits, but not with the tiles around it, and two
  views do not. The wide screen shows tiles that the narrow one does not, at
  the east camera one of them twice. At rest the near narrow view plans three
  tiles with a budget of two; the wide ones show two tiles with a budget of one
  while the camera moves, and two may be pending then. `far` is beyond
  `MaxZoomDistance` of the others. Four commands are a surface, a size and two
  cameras, two surfaces, or a surface and three sizes; the answers of the
  loader do not count.
- In `pipeline_safety` the camera leaves the only tile in view and comes back:
  its request may have become out of date, its first answer may still be on
  the way when it is asked for again, and the second load may fail. In the
  liveness runs the two views share a tile, which can stay in the plan while
  its request becomes out of date; one size and one camera are what the first
  frame and the next one need.
- In `tile_store` one tile is enough: tiles share only inodes, and no step
  joins two names of different tiles (proved for any number). Three callers on
  it are a reader, a writer and a remover at once, or two writers and a
  reader; four files are a tile's, two temporary ones and one that a reader
  still holds. Two writes leave a state in which a file is half written.
- In `map_model` the world is eight pixels wide at zoom 0 and 32 at zoom 2.
  One screen is wider than that, so that it shows columns more than once, and
  lower than a tile; the other shows rows beyond both poles at zoom 0. The
  cameras are at the pole, on both sides of the antimeridian, between zoom
  levels; of textures every subset of a tile's ancestors is uploaded. The
  rates give a view every number of rings and every depth of the look-ahead; a
  speed too low for any look-ahead comes only with views that are left out. The
  three parts share no state, so that a behaviour works on one of them.
- Markers: two in one cell, one moved out of it, one on the antimeridian, and
  one argument of each kind that is refused; four calls let two writers and
  two readers meet. Layers: all three kinds, one id that changes its kind.
- A view's app controller, its internal controller and a third one are all
  that can be alive with one view: the next one reuses a destroyed identity
  once nothing refers to it (with two views: an internal or managed controller
  each, one of the app, and two that are going). The bound is `IdentityLeft`:
  a step is taken only while an identity is free, so that `Fresh` finds one.
  In the runs one always is.
- One size is enough next to "not known", since the code only asks whether the
  size is known and passes it on.

### What the properties say

`InFlightExact` and `OneStagePerTile`: `in_flight`, updated in three places,
names exactly the tiles of the five stages (and those lost to a panic), and no
tile is twice anywhere, which keeps two fetches off one cache file.
`GoodTileStaysCached`, `AnsweredTilesAreCached`: what has been stored well is
not lost again while the renderer has the directory for itself and files do
not fail; and, whatever fails, a tile whose last answer brought pixels is on
disk. An older answer says less: with a failing file the tile may have been
asked for again and its file removed before the worker takes that answer.
`PendingAccounted`: a tile that the worker counts as pending, and therefore
does not ask for, is requested, in a stage, answered, discarded or lost to a
panic. Together with `NothingForgotten` (an idle worker with no frame due has
every visible tile in memory or pending, and on the GPU) this is why a map
ends up complete: `VisibleTileLoadsUnlessDiscarded`.
`MemoryBounded` states what `enforce_cache_limits` leaves: the limits hold
when the worker rests, and in between are exceeded by no more than the tiles
that were pending.

`ScreenIsCurrent`: whenever the worker rests, the surface shows the view from
every tile that is uploaded; each handler that changes what belongs on screen
makes a frame due. The two gaps the code has are named in the model: a frame
that found no texture, and a size that came with a refused density.

`ReadableFilesWhole`, `CacheIsAtomic`, `SourceTypeOK`: nobody is given a file
that was half written, whoever writes, fails or dies at the same time, and no
call has half an effect.

`ViewCovered`: each pixel of the map on screen is inside exactly one of the
visible tiles, and that tile is the one of its place in the world.
`DrawnInPlace`: each corner of a tile's quad carries the texture coordinate of
its place in the world, whichever ancestors are uploaded, and no coarser
texture is taken than needed. `PlanFollowsView`: while the camera moves nothing
else is asked for; at rest every neighbour of a visible tile is, nothing far
away is, and the look-ahead lies ahead.
`StackInOrder`: the drawing order follows from the layers alone.
`EngineIsAtomic`: as above; it also says that a refused batch changes nothing.

`CameraInSync`: the renderer has the controller's camera, or the frame that
brings it is posted and no older camera can overtake it.
`SurfaceFollowsView`: a renderer has a surface exactly while its controller is
bound to a view that has one, the property for which `bindController`,
`unbindController`, `setExternalBinding`, the surface callbacks and `destroy`
must all agree. `BindingMutual` and `NoRendererLeaked` are the two halves of
ownership; the second says that a view can still destroy what it created, not
that it does (finding 4). `LayersAgree`, `InternalUsesViewConfig`, `ViewRemembersCamera`,
`SizeFollowsView` and `FitWaitsForSize` say what survives when a renderer or a
controller is replaced, in whatever order the callbacks come.

### Fairness

`TileLoaderClient` and `TilePipeline` assume that every thread that can run
runs, that HTTP requests end (`HttpTileSource` sets a timeout of 10 s), file
operations return and decoding ends: weak fairness of the loader thread, the
fetch tasks and the decode threads. The worker takes commands and renders due
frames in turn (`RendererWorker::run` waits at most until the next frame is due and
then renders it), so neither can starve the other: strong fairness of each.
The 250 ms of motion pass. `Drop` runs on once begun. Nothing is
assumed of the UI, the app or the server: requests may fail for ever, and then
a tile does not load. Panics are left out of the liveness runs: with one,
`in_flight` keeps the tile and a shutdown does not end (a hazard in
PROJECT.json). `MapView` states safety only.

Deadlock is checked for the threads: each client has a step for a system that
has come to rest (`Terminated`, `AtRest`, `Dropped`). In `MapView` it is not,
since a crashed process stops.

## 4. Findings

1. **A visible tile can stay unloaded** (`visible_tiles`). The loader discards
   a queued request older than another queued one (`android_renderer.rs:1431`)
   and tells nobody; the worker keeps the tile pending and does not ask again
   while it stays in the plan. A camera move that keeps the tile in view is
   enough. docs/mobile.md:70 says that visible tiles are loaded.
2. **A good cache file can be removed** (`undecodable_only`).
   `android_renderer.rs:1500` removes the file for every result without a
   tile, also after a failed download, when an `OsmTileEngine` may have stored
   the tile in between. The log message calls the file undecodable.
3. **A view with an engine cannot be attached again** (`detached_engine`).
   `onDetachedFromWindow` detaches a managed controller before it destroys it,
   so `externalController` keeps naming the destroyed controller and the next
   use throws (`OsmMapView.kt:386`).
4. **A fling outlives the window** (`detached_fling`). Its posted frame
   creates a controller and a renderer in a view that has left its window
   (`OsmMapView.kt:505`).

Behaviours met on the way for which no document says otherwise are kept as
hazards: a controller of the app stays attached to a view that left its window
(`OsmMapView.kt:391`), a waiting fitBounds is dropped by the next frame of an
older animation, changes to the base layer are not replayed, prefetching
resumes only with an unrelated command, a failed tile is asked for again
without a pause, an invalid camera hides a valid one sent in the same frame.

## 5. Proofs

Every theorem is for every value of the constants. `RendererWorkerClientProofs`
proves of `RendererWorkerClient!Spec`, the worker among a UI and a loader that
may send whatever they can send at any time:

| theorem | states |
|---|---|
| `WorkerIsTyped` | `WorkerTypeOK` |
| `PendingIsConsistent` | `PendingConsistent` |
| `RequestsStayWithinBudget` | `RequestsWithinBudget` |
| `CachesStayWellFormed` | `CachesWellFormed` |
| `MemoryStaysBounded` | `MemoryBounded` |
| `NothingIsForgotten` | `NothingForgotten` |
| `ScreenStaysCurrent` | `ScreenIsCurrent` |
| `EvictionSpares` | `EvictionSparesVisible`, an action property |

`TilePipelineProofs` proves of `TilePipeline!Spec`, the worker with the real
loader and the owner:

| theorem | states |
|---|---|
| `LoaderTyped` | `LoaderTypeOK`, and no more tiles being decoded than live decoders |
| `InFlightIsExact` | `InFlightExact` |
| `TilesHaveOneStage` | `OneStagePerTile` |
| `LoaderLeavesNothing` | `NothingLeftBehind` |
| `WorkerKeepsPromises` | the invariants of the first table |
| `PendingTilesAccounted` | `PendingAccounted` |
| `AnswersAreCached` | `AnsweredTilesAreCached` |
| `GoodTilesStayCached` | `GoodTileStaysCached`, if `Faults` has no `io` |

`FileTileCacheProofs` proves of `CachedTileSource!Spec`:

| theorem | states |
|---|---|
| `SourceTyped` | `SourceTypeOK`: with the types, that no load gives a torn tile |
| `FilesWhole` | `ReadableFilesWhole` |
| `CacheRefined` | `CacheIsAtomic`: the refinement of `AtomicTileCache` |

`MapViewProofs` proves of `MapView!Spec`, the views and controllers with all
that the app, Android and the user may do:

| theorem | states |
|---|---|
| `ViewTypesKept` | `ViewTypeOK` |
| `CameraStaysInSync` | `CameraInSync` |
| `LayersStayAgreed` | `LayersAgree` |
| `DestroyedIsQuiet` | `DestroyedStaysQuiet` |
| `FitOnlyWaitsForSize` | `FitWaitsForSize` |
| `CameraIsRemembered` | `ViewRemembersCamera` |
| `SurfaceIsTheViews` | `SurfaceFollowsView` |
| `SizeIsTheViews` | `SizeFollowsView` |
| `BindingStaysMutual` | `BindingMutual` |
| `NoRendererIsLeaked` | `NoRendererLeaked` |
| `InternalHasViewConfig` | `InternalUsesViewConfig` |
| `ChecksNeverFail` | `NoCheckFails`, for one view and an app that never calls `setEngine` |

`RenderStateProofs` proves of `MapFrame!FrameSpec`, any zoom levels, tile sizes,
cameras and screens, and of `LayerStack!StackSpec`, any ids and layers:

| theorem | states |
|---|---|
| `ViewIsCovered` | `ViewCovered` |
| `TilesDrawnInPlace` | `DrawnInPlace` |
| `PlanIsForView` | `PlanFollowsView` |
| `LayersStayInOrder` | `StackInOrder` |

`MarkerEngineProofs` proves of `MarkerEngine!EngineSpec`, any number of threads
that call the engine:

| theorem | states |
|---|---|
| `EngineTyped` | `EngineTypeOK` |
| `EngineRefines` | `EngineIsAtomic`: the refinement of `AtomicMarkers` |

The theorems rest on the assumptions that the modules name and TLC evaluates:
`StoreAssumption` (at least one write, `NoFile` is no file) and
`SourceAssumption` (downloads give contents or an error) for the cache;
`ChannelsAssumption`, `LoaderAssumption` (at least one slot, one place in the
decode queue and one decoder), `WorkerAssumption` and `PipelineAssumption`
(the UI sends no `Shutdown`). `WorkerAssumption` says that the refused camera
and screen are not among the others, of a view that it shows at least one tile
and prefetches none that it shows, and that there are finitely many tiles
(`TileId` is a zoom level up to a fixed one and two `u32`) and finitely many
values of `prefetch_budget` (the code has 4, 8 and 12).
`ControllerAssumption`, `NoneAssumption` and `ViewAssumption` say that sizes
are positive, that `computeCameraForBounds` gives a camera in range and that
null is no value; `StackAssumption`, that ids are numbers and layers layers;
`EngineAssumption`, that requests are what the facade's signatures admit, with
any numbers in them, that the cluster radius is positive and that a zoom level
fits a `u32`; `MercatorAssumption` and `FrameAssumption`, that the zoom
levels, the tile size, the screens and the rates of motion are what the code
admits. What the theorems about `MapView` assume of the app and of Android is
in its guards (section 2).
`GoodTilesStayCached` needs its hypothesis: a file that cannot be read gives no
tile, and the loader removes it. So does `ChecksNeverFail`: with `setEngine` the
code does not have the property (`detached_engine`), and with two views an app
that gives one controller to both runs into `attachToView`'s check.

**The worker's invariant.** `WorkerInv` has four parts beyond the types, each
more than the property it is for, because a frame takes several steps in which
the properties say nothing.

- `CacheInv`: the caches are well formed, and a tile is pending, about to be
  asked for (`outbox`), in memory or none of these; pending tiles and the
  outbox are within the budget together. `PendingConsistent` alone would not
  survive `SendRequest`, nor `RequestsWithinBudget` a frame.
- `MemoryInv`: outside of a frame the bytes in memory exceed the limit by no
  more than `LargestTile` for each tile that was pending and has arrived. The
  measure is the part of the budget that is not pending (`ArrivedBytes`): it
  grows by one tile with each answer, and a frame evicts before it is reset.
- `SightInv`: from the plan of a frame on each visible tile is in memory,
  pending or in the outbox, or the budget is used up, or the view is larger
  than the memory; from the upload on it is also on the GPU, or larger than
  that, or another frame is due. `NothingForgotten` is this at rest. It
  survives `EvictTile` because an eviction takes a visible tile only when the
  cache holds nothing else (`TileEvicted`), so that the view alone is larger
  than the limit.
- `ScreenInv` is `ScreenIsCurrent` with what holds before the loop starts.

An action is first reduced to what it does to the keys of the caches, the
pending tiles and the flags (`TileReceived`, `FramePlanned`, `TilesUploaded`,
`TileEvicted`); the four parts then have one lemma each (`CacheStep`,
`MemoryStep`, `SightStep`, `ScreenStep`).

**The cache's operators.** `RendererWorkerProofs` shows first that each operation of
`SizedLruCache` takes a well-formed cache to a well-formed one and what becomes
of its keys (`InsertKeys`, `EvictOneKeys`, ...). A well-formed cache is written
as its keys and its order (`CacheOf`), so that the running total is the sum of
the sizes by definition and a lemma has to give it back. The sums and the
loops over sets of keys are folds. `FoldLemmas` states induction and recursion
over the subsets of a finite set for sets and functions, not for operators: a
property of subsets is the set of those that have it (`SubsetsBelong`), a fold
is a function on the subsets (`FoldExists`, `FoldUnique`). `SizeIsFold` and
`GetAllKeys` connect the folds of the community modules with it.

**The cache's invariant.** `StoreInv` strengthens `ReadableFilesWhole`: that
readers have whole files says nothing of the next rename. `NamesDistinct` (no
inode has two names), `WritersOwn` (a put's temporary name leads to its own
inode, with its bytes, all of them once it renames, and no two puts have one
name), `TilesWhole` and `ReadersWhole` (what is named as a tile or held open is
whole and has no temporary name). There is one lemma per operation; the ones
that touch no file share `QuietKeeps`. Creating a file under a name that was
left behind truncates that inode, which is harmless because of
`NamesDistinct` and `ReadersWhole`; this is where `FreshNonce` is needed. The
refinement (`RefinesNext`) maps one action at a time, with `Seen` and `Kept`
for what callers and the abstract store see. `SourceStep` shows that the
source uses the cache as the store's specification allows, and `GetsAnswered`
what a load may find in an answer.

**The pipeline's invariant.** `Inv == LoaderInv /\ WorkerInv /\ PendingInv /\ AnswersInv`.

- `LoaderInv` is closed under the loader's steps; the lemmas for that
  (`LoaderStepBooked` and those before it) let any client send any typed request.
  `InFlightExact` alone is not inductive: removing an id when a stage gives its
  tile up needs that no other stage holds it, which is `OneStagePerTile`; and
  that needs `InFlightExact` when a request arrives. The two are proved
  together (`LoaderStepBooked`), one step per action, from lemmas about the
  ids in sets and sequences as records come and go (`IdsRemove`,
  `SeqIdsTail`). `DecodersCounted` keeps `liveDecoders` a natural number: a
  decoder that leaves or panics is one of those counted. `StagesBacked` says
  what each stage knows of the tile's file: it is missing while it is
  downloaded, good when a stage holds good bytes, and, without failing files,
  not good when it holds anything else. That a step of one tile leaves the
  others' files alone is `OneStagePerTile` again (`OtherStages`).
- `PendingInv` says of a pending tile that it is requested, in `inFlight`,
  answered or superseded, while both threads run. It uses `inFlight` in place
  of the stages, so that a step of the loader between two stages leaves it
  alone; `InFlightExact` then gives `PendingAccounted`. A request that finds
  its id in `inFlight` is dropped without harm for the same reason.
- `AnswersInv` is `AnsweredTilesAreCached` with an empty channel once the
  worker has ended: the loader goes on removing files then and tells nobody.
- `WorkerInv` holds here as with the general client, since it asks nothing of
  the loader and the owner but typed commands.
- `TilePipelineProofs` puts a step of the worker, of the loader and of the
  owner together (`NextInv`).

**The view's invariant.** `IInv` is `InOrder(World, {})`, in parts:

- `ControllerOK` of each record by itself: `CameraKept` (the callback is
  posted exactly while a camera is scheduled, and then it is the current one),
  `SurfaceKept`, `LayersKept`, `Quiet`, and a pending fit only without a size.
  Each method of the controller has a lemma that it keeps this and what else
  it leaves alone (`Serves`, `Handles`), proved one assignment at a time, since
  the provers lose their way in nested updates of a record.
- `Tied`, for a view and the controllers it refers to: the bound one is alive,
  attached to it, observed by it and the active one; the internal one is the
  view's own, bound and has its camera; an external one is the app's, or
  managed and the view's, and attached to it while it lives. It is managed only
  by `setEngine`. This is more than
  `BindingMutual`: a controller has one `attached`, so that no two views can
  share one (`NotShared`), which every change of a binding needs.
- `Shown`: surface, size and configuration of the bound or internal controller
  are the view's.
- `Linked`: only bound controllers have observers or a surface, and an identity
  has a maker exactly while it is in use. `Owned` is `NoRendererLeaked`.

A method is a chain of calls between which this does not hold.
`InOrder(w, {v})` lets what `v` shows be late, from a surface callback to the
controller that takes it; `InOrderBut` and `Ready` let `v` be unbound, between
two bindings; `Nearly` lets one controller have no owner yet, as `setEngine`
does; `Parted` says what a view leaves behind when it gives a controller up,
by `unbindController`, by `Release`, by `destroy` or with its window. A lemma
per operator leads from one to the next (`EnsuredActive`, `BoundInOrder`,
`UnboundParts`, `BoundExternal`, ...), and one per action puts them together.
`Fine` is the result of a method: it has thrown, which changes nothing else
(`Becomes`), or the world is in order.

The other half of `IInv` is that the program has not crashed unless
`ChecksMayFail`: the app uses `setEngine` or has another view. A method throws
where `ensureNotDestroyed` or `attachToView` does. The first needs an active
controller that was destroyed, and `Tied` allows that of a managed one only; the
second, a controller attached to another view. So the lemma of a method that can
throw gives `ChecksMayFail` with the exception (`Thrown`), and the others say
that `crashed` stays as it was.

**The frame's invariant.** A frame's state is a camera, a viewport and surface,
and the motion that was measured last; `FrameInv` says that they are in range,
which each handler checks. The three invariants are then arithmetic about every
such state and, for `DrawnInPlace`, every set of textures on the GPU. The proofs
take one direction of the screen at a time.

- `ViewCovered`: `TileOfPixel` and `TileHolds` show that a column or row from
  floor division holds a pixel exactly if the pixel is between its edges;
  `VisiblePlaces` describes the loops of `visible_tiles` as a range of columns
  times a range of rows, and `WrappedPixel` and `TileInWorld` carry both around
  the 180th meridian.
- `DrawnInPlace`: `AncestorsAre` has the chain of parents in closed form
  (division by powers of two), `ResolvesToNearest` says that the fallback is
  the nearest uploaded one, and `QuadInPlace` that the part of the ancestor that
  is drawn is the tile's, one corner at a time.
- `PlanFollowsView`: the ring of the plan is what is near the view
  (`StepIsNear`, `RingIsNear`, `NeighboursInRing`). The look-ahead is a rounded
  direction: `RoundedAlong` and `RoundedAside` bound its parts, with products of
  unknowns handled by one lemma each, and `OffsetAhead` and `AheadIsNear` put
  the tiles ahead of the camera and within the reach of the plan.

The provers know no law of `^`. That there are twice as many tiles across with
each zoom level (`Powers`) is counted: 2^n is the number of subsets of n
elements, by the library's theorem on finite sets, and with one element more
there are as many again (`TwiceAsMany`).

**The layers' invariant.** `StackInv` is `StackInOrder` with types. That it is
inductive is nearly all in `LayersSorted`, that `sort_layers` sorts: `Below` is a
strict order of layers with different ids (`BelowOrders`), the rank of a layer,
one more than the layers below it, is an injection of the places into themselves
and so a permutation (`RankIsPlace`). The others keep the order because they
change nothing that it depends on (`ChangedKeeps`) or only close a gap
(`RemoveLayerKeeps`).

**The markers' refinement.** `EngineInv` says that the map is in order
(`StoreOK`: finite, each marker under its id and past all checks), that a call
with the lock has a request that was checked (`CallOK`), and that the lock is
held by exactly the one call that runs (`CallsOK`); without the last an upsert
under way could not be told from the map as AtomicMarkers sees it. That map and
the calls are written as operators of the map and the calls
(`StoreIn`, `CallsIn`), so that one lemma each can compare them before and after
a step (`StoreSeenStays`, `StoreSeenAsIs`, `CallsSeenChange`). Then there is one
lemma per action. What the code computes by loops and AtomicMarkers by sets is
shown equal first:

- a batch inserted marker by marker is `Merged` at once (`InsertedAllMerges`),
  and what is left of a batch over what has been inserted is the whole batch
  over the old map (`MergedOneFirst`): an upsert under way changes nothing seen;
- sorting by a key puts the element of rank i - 1 at place i (`SortedByKeys`,
  which rests on `RanksArePlaces`: ranks are an injection into as many places),
  so that sorted markers are the markers of the ids in order (`MarkersAnswered`);
- the cells that `cluster_markers` fills one marker after another hold the
  markers that share a cell (`CellsHold`), one per smallest id, and so its items
  are those of `Items`, in order (`ClustersAgree`);
- the two rounds of checks of the facade amount to `Valid`, but for the zoom of
  `clustered_all`, which is refused under the lock (`ChecksAgree`).

Folds are reached step by step: `InsertedStepwise` and `CellsStepwise` give the
chain of intermediate maps with `FoldExists`, and a property goes along the
chain as a set of numbers (`NaturalsBelong`).

**Model-checked only.** Liveness, of which the prover has none under fairness:
`InFlightEnds`, `ShutdownEnds`, `VisibleTileLoadsUnlessDiscarded`, `DropEnds`.
Of the safety properties that the passing runs check each is stated by a
theorem; `NoCheckFails` with the hypothesis that separates the run `view_camera`
from `detached_engine`. The runs that expect a violation show behaviour for
which nothing can be proved but its negation.

## 6. Not modelled

- Pipelines, buffers and shaders of wgpu, and rounding of floating-point
  numbers in cameras and projection. The bearing and pitch of a camera have no
  effect on a frame.
- URL templates and request headers: the request of a tile is one kind of
  success or failure.
- Loss of power after a rename (`FileTileCache` does not sync).
- Names, kinds and averaged coordinates of markers and clusters; cluster radii
  other than the default, which nothing uses.
- A thread that cannot be spawned (`with_source` is taken to succeed), engine
  constructors that throw, listeners of the app that call back.
- The arithmetic of the controller's coordinates, overlays, touch coordinates,
  error formatting, generated bindings, the example and the build scripts.

## 7. Plan

Done: the renderer's threads, the Kotlin side, the file cache, the geometry of
a frame, the layer stack, the markers; proved: the file cache with its
refinement, the loader, the worker with its caches, the two together, and the
views with their controllers, the order of the layers, and the markers with
their refinement, and the frames. What remains:

1. Composition of `MapView`'s `native` with `RendererWorker`: the commands in
   flight between a controller and its renderer.
2. Listeners of the app that call back into the controller.
3. `NoCheckFails` for several views of which none is given a controller that
   another one has, which needs an app that keeps to this in `MapView`.
