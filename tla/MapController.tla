--------------------------- MODULE MapController ---------------------------
(* OsmMapController (Kotlin): one camera, one surface, one set of tile     *)
(* layers, and the native renderer that they are pushed to. A controller   *)
(* is a record; every method is an operator from the record to the next.   *)
(* The UI thread runs one method at a time.                                *)
(*                                                                         *)
(* A camera is a number that stands for its five fields and is clamped the *)
(* way the zoom is; the size of a surface is a number, 0 when it is not    *)
(* known; a layer keeps its opacity (url template and z-index travel with  *)
(* it). `native` holds what the commands sent to the renderer so far       *)
(* amount to; it is None when the handle is 0.                             *)
EXTENDS Integers, Functions

CONSTANTS
  None,       \* null, and a handle of 0
  MaxZoom,    \* MAX_ZOOM
  Sizes,      \* of surfaces
  Configs,    \* pairs of a tile url template and a cache directory
  BaseLayer,  \* DEFAULT_TILE_LAYER_ID of the renderer
  Layers,     \* ids of the layers an app uses
  Bounds,     \* arguments of fitBounds
  FitCamera,  \* [Bounds -> [Sizes -> camera]]: computeCameraForBounds
  Views

ASSUME ControllerAssumption ==
  /\ MaxZoom \in Nat
  /\ Sizes \subseteq Nat \ {0}
  /\ FitCamera \in [Bounds -> [Sizes -> 0..MaxZoom]]
  /\ None \notin 0..MaxZoom /\ None \notin Configs /\ None \notin Views

Cameras == 0..MaxZoom
Opaque == 1

(* OsmCamera.normalized and Float.coerceIn. Mutant: the camera as given.   *)
AsGiven(camera) == camera
Normalized(camera) == IF camera > MaxZoom THEN MaxZoom ELSE camera
Clamped(opacity) == IF opacity > Opaque THEN Opaque ELSE opacity

Layer == [visible : BOOLEAN, opacity : 0..Opaque]
LayerMap == UNION {[ids -> Layer] : ids \in SUBSET (Layers \cup {BaseLayer})}
NoLayers == [id \in {} |-> None]
With(layers, id, layer) ==
  [other \in DOMAIN layers \cup {id} |-> IF other = id THEN layer ELSE layers[other]]
Without(layers, id) == Restrict(layers, DOMAIN layers \ {id})

(* A renderer that has just been created: its own base layer, no surface,  *)
(* the default camera.                                                     *)
NewNative ==
  [surface |-> FALSE, size |-> 0, camera |-> 0,
   layers |-> [id \in {BaseLayer} |-> [visible |-> TRUE, opacity |-> Opaque]]]

Native == [surface : BOOLEAN, size : Sizes \cup {0}, camera : Cameras,
           layers : LayerMap]
Animation == [from : Cameras, to : Cameras]
Fit == [bounds : Bounds, animate : BOOLEAN]

ASSUME NoneAssumption ==
  None \notin Native /\ None \notin Animation /\ None \notin Fit

Controller ==
  [status : {"free", "alive", "destroyed"},
   owns : BOOLEAN,                     \* ownsEngine
   config : Configs \cup {None},       \* defaultTileUrlTemplate, cacheDir
   camera : Cameras,
   animation : Animation \cup {None},
   fit : Fit \cup {None},
   pending : Cameras \cup {None},      \* pendingNativeCamera
   scheduled : BOOLEAN,                \* nativeCameraFrameScheduled
   posted : BOOLEAN,                   \* the Choreographer holds the callback
   surface : BOOLEAN,
   size : Sizes \cup {0},
   layers : LayerMap,
   native : Native \cup {None},
   attached : Views \cup {None},
   observers : SUBSET Views,
   announce : BOOLEAN]                 \* dispatchCameraChanged was called

FreeController ==
  [status |-> "free", owns |-> FALSE, config |-> None, camera |-> 0,
   animation |-> None, fit |-> None, pending |-> None, scheduled |-> FALSE,
   posted |-> FALSE, surface |-> FALSE, size |-> 0, layers |-> NoLayers,
   native |-> None, attached |-> None, observers |-> {}, announce |-> FALSE]

(* The two constructors: with a configuration the controller owns its      *)
(* engine, with None it borrows the app's.                                 *)
NewController(config) ==
  [FreeController EXCEPT !.status = "alive", !.owns = config # None,
                         !.config = config, !.native = NewNative]

-----------------------------------------------------------------------------
(* What reaches the renderer.                                              *)

PushCamera(c, camera) ==
  IF c.native = None THEN c ELSE [c EXCEPT !.native.camera = camera]

PushResizeIfReady(c) ==
  IF c.surface /\ c.native # None /\ c.size > 0
  THEN [c EXCEPT !.native.size = c.size]
  ELSE c

ScheduleCamera(c) ==
  [c EXCEPT !.pending = c.camera, !.scheduled = TRUE,
            !.posted = @ \/ ~c.scheduled]

(* Mutant of CancelScheduled: an older camera may still be posted.         *)
CancelNothing(c) == c

CancelScheduled(c) ==
  [c EXCEPT !.pending = None, !.scheduled = FALSE,
            !.posted = @ /\ ~c.scheduled]

(* nativeCameraFrameCallback.                                              *)
CameraFrame(c) ==
  LET fired == [c EXCEPT !.posted = FALSE, !.scheduled = FALSE, !.pending = None]
  IN IF c.pending = None THEN fired ELSE PushCamera(fired, c.pending)

-----------------------------------------------------------------------------
(* The camera.                                                             *)

ApplyCamera(c, camera, gesture, cancelAnimation) ==
  LET moved == [c EXCEPT !.animation = IF cancelAnimation THEN None ELSE @,
                         !.fit = None,
                         !.camera = Normalized(camera),
                         !.announce = TRUE]
  IN IF gesture
     THEN ScheduleCamera(moved)
     ELSE PushCamera(CancelScheduled(moved), moved.camera)

SetCamera(c, camera) == ApplyCamera(c, camera, FALSE, TRUE)
GestureCamera(c, camera) == ApplyCamera(c, camera, TRUE, TRUE)

(* ValueAnimator.start delivers the frame of fraction 0 at once.           *)
AnimateCamera(c, camera) ==
  LET end == Normalized(camera)
  IN IF c.camera = end
     THEN SetCamera(c, end)
     ELSE [ApplyCamera(c, c.camera, FALSE, FALSE)
             EXCEPT !.animation = [from |-> c.camera, to |-> end]]

Between(a, b) == (a..b) \cup (b..a)
AnimationFrame(c, camera) == ApplyCamera(c, camera, FALSE, FALSE)
AnimationEnd(c) ==
  [ApplyCamera(c, c.animation.to, FALSE, FALSE) EXCEPT !.animation = None]

(* computeCameraForBounds.                                                 *)
Fitted(c, bounds) == FitCamera[bounds][c.size]

FitBounds(c, bounds, animate) ==
  LET unfit == [c EXCEPT !.fit = None]
      fitted == Fitted(c, bounds)
  IN IF c.size = 0
     THEN [c EXCEPT !.fit = [bounds |-> bounds, animate |-> animate]]
     ELSE IF animate THEN AnimateCamera(unfit, fitted) ELSE SetCamera(unfit, fitted)

ApplyPendingFitBounds(c) ==
  IF c.fit = None \/ c.size = 0
  THEN c
  ELSE FitBounds([c EXCEPT !.fit = None], c.fit.bounds, c.fit.animate)

StopAnimation(c) == [c EXCEPT !.fit = None, !.animation = None]

-----------------------------------------------------------------------------
(* The layers: recorded by the controller and sent to the renderer, which  *)
(* ignores what concerns a layer it does not have.                         *)

NativeAdd(native, id, layer) == [native EXCEPT !.layers = With(@, id, layer)]

(* Without a template of its own a layer takes the controller's; when      *)
(* there is none, addTileLayer throws after it has recorded the layer, and *)
(* the app is taken to catch that.                                         *)
AddTileLayer(c, id, opacity, hasTemplate) ==
  LET layer == [visible |-> id \in DOMAIN c.layers => c.layers[id].visible,
                opacity |-> Clamped(opacity)]
      recorded == [c EXCEPT !.layers = With(@, id, layer)]
  IN IF hasTemplate \/ c.config # None
     THEN [recorded EXCEPT !.native = NativeAdd(@, id, layer)]
     ELSE recorded

RemoveLayer(c, id) ==
  [c EXCEPT !.layers = Without(@, id), !.native.layers = Without(@, id)]

SetLayerVisible(c, id, visible) ==
  LET Shown(layers) == IF id \in DOMAIN layers
                       THEN [layers EXCEPT ![id].visible = visible]
                       ELSE layers
  IN [c EXCEPT !.layers = Shown(@), !.native.layers = Shown(@)]

SetLayerOpacity(c, id, opacity) ==
  LET Faded(layers) == IF id \in DOMAIN layers
                       THEN [layers EXCEPT ![id].opacity = Clamped(opacity)]
                       ELSE layers
  IN [c EXCEPT !.layers = Faded(@), !.native.layers = Faded(@)]

(* Mutant of ReplayLayerState: hidden layers come back visible.            *)
ReplayVisible(c) ==
  [c EXCEPT !.native.layers =
     [id \in DOMAIN @ \cup DOMAIN c.layers |->
        IF id \in DOMAIN c.layers THEN [c.layers[id] EXCEPT !.visible = TRUE]
                                 ELSE @[id]]]

ReplayLayerState(c) ==
  [c EXCEPT !.native.layers =
     [id \in DOMAIN @ \cup DOMAIN c.layers |->
        IF id \in DOMAIN c.layers THEN c.layers[id] ELSE @[id]]]

-----------------------------------------------------------------------------
(* The surface, the configuration, and the end.                            *)

(* Mutant of OnSurfaceCreated: the size is left to onSurfaceChanged.       *)
OnSurfaceCreatedUnsized(c) ==
  PushCamera([c EXCEPT !.surface = TRUE, !.native.surface = TRUE,
                       !.announce = TRUE], c.camera)
OnSurfaceCreated(c) ==
  LET ready == [c EXCEPT !.surface = TRUE, !.native.surface = TRUE,
                         !.announce = TRUE]
  IN PushCamera(PushResizeIfReady(ready), c.camera)

(* Mutant of OnSurfaceChanged: a fitBounds goes on waiting.                *)
OnSurfaceChangedUnfit(c, size) == PushResizeIfReady([c EXCEPT !.size = size])
OnSurfaceChanged(c, size) ==
  ApplyPendingFitBounds(PushResizeIfReady([c EXCEPT !.size = size]))

OnSurfaceDestroyed(c) ==
  IF c.status # "alive"
  THEN c
  ELSE [c EXCEPT !.surface = FALSE, !.native.surface = FALSE]

RecreateNativeRenderer(c) ==
  LET fresh == ReplayLayerState([c EXCEPT !.animation = None, !.native = NewNative])
      shown == IF c.surface
               THEN PushResizeIfReady([fresh EXCEPT !.native.surface = TRUE])
               ELSE fresh
  IN ApplyPendingFitBounds(PushCamera([shown EXCEPT !.announce = TRUE], c.camera))

(* Mutant of UpdateRendererConfig: without a surface nothing is renewed.   *)
UpdateShownConfig(c, config) ==
  IF c.config = config \/ ~c.surface
  THEN c
  ELSE RecreateNativeRenderer([c EXCEPT !.config = config])
UpdateRendererConfig(c, config) ==
  IF c.config = config
  THEN c
  ELSE RecreateNativeRenderer([c EXCEPT !.config = config])

(* Mutant of Destroy: a posted frame stays posted.                         *)
DestroyKeepsFrame(c) ==
  [c EXCEPT !.status = "destroyed", !.animation = None, !.fit = None,
            !.surface = FALSE, !.native = None, !.observers = {}, !.attached = None]

(* The caller is told through onControllerDestroyed (MapView).             *)
Destroy(c) ==
  [CancelScheduled(c) EXCEPT !.status = "destroyed", !.animation = None,
     !.fit = None, !.surface = FALSE, !.native = None, !.observers = {},
     !.attached = None]
===========================================================================
