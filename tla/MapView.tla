------------------------------ MODULE MapView ------------------------------
(* OsmMapView (Kotlin), the controllers it owns or borrows, the app that   *)
(* uses both, and the Android callbacks that drive them: the surface, the  *)
(* window, touches, and the frames of the Choreographer and of animators.  *)
(*                                                                         *)
(* Everything runs on the UI thread, so a public method or a callback is   *)
(* one step. The methods are operators on the whole world, a record of the *)
(* views, the controllers and whether an exception was thrown; an action   *)
(* makes the world that a method returns the next state. An exception that *)
(* nobody catches ends the process.                                        *)
EXTENDS MapController, FiniteSets

CONSTANTS
  Controllers,     \* 1..n: identities of OsmMapController objects
  AppControllers,  \* how many of them the app may create and keep
  Calls,           \* the calls on a controller that the app makes
  UsesEngine,      \* whether the app calls setEngine
  Gestures         \* whether the user touches the map

VARIABLES
  views,   \* the fields of each OsmMapView
  ctl,     \* the controllers
  made,    \* who created each controller: "app", "view", or None
  crashed  \* an exception has left a callback or a method

vars == <<views, ctl, made, crashed>>

View ==
  [surfaceReady : BOOLEAN, size : Sizes \cup {0}, config : Configs,
   defaultCamera : Cameras,
   external : Controllers \cup {None},   \* externalController
   managed : BOOLEAN,                    \* externalControllerManaged
   internal : Controllers \cup {None},   \* internalController
   bound : Controllers \cup {None},      \* boundController
   fling : BOOLEAN,                      \* flingRunning, and its callback posted
   window : BOOLEAN]                     \* attached to a window

Call ==
  [op : {"SetCamera", "AnimateCamera"}, camera : Nat]
  \cup [op : {"FitBounds"}, bounds : Bounds, animate : BOOLEAN]
  \cup [op : {"StopAnimation"}]
  \cup [op : {"AddTileLayer"}, id : Layers, opacity : Nat, hasTemplate : BOOLEAN]
  \cup [op : {"RemoveLayer"}, id : Layers]
  \cup [op : {"SetLayerVisible"}, id : Layers, visible : BOOLEAN]
  \cup [op : {"SetLayerOpacity"}, id : Layers, opacity : Nat]

ASSUME ViewAssumption ==
  /\ None \notin Controllers /\ None \notin {"app", "view"}
  /\ AppControllers \in Nat
  /\ \A call \in Calls : call \in Call
  /\ UsesEngine \in BOOLEAN /\ Gestures \in BOOLEAN

(* The app configures a view when it creates it.                           *)
Init ==
  /\ views \in [Views -> [surfaceReady : {FALSE}, size : {0}, config : Configs,
                          defaultCamera : {0}, external : {None},
                          managed : {FALSE}, internal : {None}, bound : {None},
                          fling : {FALSE}, window : {FALSE}]]
  /\ ctl = [k \in Controllers |-> FreeController]
  /\ made = [k \in Controllers |-> None]
  /\ crashed = FALSE

-----------------------------------------------------------------------------
(* The world and the steps on it.                                          *)

World == [views |-> views, ctl |-> ctl, made |-> made, crashed |-> crashed]

Throws(w) == [w EXCEPT !.crashed = TRUE]
IsAlive(w, k) == w.ctl[k].status = "alive"

(* A method of k that starts with ensureNotDestroyed and another check.    *)
Checked(w, k, holds, after) == IF IsAlive(w, k) /\ holds THEN after ELSE Throws(w)

(* k becomes c, and dispatchCameraChanged has told the observing views.    *)
Update(w, k, c) ==
  [w EXCEPT !.ctl[k] = [c EXCEPT !.announce = FALSE],
            !.views = [v \in Views |->
               IF c.announce /\ v \in c.observers
               THEN [@[v] EXCEPT !.defaultCamera = c.camera]
               ELSE @[v]]]

(* An object that nothing refers to any more can be forgotten: the views,  *)
(* a posted frame and a running animator refer to a controller.            *)
Garbage(w, k) ==
  /\ w.ctl[k].status = "destroyed"
  /\ \A v \in Views : k \notin {w.views[v].external, w.views[v].internal,
                                w.views[v].bound}
  /\ ~w.ctl[k].posted /\ w.ctl[k].animation = None

Becomes(w) ==
  IF w.crashed
  THEN crashed' = TRUE /\ UNCHANGED <<views, ctl, made>>
  ELSE /\ views' = w.views
       /\ ctl' = [k \in Controllers |->
                    IF Garbage(w, k) THEN FreeController ELSE w.ctl[k]]
       /\ made' = [k \in Controllers |-> IF Garbage(w, k) THEN None ELSE w.made[k]]
       /\ crashed' = FALSE

Fresh(w) == CHOOSE k \in Controllers : w.ctl[k].status = "free"

Create(w, config, maker) ==
  LET k == Fresh(w)
  IN [w EXCEPT !.ctl[k] = NewController(config), !.made[k] = maker]

-----------------------------------------------------------------------------
(* Binding a controller to a view.                                         *)

(* Mutant of DestroyController: the view is not told.                      *)
DestroySilently(w, k) == IF ~IsAlive(w, k) THEN w ELSE [w EXCEPT !.ctl[k] = Destroy(@)]

OnControllerDestroyed(view, k) ==
  [view EXCEPT !.bound = IF @ = k THEN None ELSE @,
               !.managed = @ /\ view.external # k,
               !.external = IF @ = k THEN None ELSE @,
               !.internal = IF @ = k THEN None ELSE @]

(* destroy tells the view that the controller is attached to.              *)
DestroyController(w, k) ==
  IF ~IsAlive(w, k)
  THEN w
  ELSE LET v == w.ctl[k].attached
           gone == [w EXCEPT !.ctl[k] = Destroy(@)]
       IN IF v = None
          THEN gone
          ELSE [gone EXCEPT !.views[v] = OnControllerDestroyed(@, k)]

Detach(w, v, k) ==
  [w EXCEPT !.ctl[k].attached = IF @ = v THEN None ELSE @]

(* Mutant of Unobserve: the view goes on listening.                        *)
KeepObserving(w, v, k) == w
Unobserve(w, v, k) == [w EXCEPT !.ctl[k].observers = @ \ {v}]

(* attachToView refuses a controller of another view.                      *)
BindController(w, v, k) ==
  LET view == w.views[v]
      held == [w EXCEPT !.ctl[k].attached = v, !.ctl[k].observers = @ \cup {v},
                        !.views[v].bound = k]
      shown == IF view.surfaceReady
               THEN Update(held, k, OnSurfaceCreated(held.ctl[k]))
               ELSE held
      sized == IF view.size > 0
               THEN Update(shown, k, OnSurfaceChanged(shown.ctl[k], view.size))
               ELSE shown
  IN IF view.bound = k
     THEN w
     ELSE IF IsAlive(w, k) /\ w.ctl[k].attached \in {None, v}
          THEN sized
          ELSE Throws(w)

(* Mutant of UnbindController: the renderer keeps the surface.             *)
UnbindKeepsSurface(w, v, k, destroy) ==
  LET unbound == [Detach(Unobserve(w, v, k), v, k)
                    EXCEPT !.views[v].bound = IF @ = k THEN None ELSE @]
  IN IF destroy THEN DestroyController(unbound, k) ELSE unbound

UnbindController(w, v, k, destroy) ==
  LET hidden == IF w.views[v].surfaceReady
                THEN Update(Unobserve(w, v, k), k,
                            OnSurfaceDestroyed(Unobserve(w, v, k).ctl[k]))
                ELSE Unobserve(w, v, k)
      unbound == [Detach(hidden, v, k)
                    EXCEPT !.views[v].bound = IF @ = k THEN None ELSE @]
  IN IF destroy THEN DestroyController(unbound, k) ELSE unbound

(* Mutant of EnsureInternalController: it starts at the default camera.    *)
EnsureInternalAnywhere(w, v) ==
  IF w.views[v].internal # None
  THEN w
  ELSE [Create(w, w.views[v].config, "view") EXCEPT !.views[v].internal = Fresh(w)]

EnsureInternalController(w, v) ==
  IF w.views[v].internal # None
  THEN w
  ELSE LET k == Fresh(w)
           created == [Create(w, w.views[v].config, "view")
                         EXCEPT !.views[v].internal = k]
       IN Update(created, k, SetCamera(created.ctl[k], w.views[v].defaultCamera))

EnsureActiveController(w, v) ==
  IF w.views[v].external # None
  THEN BindController(w, v, w.views[v].external)
  ELSE LET ensured == EnsureInternalController(w, v)
       IN BindController(ensured, v, ensured.views[v].internal)

(* ensureActiveController().method().                                      *)
OnActive(w, v, Method(_)) ==
  LET ensured == EnsureActiveController(w, v)
      k == ensured.views[v].bound
  IN IF ensured.crashed
     THEN ensured
     ELSE Checked(ensured, k, TRUE, Update(ensured, k, Method(ensured.ctl[k])))

Release(w, v, k, destroy) ==
  LET released == Detach(Unobserve(w, v, k), v, k)
  IN IF destroy THEN DestroyController(released, k) ELSE released

(* setExternalBinding. The engine is not kept apart: it is set exactly     *)
(* when the controller is managed.                                         *)
BindInternalAgain(w, v, previous, wasManaged) ==
  LET freed == IF previous = None
               THEN w
               ELSE IF w.views[v].bound = previous
                    THEN UnbindController(w, v, previous, wasManaged)
                    ELSE Release(w, v, previous, wasManaged)
      ensured == EnsureInternalController(freed, v)
  IN BindController(ensured, v, ensured.views[v].internal)

(* Mutant of BindExternal: only the internal controller is destroyed.      *)
BindExternalKeepsManaged(w, v, k, previous, wasManaged) ==
  LET bound == w.views[v].bound
      unbound == IF bound \in {None, k}
                 THEN w
                 ELSE UnbindController(w, v, bound, bound = w.views[v].internal)
  IN BindController([unbound EXCEPT !.views[v].internal = None], v, k)

BindExternal(w, v, k, previous, wasManaged) ==
  LET freed == IF previous \notin {None, k, w.views[v].bound}
               THEN Release(w, v, previous, wasManaged)
               ELSE w
      bound == freed.views[v].bound
      internal == freed.views[v].internal
      unbound == IF bound \in {None, k}
                 THEN freed
                 ELSE UnbindController(freed, v, bound,
                        bound = internal \/ (bound = previous /\ wasManaged))
      alone == IF internal \in {None, k}
               THEN unbound
               ELSE [IF internal # bound THEN DestroyController(unbound, internal)
                                         ELSE unbound
                       EXCEPT !.views[v].internal = None]
  IN BindController(alone, v, k)

SetExternalBinding(w, v, k, managed) ==
  LET previous == w.views[v].external
      wasManaged == w.views[v].managed
      assigned == [w EXCEPT !.views[v].external = k, !.views[v].managed = managed]
  IN IF previous = k /\ wasManaged = managed
     THEN w
     ELSE IF k = None
          THEN BindInternalAgain(assigned, v, previous, wasManaged)
          ELSE BindExternal(assigned, v, k, previous, wasManaged)

-----------------------------------------------------------------------------
(* What the app does.                                                      *)

Made(maker) == {k \in Controllers : made[k] = maker /\ ctl[k].status = "alive"}

(* The app keeps at most AppControllers of its own.                        *)
CreateController(config) ==
  /\ Cardinality(Made("app")) < AppControllers
  /\ Becomes(Create(World, config, "app"))

DestroyByApp(k) ==
  /\ IsAlive(World, k)
  /\ Becomes(DestroyController(World, k))

(* An app hands a view one of its own controllers, and only one that no    *)
(* other view is bound to.                                                 *)
SetController(v, k) ==
  /\ k # None => /\ k \in Made("app")
                 /\ \A other \in Views \ {v} : views[other].bound # k
  /\ Becomes(SetExternalBinding(World, v, k, FALSE))

SetEngine(v, given) ==
  /\ UsesEngine
  /\ IF given
     THEN Becomes(SetExternalBinding(Create(World, None, "view"), v,
                                     Fresh(World), TRUE))
     ELSE Becomes(SetExternalBinding(World, v, None, FALSE))

(* setTileUrlTemplate and setCacheDir.                                     *)
SetConfig(v, config) ==
  LET k == views[v].internal
      configured == [World EXCEPT !.views[v].config = config]
  IN /\ views[v].config # config
     /\ Becomes(IF k = None
                THEN configured
                ELSE Checked(configured, k, ctl[k].owns,
                       Update(configured, k, UpdateRendererConfig(ctl[k], config))))

Called(c, call) ==
  CASE call.op = "SetCamera"       -> SetCamera(c, call.camera)
    [] call.op = "AnimateCamera"   -> AnimateCamera(c, call.camera)
    [] call.op = "FitBounds"       -> FitBounds(c, call.bounds, call.animate)
    [] call.op = "StopAnimation"   -> StopAnimation(c)
    [] call.op = "AddTileLayer"    -> AddTileLayer(c, call.id, call.opacity,
                                                   call.hasTemplate)
    [] call.op = "RemoveLayer"     -> RemoveLayer(c, call.id)
    [] call.op = "SetLayerVisible" -> SetLayerVisible(c, call.id, call.visible)
    [] call.op = "SetLayerOpacity" -> SetLayerOpacity(c, call.id, call.opacity)

MovesCamera(call) == call.op \in {"SetCamera", "AnimateCamera"}

(* A method of a controller that the app holds or got from getController.  *)
CallController(k, call) ==
  /\ IsAlive(World, k)
  /\ Becomes(Update(World, k, Called(ctl[k], call)))

(* The same methods of the view: on the controller that is bound then, and *)
(* the camera is remembered first. stopAnimation binds nothing.            *)
CallView(v, call) ==
  LET remembered == IF MovesCamera(call)
                    THEN [World EXCEPT !.views[v].defaultCamera =
                                          Normalized(call.camera)]
                    ELSE World
  IN /\ call.op # "StopAnimation"
     /\ Becomes(OnActive(remembered, v, LAMBDA c : Called(c, call)))

(* getController.                                                          *)
ActiveController(view) ==
  IF view.bound # None
  THEN view.bound
  ELSE IF view.external # None THEN view.external ELSE view.internal

StopViewAnimation(v) ==
  LET k == ActiveController(views[v])
  IN /\ k # None
     /\ Becomes(Checked(World, k, TRUE, Update(World, k, StopAnimation(ctl[k]))))

-----------------------------------------------------------------------------
(* What Android and the user do.                                           *)

AttachToWindow(v) ==
  /\ ~views[v].window
  /\ views' = [views EXCEPT ![v].window = TRUE]
  /\ UNCHANGED <<ctl, made, crashed>>

(* A ViewGroup detaches its children first, so the SurfaceView has reported *)
(* the end of its surface by then.                                         *)
DetachFromWindow(v) ==
  LET k == views[v].bound
      left == [World EXCEPT !.views[v].window = FALSE]
      unobserved == Unobserve(left, v, k)
      hidden == IF views[v].surfaceReady
                THEN Update(unobserved, k, OnSurfaceDestroyed(unobserved.ctl[k]))
                ELSE unobserved
      owned == k = views[v].internal \/ (k = views[v].external /\ views[v].managed)
      freed == IF owned THEN DestroyController(Detach(hidden, v, k), k) ELSE hidden
  IN /\ views[v].window /\ ~views[v].surfaceReady
     /\ Becomes(IF k = None
                THEN left
                ELSE [freed EXCEPT !.views[v].bound = None,
                                   !.views[v].internal = IF @ = k THEN None ELSE @])

SurfaceCreated(v) ==
  /\ views[v].window /\ ~views[v].surfaceReady
  /\ Becomes(OnActive([World EXCEPT !.views[v].surfaceReady = TRUE], v,
                      OnSurfaceCreated))

SurfaceChanged(v, size) ==
  /\ views[v].surfaceReady
  /\ Becomes(OnActive([World EXCEPT !.views[v].size = size], v,
                      LAMBDA c : OnSurfaceChanged(c, size)))

SurfaceDestroyed(v) ==
  LET k == views[v].bound
      hidden == [World EXCEPT !.views[v].surfaceReady = FALSE]
  IN /\ views[v].surfaceReady
     /\ Becomes(IF k = None
                THEN hidden
                ELSE Update(hidden, k, OnSurfaceDestroyed(ctl[k])))

(* panBy: a camera that the finger, or the fling after it, leads to.       *)
PanBy(w, v, camera) ==
  IF w.views[v].size = 0
  THEN w
  ELSE OnActive(w, v, LAMBDA c : GestureCamera(c, camera))

Touched(v) == Gestures /\ views[v].window

Pan(v, camera) ==
  /\ Touched(v)
  /\ Becomes(PanBy(World, v, camera))

(* zoomBy leaves the controller alone when the zoom stays the same.        *)
Pinch(v, camera) ==
  /\ Touched(v) /\ views[v].size > 0
  /\ Becomes(OnActive(World, v,
       LAMBDA c : IF c.camera = camera THEN c ELSE GestureCamera(c, camera)))

StartFling(v) ==
  /\ Touched(v)
  /\ Becomes([World EXCEPT !.views[v].fling = TRUE])

(* A finger put down, or flings disabled by the app.                       *)
StopFling(v) ==
  /\ views[v].fling
  /\ Becomes([World EXCEPT !.views[v].fling = FALSE])

(* stepFling: it pans, and posts itself again while it is fast enough.     *)
FlingFrame(v, camera, ends) ==
  /\ views[v].fling
  /\ Becomes([PanBy(World, v, camera)
                EXCEPT !.views[v].fling = ~(ends \/ views[v].size = 0)])

CameraFrameFires(k) ==
  /\ ctl[k].posted
  /\ Becomes(Update(World, k, CameraFrame(ctl[k])))

AnimationStep(k, camera) ==
  /\ ctl[k].animation # None
  /\ camera \in Between(ctl[k].animation.from, ctl[k].animation.to)
  /\ Becomes(Update(World, k, AnimationFrame(ctl[k], camera)))

AnimationEnds(k) ==
  /\ ctl[k].animation # None
  /\ Becomes(Update(World, k, AnimationEnd(ctl[k])))

App ==
  \/ \E config \in Configs \cup {None} : CreateController(config)
  \/ \E k \in Controllers : DestroyByApp(k) \/ \E call \in Calls : CallController(k, call)
  \/ \E v \in Views :
       \/ \E k \in Controllers \cup {None} : SetController(v, k)
       \/ \E given \in BOOLEAN : SetEngine(v, given)
       \/ \E config \in Configs : SetConfig(v, config)
       \/ \E call \in Calls : CallView(v, call)
       \/ StopViewAnimation(v)

Android ==
  \/ \E v \in Views :
       \/ AttachToWindow(v) \/ DetachFromWindow(v)
       \/ SurfaceCreated(v) \/ SurfaceDestroyed(v)
       \/ \E size \in Sizes : SurfaceChanged(v, size)
  \/ \E k \in Controllers : CameraFrameFires(k) \/ AnimationEnds(k)
  \/ \E k \in Controllers, camera \in Cameras : AnimationStep(k, camera)

User ==
  \E v \in Views :
    \/ StartFling(v) \/ StopFling(v)
    \/ \E camera \in Cameras : Pan(v, camera) \/ Pinch(v, camera)
    \/ \E camera \in Cameras, ends \in BOOLEAN : FlingFrame(v, camera, ends)

(* The bound on the objects: a step that creates a controller finds an     *)
(* identity for it.                                                        *)
IdentityLeft == \E k \in Controllers : ctl[k].status = "free"

Next == ~crashed /\ IdentityLeft /\ (App \/ Android \/ User)

Spec == Init /\ [][Next]_vars

-----------------------------------------------------------------------------
(* Correctness.                                                            *)

Alive == {k \in Controllers : ctl[k].status = "alive"}

(* Every field stays within its type.                                      *)
ViewTypeOK ==
  /\ views \in [Views -> View]
  /\ ctl \in [Controllers -> Controller]
  /\ made \in [Controllers -> {"app", "view", None}]
  /\ crashed \in BOOLEAN
  /\ \A k \in Controllers : (ctl[k].native # None) <=> k \in Alive

(* The renderer has the controller's camera, or the frame that brings it   *)
(* is posted and no older camera can overtake it (scheduleCameraToNative,  *)
(* cancelScheduledNativeCameraPush).                                       *)
CameraInSync == \A k \in Alive :
  LET c == ctl[k]
  IN IF c.posted /\ c.pending # None
     THEN c.pending = c.camera
     ELSE c.native.camera = c.camera

(* A renderer has a surface exactly while its controller is bound to a     *)
(* view whose surface exists: none is drawn to after surfaceDestroyed, and *)
(* no bound controller misses the surface.                                 *)
SurfaceFollowsView == \A k \in Alive :
  ctl[k].native.surface <=> \E v \in Views : views[v].bound = k /\ views[v].surfaceReady

(* Whatever the order of surface callbacks, binding and a new renderer, a  *)
(* renderer that draws to a view's surface knows its size.                 *)
SizeFollowsView == \A v \in Views :
  LET k == views[v].bound
  IN k # None /\ views[v].surfaceReady /\ views[v].size > 0
       => ctl[k].native.size = views[v].size

(* bound, attached and observed are one fact in three places: a view       *)
(* observes the controller it is bound to and no other, it is attached to  *)
(* it, and it is the one that its next call would use.                     *)
BindingMutual == \A v \in Views :
  LET view == views[v]
  IN /\ \A k \in Controllers : v \in ctl[k].observers => view.bound = k
     /\ view.bound # None =>
          /\ view.bound = IF view.external # None THEN view.external ELSE view.internal
          /\ view.bound \in Alive
          /\ ctl[view.bound].attached = v /\ v \in ctl[view.bound].observers

(* A live controller that was created for a view is always referred to by  *)
(* a view as its own, so that the view can still destroy it. It need not   *)
(* do so: one without a window may keep it, see NoRendererWithoutWindow.   *)
NoRendererLeaked == \A k \in Alive : made[k] = "view" =>
  \E v \in Views : views[v].internal = k \/ (views[v].external = k /\ views[v].managed)

(* Nothing that was posted, started or registered outlives destroy.        *)
DestroyedStaysQuiet == \A k \in Controllers : ctl[k].status = "destroyed" =>
  /\ ~ctl[k].posted /\ ctl[k].animation = None
  /\ ctl[k].observers = {} /\ ctl[k].attached = None

(* A fitBounds waits only while the size is unknown: as soon as a surface  *)
(* or a new renderer brings the size it is applied.                        *)
FitWaitsForSize == \A k \in Alive : ctl[k].fit # None =>
  ctl[k].size = 0

(* A view remembers the camera of its own controller, so that one created  *)
(* after a detach shows the same map.                                      *)
ViewRemembersCamera == \A v \in Views :
  views[v].bound # None /\ views[v].bound = views[v].internal
    => views[v].defaultCamera = ctl[views[v].bound].camera

(* The view's own controller runs with the view's template and cache       *)
(* directory, whether they were set before or after it was created.        *)
InternalUsesViewConfig == \A v \in Views :
  views[v].internal # None => ctl[views[v].internal].config = views[v].config

(* A recorded layer is in the renderer with the same visibility and        *)
(* opacity, also after the renderer was created again, and but for its own *)
(* base layer the renderer has no other. (A layer that the app added       *)
(* without a template to a controller on its own engine is only recorded.) *)
LayersAgree == \A k \in Alive :
  LET recorded == ctl[k].layers
      shown == ctl[k].native.layers
  IN /\ DOMAIN shown \subseteq DOMAIN recorded \cup {BaseLayer}
     /\ ctl[k].owns => \A id \in DOMAIN recorded :
          id \in DOMAIN shown /\ shown[id] = recorded[id]

(* No use of the view and of live controllers runs into a failing check or *)
(* require of OsmMapController.                                            *)
NoCheckFails == ~crashed

(* A view that has left its window starts no renderer of its own accord.   *)
NoRendererWithoutWindow ==
  [][\A v \in Views :
       (~views[v].window /\ \E camera \in Cameras, ends \in BOOLEAN :
                              FlingFrame(v, camera, ends))
         => {k \in Controllers : made'[k] = "view"} \subseteq Made("view")]_vars
===========================================================================
