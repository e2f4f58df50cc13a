--------------------------- MODULE MapViewProofs ---------------------------
(* What is proved of MapView, and so of MapController: that every property *)
(* of its views, controllers and renderers, except that no check fails,    *)
(* holds for every number of views and controllers.                        *)
(*                                                                         *)
(* The inductive invariant is InOrder(World, {}): the record of every      *)
(* controller is in order by itself (ControllerOK), every view is tied to  *)
(* the controllers it refers to (Tied) and they show what it is (Shown),   *)
(* and a controller is bound, attached and owned as its maker says         *)
(* (Linked, Owned). A method is a chain of operators on a world; between   *)
(* them the world is in order but for one view or for one controller       *)
(* (InOrder(w, {v}), InOrderBut, Nearly), and each operator has a lemma    *)
(* that says what of it it leaves.                                         *)
EXTENDS MapView, TLAPS

---------------------------------------------------------------------------
(* What every method of a controller keeps of its record.                  *)

(* The Choreographer holds the callback while a camera is scheduled, and   *)
(* then it is the controller's; otherwise the renderer has it.             *)
CameraKept(c) ==
  /\ c.posted = c.scheduled
  /\ c.scheduled <=> c.pending # None
  /\ c.scheduled => c.pending = c.camera
  /\ c.status = "alive" /\ ~c.scheduled => c.native.camera = c.camera

SurfaceKept(c) ==
  c.status = "alive" =>
    /\ c.native.surface = c.surface
    /\ c.surface /\ c.size > 0 => c.native.size = c.size

(* Recorded layers f and the renderer's g.                                 *)
Agree(owns, f, g) ==
  /\ DOMAIN g \subseteq DOMAIN f \cup {BaseLayer}
  /\ owns => \A id \in DOMAIN f : id \in DOMAIN g /\ g[id] = f[id]

LayersKept(c) ==
  c.status = "alive" => Agree(c.owns, c.layers, c.native.layers)

Quiet(c) ==
  c.status # "alive" =>
    /\ ~c.posted /\ ~c.surface /\ c.animation = None /\ c.fit = None
    /\ c.observers = {} /\ c.attached = None

ControllerOK(c) ==
  /\ c \in Controller
  /\ c.native # None <=> c.status = "alive"
  /\ c.owns <=> c.config # None
  /\ c.fit # None => c.size = 0
  /\ CameraKept(c) /\ SurfaceKept(c) /\ LayersKept(c) /\ Quiet(c)

(* The parts of a record that a method leaves alone.                       *)
SameBinding(c, d) ==
  /\ d.status = c.status /\ d.owns = c.owns
  /\ d.attached = c.attached /\ d.observers = c.observers
SameScreen(c, d) ==
  /\ d.surface = c.surface /\ d.size = c.size
SameLayers(c, d) == d.layers = c.layers /\ d.native.layers = c.native.layers
SameConfig(c, d) == d.config = c.config
SamePost(c, d) ==
  d.pending = c.pending /\ d.scheduled = c.scheduled /\ d.posted = c.posted

(* A camera that moves is announced.                                       *)
Announced(c, d) == d.announce \/ (d.camera = c.camera /\ d.announce = c.announce)

---------------------------------------------------------------------------
(* Single assignments to the fields of a record.                           *)

LEMMA CameraFieldsTyped ==
  ASSUME NEW c \in Controller
  PROVE  /\ \A x \in Cameras : [c EXCEPT !.camera = x] \in Controller
         /\ \A x \in Animation \cup {None} : [c EXCEPT !.animation = x] \in Controller
         /\ \A x \in Fit \cup {None} : [c EXCEPT !.fit = x] \in Controller
         /\ \A x \in Cameras \cup {None} : [c EXCEPT !.pending = x] \in Controller
         /\ \A x \in BOOLEAN : [c EXCEPT !.scheduled = x] \in Controller
         /\ \A x \in BOOLEAN : [c EXCEPT !.posted = x] \in Controller
         /\ \A x \in BOOLEAN : [c EXCEPT !.announce = x] \in Controller
  BY DEF Controller

LEMMA OtherFieldsTyped ==
  ASSUME NEW c \in Controller
  PROVE  /\ \A x \in BOOLEAN : [c EXCEPT !.surface = x] \in Controller
         /\ \A x \in Sizes \cup {0} : [c EXCEPT !.size = x] \in Controller
         /\ \A x \in LayerMap : [c EXCEPT !.layers = x] \in Controller
         /\ \A x \in Native \cup {None} : [c EXCEPT !.native = x] \in Controller
         /\ \A x \in Configs \cup {None} : [c EXCEPT !.config = x] \in Controller
         /\ \A x \in Views \cup {None} : [c EXCEPT !.attached = x] \in Controller
         /\ \A x \in SUBSET Views : [c EXCEPT !.observers = x] \in Controller
         /\ \A x \in {"free", "alive", "destroyed"} : [c EXCEPT !.status = x] \in Controller
  BY DEF Controller

(* scheduleCameraToNative and cancelScheduledNativeCameraPush.             *)
LEMMA Scheduled ==
  ASSUME NEW c \in Controller
  PROVE  LET d == ScheduleCamera(c)
         IN /\ d \in Controller
            /\ d.pending = c.camera /\ d.scheduled /\ d.posted = (c.posted \/ ~c.scheduled)
            /\ SameBinding(c, d) /\ SameScreen(c, d) /\ SameLayers(c, d) /\ SameConfig(c, d)
            /\ d.camera = c.camera /\ d.native = c.native /\ d.fit = c.fit
            /\ d.animation = c.animation /\ d.announce = c.announce
<1> DEFINE d == ScheduleCamera(c)
<1>1. d = [[[c EXCEPT !.pending = c.camera] EXCEPT !.scheduled = TRUE]
              EXCEPT !.posted = c.posted \/ ~c.scheduled]
  BY DEF ScheduleCamera
<1>2. c.camera \in Cameras \cup {None} /\ (c.posted \/ ~c.scheduled) \in BOOLEAN
  BY DEF Controller
<1>3. d \in Controller
  BY <1>1, <1>2, CameraFieldsTyped
<1>4. d.scheduled /\ d.posted = (c.posted \/ ~c.scheduled)
  BY <1>1 DEF Controller
<1> QED
  BY <1>1, <1>3, <1>4 DEF Controller, SameBinding, SameScreen, SameLayers, SameConfig

LEMMA Cancelled ==
  ASSUME NEW c \in Controller
  PROVE  LET d == CancelScheduled(c)
         IN /\ d \in Controller
            /\ d.pending = None /\ ~d.scheduled /\ d.posted = (c.posted /\ ~c.scheduled)
            /\ SameBinding(c, d) /\ SameScreen(c, d) /\ SameLayers(c, d) /\ SameConfig(c, d)
            /\ d.camera = c.camera /\ d.native = c.native /\ d.fit = c.fit
            /\ d.animation = c.animation /\ d.announce = c.announce
<1> DEFINE d == CancelScheduled(c)
<1>1. d = [[[c EXCEPT !.pending = None] EXCEPT !.scheduled = FALSE]
              EXCEPT !.posted = c.posted /\ ~c.scheduled]
  BY DEF CancelScheduled
<1>2. (c.posted /\ ~c.scheduled) \in BOOLEAN
  BY DEF Controller
<1>3. d \in Controller
  BY <1>1, <1>2, CameraFieldsTyped
<1>4. ~d.scheduled /\ d.posted = (c.posted /\ ~c.scheduled)
  BY <1>1 DEF Controller
<1> QED
  BY <1>1, <1>3, <1>4 DEF Controller, SameBinding, SameScreen, SameLayers, SameConfig

(* setCamera of the renderer.                                              *)
LEMMA Pushed ==
  ASSUME NEW c \in Controller, c.native # None, NEW camera \in Cameras
  PROVE  LET d == PushCamera(c, camera)
         IN /\ d \in Controller /\ d.native \in Native
            /\ d.native.camera = camera /\ d.native.surface = c.native.surface
            /\ d.native.size = c.native.size
            /\ SameBinding(c, d) /\ SameScreen(c, d) /\ SameLayers(c, d) /\ SameConfig(c, d)
            /\ SamePost(c, d)
            /\ d.camera = c.camera /\ d.fit = c.fit
            /\ d.animation = c.animation /\ d.announce = c.announce
<1> DEFINE n == [c.native EXCEPT !.camera = camera]
           d == [c EXCEPT !.native = n]
<1>1. c.native \in Native
  BY DEF Controller
<1>2. /\ n \in Native /\ n.camera = camera /\ n.surface = c.native.surface
      /\ n.size = c.native.size /\ n.layers = c.native.layers
  BY <1>1 DEF Native
<1>3. PushCamera(c, camera) = d
  BY DEF PushCamera
<1>4. d \in Controller
  BY <1>2, OtherFieldsTyped
<1> HIDE DEF n
<1>5. d.native = n /\ SamePost(c, d)
  BY DEF Controller, SamePost
<1> QED
  BY <1>2, <1>3, <1>4, <1>5
     DEF Controller, SameBinding, SameScreen, SameLayers, SameConfig

---------------------------------------------------------------------------
(* The camera. What applyCamera leaves behind, and that it keeps the       *)
(* record in order.                                                        *)

(* What a method of a live controller may do to it.                        *)
Serves(c, d) ==
  /\ ControllerOK(d) /\ d.status = "alive"
  /\ SameBinding(c, d) /\ Announced(c, d)

LEMMA Applied ==
  ASSUME NEW c \in Controller, c.native # None, NEW camera \in Nat,
         c.posted = c.scheduled,
         NEW gesture \in BOOLEAN, NEW cancel \in BOOLEAN
  PROVE  LET d == ApplyCamera(c, camera, gesture, cancel)
         IN /\ d \in Controller /\ d.native # None
            /\ d.camera = Normalized(camera) /\ d.fit = None /\ d.announce
            /\ d.animation = IF cancel THEN None ELSE c.animation
            /\ d.native.surface = c.native.surface /\ d.native.size = c.native.size
            /\ CameraKept(d)
            /\ SameBinding(c, d) /\ SameScreen(c, d) /\ SameLayers(c, d) /\ SameConfig(c, d)
<1> DEFINE x == Normalized(camera)
           a == IF cancel THEN None ELSE c.animation
           moved == [[[[c EXCEPT !.animation = a] EXCEPT !.fit = None]
                        EXCEPT !.camera = x] EXCEPT !.announce = TRUE]
<1>1. x \in Cameras /\ a \in Animation \cup {None}
  BY ControllerAssumption DEF Normalized, Cameras, Controller
<1>2. x \in Cameras /\ x # None
  BY <1>1, ControllerAssumption DEF Cameras
<1>3. ApplyCamera(c, camera, gesture, cancel) =
        IF gesture THEN ScheduleCamera(moved)
                   ELSE PushCamera(CancelScheduled(moved), moved.camera)
  BY DEF ApplyCamera
<1> HIDE DEF x, a
<1>4. moved \in Controller
  BY <1>1, CameraFieldsTyped
<1>5. /\ moved.animation = a /\ moved.fit = None /\ moved.camera = x /\ moved.announce
      /\ moved.native = c.native
      /\ SameBinding(c, moved) /\ SameScreen(c, moved)
      /\ SameLayers(c, moved) /\ SameConfig(c, moved)
  BY DEF Controller, SameBinding, SameScreen, SameLayers, SameConfig
<1>6. moved.posted = moved.scheduled
  BY DEF Controller
<1> HIDE DEF moved
<1>7. CASE gesture
  <2> DEFINE d == ScheduleCamera(moved)
  <2>1. /\ d \in Controller /\ d.native = moved.native
        /\ d.pending = x /\ d.scheduled /\ d.posted
        /\ d.camera = x /\ d.fit = None /\ d.announce /\ d.animation = a
        /\ SameBinding(moved, d) /\ SameScreen(moved, d)
        /\ SameLayers(moved, d) /\ SameConfig(moved, d)
    BY <1>4, <1>5, <1>6, Scheduled
  <2> HIDE DEF d
  <2>2. CameraKept(d)
    BY <2>1, <1>2 DEF CameraKept, Controller
  <2> QED
    BY <1>3, <1>5, <1>7, <2>1, <2>2
       DEF SameBinding, SameScreen, SameLayers, SameConfig, x, a, d
<1>8. CASE ~gesture
  <2> DEFINE e == CancelScheduled(moved)
             d == PushCamera(e, x)
  <2>1. /\ e \in Controller /\ e.native = moved.native
        /\ e.pending = None /\ ~e.scheduled /\ ~e.posted
        /\ e.camera = x /\ e.fit = None /\ e.announce /\ e.animation = a
        /\ SameBinding(moved, e) /\ SameScreen(moved, e)
        /\ SameLayers(moved, e) /\ SameConfig(moved, e)
    BY <1>4, <1>5, <1>6, Cancelled
  <2> HIDE DEF e
  <2>2. e.native # None
    BY <2>1, <1>5
  <2>3. /\ d \in Controller /\ d.native \in Native
        /\ d.native.camera = x /\ d.native.surface = e.native.surface
        /\ d.native.size = e.native.size
        /\ SameBinding(e, d) /\ SameScreen(e, d) /\ SameLayers(e, d) /\ SameConfig(e, d)
        /\ SamePost(e, d)
        /\ d.camera = e.camera /\ d.fit = e.fit
        /\ d.animation = e.animation /\ d.announce = e.announce
    BY <2>1, <2>2, <1>2, Pushed
  <2> HIDE DEF d
  <2>4. CameraKept(d)
    BY <2>1, <2>3 DEF CameraKept, SamePost, Controller
  <2>5. d.native # None
    BY <2>3, NoneAssumption
  <2>6. ApplyCamera(c, camera, gesture, cancel) = d
    BY <1>3, <1>5, <1>8 DEF d, e
  <2>7. /\ d.camera = x /\ d.fit = None /\ d.animation = a
        /\ d.native.surface = c.native.surface /\ d.native.size = c.native.size
        /\ SameScreen(c, d) /\ SameLayers(c, d) /\ SameConfig(c, d)
    BY <1>5, <2>1, <2>3 DEF SameScreen, SameLayers, SameConfig
  <2>8. d.announce
    BY <2>1, <2>3
  <2>9. SameBinding(c, d)
    BY <1>5, <2>1, <2>3 DEF SameBinding
  <2> QED
    BY <2>3, <2>4, <2>5, <2>6, <2>7, <2>8, <2>9 DEF x, a
<1> QED
  BY <1>7, <1>8

(* ... without touching the screen or the configuration.                   *)
Handles(c, d) == Serves(c, d) /\ SameScreen(c, d) /\ SameConfig(c, d)

LEMMA HandlesTwice ==
  ASSUME NEW c, NEW d, NEW e, Handles(c, d), Handles(d, e)
  PROVE  Handles(c, e)
<1>1. Announced(c, e)
  BY DEF Handles, Serves, Announced
<1>2. SameBinding(c, e) /\ SameScreen(c, e) /\ SameConfig(c, e)
  BY DEF Handles, Serves, SameBinding, SameScreen, SameConfig
<1> QED
  BY <1>1, <1>2 DEF Handles, Serves

LEMMA HandlesNothing ==
  ASSUME NEW c, ControllerOK(c), c.status = "alive"
  PROVE  Handles(c, c)
  BY DEF Handles, Serves, Announced, SameBinding, SameScreen, SameConfig

LEMMA LayersStay ==
  ASSUME NEW c, NEW d, LayersKept(c), SameLayers(c, d), d.owns = c.owns,
         c.status = "alive"
  PROVE  LayersKept(d)
  BY DEF LayersKept, SameLayers

LEMMA AppliedHandles ==
  ASSUME NEW c, ControllerOK(c), c.status = "alive", NEW camera \in Nat,
         NEW gesture \in BOOLEAN, NEW cancel \in BOOLEAN
  PROVE  LET d == ApplyCamera(c, camera, gesture, cancel)
         IN /\ Handles(c, d)
            /\ d.animation = IF cancel THEN None ELSE c.animation
            /\ d.fit = None
<1> DEFINE d == ApplyCamera(c, camera, gesture, cancel)
<1>1. /\ c \in Controller /\ c.native # None /\ c.posted = c.scheduled
      /\ SurfaceKept(c) /\ LayersKept(c)
  BY DEF ControllerOK, CameraKept
<1>2. /\ d \in Controller /\ d.native # None
      /\ d.camera = Normalized(camera) /\ d.fit = None /\ d.announce
      /\ d.animation = IF cancel THEN None ELSE c.animation
      /\ d.native.surface = c.native.surface /\ d.native.size = c.native.size
      /\ CameraKept(d)
      /\ SameBinding(c, d) /\ SameScreen(c, d) /\ SameLayers(c, d) /\ SameConfig(c, d)
  BY <1>1, Applied
<1> HIDE DEF d
<1>3. d.status = "alive" /\ d.owns = c.owns /\ d.config = c.config
  BY <1>2 DEF SameBinding, SameConfig
<1>4. SurfaceKept(d)
  BY <1>1, <1>2 DEF SurfaceKept, SameScreen
<1>5. LayersKept(d)
  BY <1>1, <1>2, <1>3, LayersStay
<1>6. Quiet(d)
  BY <1>3 DEF Quiet
<1>7. ControllerOK(d)
  BY <1>2, <1>3, <1>4, <1>5, <1>6 DEF ControllerOK
<1> QED
  BY <1>2, <1>3, <1>7 DEF Handles, Serves, Announced, d

(* An animation or a waiting fitBounds that comes or goes.                 *)
LEMMA AnimationChanges ==
  ASSUME NEW c, ControllerOK(c), c.status = "alive",
         NEW a \in Animation \cup {None}
  PROVE  Handles(c, [c EXCEPT !.animation = a])
<1> DEFINE d == [c EXCEPT !.animation = a]
<1>1. c \in Controller
  BY DEF ControllerOK
<1>2. d \in Controller
  BY <1>1, CameraFieldsTyped
<1>3. /\ SameBinding(c, d) /\ SameScreen(c, d) /\ SameLayers(c, d) /\ SameConfig(c, d)
      /\ SamePost(c, d) /\ d.camera = c.camera /\ d.native = c.native /\ d.fit = c.fit
      /\ d.announce = c.announce
  BY <1>1 DEF Controller, SameBinding, SameScreen, SameLayers, SameConfig, SamePost
<1> HIDE DEF d
<1>4. CameraKept(d) /\ SurfaceKept(d) /\ Quiet(d)
  BY <1>3 DEF ControllerOK, CameraKept, SurfaceKept, Quiet, SamePost, SameScreen, SameBinding
<1>5. LayersKept(d)
  BY <1>3, LayersStay DEF ControllerOK, SameBinding
<1>6. ControllerOK(d)
  BY <1>2, <1>3, <1>4, <1>5 DEF ControllerOK, SameBinding, SameScreen, SameConfig
<1> QED
  BY <1>3, <1>6 DEF Handles, Serves, Announced, SameBinding, d

LEMMA FitChanges ==
  ASSUME NEW c, ControllerOK(c), c.status = "alive",
         NEW f \in Fit \cup {None}, f # None => c.size = 0
  PROVE  /\ Handles(c, [c EXCEPT !.fit = f])
         /\ [c EXCEPT !.fit = f].fit = f
<1> DEFINE d == [c EXCEPT !.fit = f]
<1>1. c \in Controller
  BY DEF ControllerOK
<1>2. d \in Controller
  BY <1>1, CameraFieldsTyped
<1>3. /\ SameBinding(c, d) /\ SameScreen(c, d) /\ SameLayers(c, d) /\ SameConfig(c, d)
      /\ SamePost(c, d) /\ d.camera = c.camera /\ d.native = c.native
      /\ d.animation = c.animation /\ d.announce = c.announce /\ d.fit = f
  BY <1>1 DEF Controller, SameBinding, SameScreen, SameLayers, SameConfig, SamePost
<1> HIDE DEF d
<1>4. CameraKept(d) /\ SurfaceKept(d) /\ Quiet(d)
  BY <1>3 DEF ControllerOK, CameraKept, SurfaceKept, Quiet, SamePost, SameScreen, SameBinding
<1>5. LayersKept(d)
  BY <1>3, LayersStay DEF ControllerOK, SameBinding
<1>6. ControllerOK(d)
  BY <1>2, <1>3, <1>4, <1>5 DEF ControllerOK, SameBinding, SameScreen, SameConfig
<1> QED
  BY <1>3, <1>6 DEF Handles, Serves, Announced, SameBinding, d

LEMMA CameraMethodsHandle ==
  ASSUME NEW c, ControllerOK(c), c.status = "alive", NEW camera \in Nat
  PROVE  /\ Handles(c, SetCamera(c, camera)) /\ SetCamera(c, camera).fit = None
         /\ Handles(c, GestureCamera(c, camera))
         /\ Handles(c, AnimateCamera(c, camera)) /\ AnimateCamera(c, camera).fit = None
         /\ Handles(c, AnimationFrame(c, camera))
<1> DEFINE end == Normalized(camera)
           applied == ApplyCamera(c, c.camera, FALSE, FALSE)
           a == [from |-> c.camera, to |-> end]
<1>1. end \in Cameras /\ end \in Nat /\ c.camera \in Cameras /\ c.camera \in Nat
  BY ControllerAssumption DEF Normalized, Cameras, ControllerOK, Controller
<1>2. \A x \in Nat : /\ Handles(c, SetCamera(c, x)) /\ SetCamera(c, x).fit = None
                     /\ Handles(c, GestureCamera(c, x))
                     /\ Handles(c, AnimationFrame(c, x))
  BY AppliedHandles DEF SetCamera, GestureCamera, AnimationFrame
<1>3. Handles(c, AnimateCamera(c, camera)) /\ AnimateCamera(c, camera).fit = None
  <2>1. CASE c.camera = end
    BY <2>1, <1>1, <1>2 DEF AnimateCamera
  <2>2. CASE c.camera # end
    <3>1. Handles(c, applied) /\ applied.fit = None
      BY <1>1, AppliedHandles
    <3>2. AnimateCamera(c, camera) = [applied EXCEPT !.animation = a]
      BY <2>2 DEF AnimateCamera
    <3>3. a \in Animation \cup {None}
      BY <1>1 DEF Animation
    <3> HIDE DEF applied, a
    <3>4. ControllerOK(applied) /\ applied.status = "alive"
      BY <3>1 DEF Handles, Serves
    <3>5. Handles(applied, [applied EXCEPT !.animation = a])
      BY <3>3, <3>4, AnimationChanges
    <3>6. [applied EXCEPT !.animation = a].fit = None
      BY <3>1, <3>4 DEF ControllerOK, Controller
    <3> QED
      BY <3>1, <3>2, <3>5, <3>6, HandlesTwice
  <2> QED
    BY <2>1, <2>2
<1> QED
  BY <1>2, <1>3

LEMMA AnimationEndHandles ==
  ASSUME NEW c, ControllerOK(c), c.status = "alive", c.animation # None
  PROVE  Handles(c, AnimationEnd(c))
<1> DEFINE applied == ApplyCamera(c, c.animation.to, FALSE, FALSE)
<1>1. c.animation.to \in Nat
  BY ControllerAssumption DEF ControllerOK, Controller, Animation, Cameras
<1>2. Handles(c, applied)
  BY <1>1, AppliedHandles
<1>3. AnimationEnd(c) = [applied EXCEPT !.animation = None]
  BY DEF AnimationEnd
<1> HIDE DEF applied
<1>4. Handles(applied, [applied EXCEPT !.animation = None])
  BY <1>2, AnimationChanges DEF Handles, Serves
<1> QED
  BY <1>2, <1>3, <1>4, HandlesTwice

LEMMA StopAnimationHandles ==
  ASSUME NEW c, ControllerOK(c), c.status = "alive"
  PROVE  Handles(c, StopAnimation(c))
<1> DEFINE d == [c EXCEPT !.fit = None]
<1>1. Handles(c, d)
  BY FitChanges
<1>2. StopAnimation(c) = [d EXCEPT !.animation = None]
  BY DEF StopAnimation
<1> HIDE DEF d
<1>3. Handles(d, [d EXCEPT !.animation = None])
  BY <1>1, AnimationChanges DEF Handles, Serves
<1> QED
  BY <1>1, <1>2, <1>3, HandlesTwice

(* fitBounds waits exactly while the size is unknown.                      *)
LEMMA FitBoundsHandles ==
  ASSUME NEW c, ControllerOK(c), c.status = "alive",
         NEW bounds \in Bounds, NEW animate \in BOOLEAN
  PROVE  Handles(c, FitBounds(c, bounds, animate))
<1> DEFINE unfit == [c EXCEPT !.fit = None]
           waiting == [bounds |-> bounds, animate |-> animate]
           fitted == Fitted(c, bounds)
<1>1. CASE c.size = 0
  <2>1. waiting \in Fit \cup {None}
    BY DEF Fit
  <2> HIDE DEF waiting
  <2>2. Handles(c, [c EXCEPT !.fit = waiting])
    BY <1>1, <2>1, FitChanges
  <2> QED
    BY <1>1, <2>2 DEF FitBounds, waiting
<1>2. CASE c.size # 0
  <2>1. c.size \in Sizes
    BY <1>2 DEF ControllerOK, Controller
  <2>2. fitted \in Nat
    <3>1. FitCamera[bounds] \in [Sizes -> 0..MaxZoom]
      BY ControllerAssumption
    <3>2. FitCamera[bounds][c.size] \in 0..MaxZoom
      BY <2>1, <3>1
    <3> QED
      BY <3>2, ControllerAssumption DEF Fitted
  <2>3. Handles(c, unfit)
    BY FitChanges
  <2> HIDE DEF unfit, fitted
  <2>4. Handles(unfit, AnimateCamera(unfit, fitted)) /\ Handles(unfit, SetCamera(unfit, fitted))
    BY <2>2, <2>3, CameraMethodsHandle DEF Handles, Serves
  <2>5. FitBounds(c, bounds, animate) =
          IF animate THEN AnimateCamera(unfit, fitted) ELSE SetCamera(unfit, fitted)
    BY <1>2 DEF FitBounds, unfit, fitted
  <2> QED
    BY <2>3, <2>4, <2>5, HandlesTwice
<1> QED
  BY <1>1, <1>2

(* A fit that no longer waits is applied.                                  *)
LEMMA PendingFitHandles ==
  ASSUME NEW c \in Controller, ControllerOK([c EXCEPT !.fit = None]),
         c.status = "alive"
  PROVE  Handles([c EXCEPT !.fit = None], ApplyPendingFitBounds(c))
<1> DEFINE unfit == [c EXCEPT !.fit = None]
           d == ApplyPendingFitBounds(c)
<1>1. /\ unfit.status = "alive" /\ unfit.size = c.size
      /\ c.fit \in Fit \cup {None}
      /\ [unfit EXCEPT !.fit = c.fit] = c
  BY DEF Controller
<1>2. d = IF c.fit = None \/ c.size = 0 THEN c
          ELSE FitBounds(unfit, c.fit.bounds, c.fit.animate)
  BY DEF ApplyPendingFitBounds
<1> HIDE DEF unfit, d
<1>3. ControllerOK(unfit)
  BY DEF unfit
<1>4. CASE c.fit = None \/ c.size = 0
  <2>1. Handles(unfit, [unfit EXCEPT !.fit = c.fit])
    BY <1>1, <1>3, <1>4, FitChanges
  <2> QED
    BY <1>1, <1>2, <1>4, <2>1 DEF unfit, d
<1>5. CASE c.fit # None /\ c.size # 0
  <2>1. c.fit.bounds \in Bounds /\ c.fit.animate \in BOOLEAN
    BY <1>1, <1>5 DEF Fit
  <2> QED
    BY <1>1, <1>2, <1>3, <1>5, <2>1, FitBoundsHandles DEF unfit, d
<1> QED
  BY <1>4, <1>5

(* The frame that brings the scheduled camera to the renderer.             *)
LEMMA CameraFrameHandles ==
  ASSUME NEW c, ControllerOK(c), c.posted
  PROVE  c.status = "alive" /\ Handles(c, CameraFrame(c))
<1> DEFINE fired == [[[c EXCEPT !.posted = FALSE] EXCEPT !.scheduled = FALSE]
                       EXCEPT !.pending = None]
           d == PushCamera(fired, c.camera)
<1>1. c.status = "alive" /\ c.native # None /\ c \in Controller
  BY DEF ControllerOK, Quiet
<1>2. c.pending = c.camera /\ c.pending # None /\ c.camera \in Cameras
  BY <1>1 DEF ControllerOK, CameraKept, Controller
<1>3. CameraFrame(c) = d
  BY <1>2 DEF CameraFrame
<1>4. fired \in Controller
  BY <1>1, CameraFieldsTyped
<1>5. /\ ~fired.posted /\ ~fired.scheduled /\ fired.pending = None
      /\ SameBinding(c, fired) /\ SameScreen(c, fired) /\ SameLayers(c, fired)
      /\ SameConfig(c, fired)
      /\ fired.camera = c.camera /\ fired.native = c.native /\ fired.fit = c.fit
      /\ fired.announce = c.announce
  BY <1>1 DEF Controller, SameBinding, SameScreen, SameLayers, SameConfig
<1> HIDE DEF fired
<1>6. /\ d \in Controller /\ d.native \in Native
      /\ d.native.camera = c.camera /\ d.native.surface = fired.native.surface
      /\ d.native.size = fired.native.size
      /\ SameBinding(fired, d) /\ SameScreen(fired, d) /\ SameLayers(fired, d)
      /\ SameConfig(fired, d) /\ SamePost(fired, d)
      /\ d.camera = fired.camera /\ d.fit = fired.fit /\ d.announce = fired.announce
  BY <1>1, <1>2, <1>4, <1>5, Pushed
<1> HIDE DEF d
<1>7. /\ SameBinding(c, d) /\ SameScreen(c, d) /\ SameLayers(c, d) /\ SameConfig(c, d)
  BY <1>5, <1>6 DEF SameBinding, SameScreen, SameLayers, SameConfig
<1>8. d.native # None /\ d.status = "alive" /\ d.owns = c.owns
  BY <1>1, <1>6, <1>7, NoneAssumption DEF SameBinding
<1>9. CameraKept(d)
  BY <1>5, <1>6, <1>8 DEF CameraKept, SamePost, Controller
<1>10. SurfaceKept(d)
  BY <1>1, <1>5, <1>6, <1>7 DEF ControllerOK, SurfaceKept, SameScreen
<1>11. LayersKept(d)
  BY <1>1, <1>7, <1>8, LayersStay DEF ControllerOK
<1>12. ControllerOK(d)
  BY <1>5, <1>6, <1>7, <1>8, <1>9, <1>10, <1>11
     DEF ControllerOK, Quiet, SameScreen, SameConfig
<1> QED
  BY <1>1, <1>3, <1>5, <1>6, <1>7, <1>8, <1>12 DEF Handles, Serves, Announced

---------------------------------------------------------------------------
(* The surface and the configuration.                                      *)

LEMMA Resized ==
  ASSUME NEW c \in Controller, c.native # None
  PROVE  LET d == PushResizeIfReady(c)
         IN /\ d \in Controller /\ d.native \in Native
            /\ d.native.camera = c.native.camera /\ d.native.surface = c.native.surface
            /\ d.native.size = IF c.surface /\ c.size > 0 THEN c.size ELSE c.native.size
            /\ SameBinding(c, d) /\ SameScreen(c, d) /\ SameLayers(c, d) /\ SameConfig(c, d)
            /\ SamePost(c, d)
            /\ d.camera = c.camera /\ d.fit = c.fit
            /\ d.animation = c.animation /\ d.announce = c.announce
<1> DEFINE n == [c.native EXCEPT !.size = c.size]
           e == [c EXCEPT !.native = n]
<1>1. c.native \in Native /\ c.size \in Sizes \cup {0}
  BY DEF Controller
<1>2. /\ n \in Native /\ n.camera = c.native.camera /\ n.surface = c.native.surface
      /\ n.size = c.size /\ n.layers = c.native.layers
  BY <1>1 DEF Native
<1>3. PushResizeIfReady(c) = IF c.surface /\ c.size > 0 THEN e ELSE c
  BY DEF PushResizeIfReady
<1>4. e \in Controller
  BY <1>2, OtherFieldsTyped
<1> HIDE DEF n
<1>5. e.native = n /\ SamePost(c, e)
  BY DEF Controller, SamePost
<1>6. /\ SameBinding(c, e) /\ SameScreen(c, e) /\ SameLayers(c, e) /\ SameConfig(c, e)
      /\ e.camera = c.camera /\ e.fit = c.fit
      /\ e.animation = c.animation /\ e.announce = c.announce
  BY <1>2, <1>5 DEF Controller, SameBinding, SameScreen, SameLayers, SameConfig
<1> HIDE DEF e
<1>7. CASE c.surface /\ c.size > 0
  BY <1>2, <1>3, <1>4, <1>5, <1>6, <1>7
<1>8. CASE ~(c.surface /\ c.size > 0)
  BY <1>1, <1>3, <1>8
     DEF SameBinding, SameScreen, SameLayers, SameConfig, SamePost
<1> QED
  BY <1>7, <1>8

(* The renderer's own surface is set or cleared.                           *)
LEMMA SurfaceSet ==
  ASSUME NEW c \in Controller, c.native # None, NEW s \in BOOLEAN
  PROVE  LET d == [c EXCEPT !.surface = s, !.native.surface = s]
         IN /\ d \in Controller /\ d.native \in Native
            /\ d.surface = s /\ d.native.surface = s
            /\ d.native.camera = c.native.camera
            /\ d.native.size = c.native.size
            /\ d.size = c.size
            /\ SameBinding(c, d) /\ SameLayers(c, d) /\ SameConfig(c, d)
            /\ SamePost(c, d)
            /\ d.camera = c.camera /\ d.fit = c.fit
            /\ d.animation = c.animation /\ d.announce = c.announce
<1> DEFINE n == [c.native EXCEPT !.surface = s]
           d == [[c EXCEPT !.surface = s] EXCEPT !.native = n]
<1>1. c.native \in Native
  BY DEF Controller
<1>2. /\ n \in Native /\ n.camera = c.native.camera /\ n.surface = s
      /\ n.size = c.native.size /\ n.layers = c.native.layers
  BY <1>1 DEF Native
<1>3. [c EXCEPT !.surface = s, !.native.surface = s] = d
  BY DEF Controller
<1>4. d \in Controller
  BY <1>2, OtherFieldsTyped
<1> HIDE DEF n
<1>5. d.native = n /\ SamePost(c, d)
  BY DEF Controller, SamePost
<1>6. d.surface = s
  BY DEF Controller
<1>7. /\ SameBinding(c, d) /\ SameLayers(c, d) /\ SameConfig(c, d) /\ d.size = c.size
      /\ d.camera = c.camera /\ d.fit = c.fit
      /\ d.animation = c.animation /\ d.announce = c.announce
  BY <1>2, <1>5 DEF Controller, SameBinding, SameLayers, SameConfig
<1> HIDE DEF d
<1> QED
  BY <1>2, <1>3, <1>4, <1>5, <1>6, <1>7

LEMMA SurfaceCreatedServes ==
  ASSUME NEW c, ControllerOK(c), c.status = "alive"
  PROVE  LET d == OnSurfaceCreated(c)
         IN /\ Serves(c, d) /\ SameConfig(c, d)
            /\ d.surface = TRUE /\ d.size = c.size
<1> DEFINE s == [c EXCEPT !.surface = TRUE, !.native.surface = TRUE]
           ready == [s EXCEPT !.announce = TRUE]
           r == PushResizeIfReady(ready)
           d == PushCamera(r, c.camera)
<1>1. c \in Controller /\ c.native # None /\ c.camera \in Cameras
  BY DEF ControllerOK, Controller
<1>2. OnSurfaceCreated(c) = d
  BY <1>1 DEF OnSurfaceCreated
<1>3. /\ s \in Controller /\ s.native \in Native
      /\ s.surface = TRUE /\ s.native.surface = TRUE
      /\ s.size = c.size /\ s.native.size = c.native.size
      /\ SameBinding(c, s) /\ SameLayers(c, s) /\ SameConfig(c, s) /\ SamePost(c, s)
      /\ s.camera = c.camera /\ s.fit = c.fit
  BY <1>1, SurfaceSet
<1> HIDE DEF s
<1>4. ready \in Controller
  BY <1>3, CameraFieldsTyped
<1>5. /\ ready.native = s.native /\ ready.announce
      /\ SameBinding(s, ready) /\ SameLayers(s, ready) /\ SameConfig(s, ready)
      /\ SamePost(s, ready) /\ SameScreen(s, ready)
      /\ ready.camera = s.camera /\ ready.fit = s.fit
  BY <1>3 DEF Controller, SameBinding, SameLayers, SameConfig, SamePost, SameScreen
<1> HIDE DEF ready
<1>6. ready.native # None /\ ready.surface
  BY <1>3, <1>5, NoneAssumption DEF SameScreen
<1>7. /\ r \in Controller /\ r.native \in Native
      /\ r.native.surface = TRUE
      /\ r.size > 0 => r.native.size = r.size
      /\ SameBinding(ready, r) /\ SameScreen(ready, r) /\ SameLayers(ready, r)
      /\ SameConfig(ready, r) /\ SamePost(ready, r)
      /\ r.camera = c.camera /\ r.fit = c.fit /\ r.announce
  <2>1. /\ r \in Controller /\ r.native \in Native
        /\ r.native.surface = ready.native.surface
        /\ r.native.size = IF ready.surface /\ ready.size > 0 THEN ready.size
                           ELSE ready.native.size
        /\ SameBinding(ready, r) /\ SameScreen(ready, r) /\ SameLayers(ready, r)
        /\ SameConfig(ready, r) /\ SamePost(ready, r)
        /\ r.camera = ready.camera /\ r.fit = ready.fit
        /\ r.announce = ready.announce
    BY <1>4, <1>6, Resized
  <2> HIDE DEF r
  <2>2. r.size = ready.size
    BY <2>1 DEF SameScreen
  <2> QED
    BY <1>3, <1>5, <1>6, <2>1, <2>2
<1> HIDE DEF r
<1>8. r.native # None
  BY <1>7, NoneAssumption
<1>9. /\ d \in Controller /\ d.native \in Native
      /\ d.native.camera = c.camera /\ d.native.surface = TRUE
      /\ d.native.size = r.native.size
      /\ SameBinding(r, d) /\ SameScreen(r, d) /\ SameLayers(r, d) /\ SameConfig(r, d)
      /\ SamePost(r, d)
      /\ d.camera = c.camera /\ d.fit = c.fit /\ d.announce
  BY <1>1, <1>7, <1>8, Pushed
<1> HIDE DEF d
<1>10. /\ SameBinding(c, d) /\ SameLayers(c, d) /\ SameConfig(c, d) /\ SamePost(c, d)
       /\ d.surface = TRUE /\ d.size = c.size
  BY <1>3, <1>5, <1>7, <1>9
     DEF SameBinding, SameLayers, SameConfig, SamePost, SameScreen
<1>11. d.native # None /\ d.status = "alive" /\ d.owns = c.owns
  BY <1>9, <1>10, NoneAssumption DEF SameBinding
<1>12. CameraKept(d)
  BY <1>9, <1>10, <1>11 DEF CameraKept, SamePost, ControllerOK
<1>13. SurfaceKept(d)
  BY <1>7, <1>9, <1>10 DEF SurfaceKept, SameScreen
<1>14. LayersKept(d)
  BY <1>10, <1>11, LayersStay DEF ControllerOK
<1>15. ControllerOK(d)
  BY <1>9, <1>10, <1>11, <1>12, <1>13, <1>14 DEF ControllerOK, Quiet, SameConfig
<1> QED
  BY <1>2, <1>9, <1>10, <1>11, <1>15 DEF Serves, Announced

LEMMA SurfaceChangedServes ==
  ASSUME NEW c, ControllerOK(c), c.status = "alive", NEW size \in Sizes
  PROVE  LET d == OnSurfaceChanged(c, size)
         IN /\ Serves(c, d) /\ SameConfig(c, d)
            /\ d.surface = c.surface /\ d.size = size
<1> DEFINE s == [c EXCEPT !.size = size]
           r == PushResizeIfReady(s)
           u == [r EXCEPT !.fit = None]
           d == ApplyPendingFitBounds(r)
<1>1. c \in Controller /\ c.native # None
  BY DEF ControllerOK
<1>2. OnSurfaceChanged(c, size) = d
  BY DEF OnSurfaceChanged
<1>3. s \in Controller
  BY <1>1, OtherFieldsTyped
<1>4. /\ s.native = c.native /\ s.size = size /\ s.surface = c.surface
      /\ SameBinding(c, s) /\ SameLayers(c, s) /\ SameConfig(c, s) /\ SamePost(c, s)
      /\ s.camera = c.camera /\ s.announce = c.announce
  BY <1>1 DEF Controller, SameBinding, SameLayers, SameConfig, SamePost
<1> HIDE DEF s
<1>5. /\ r \in Controller /\ r.native \in Native
      /\ r.native.camera = c.native.camera /\ r.native.surface = c.native.surface
      /\ r.native.size = IF s.surface /\ s.size > 0 THEN s.size ELSE s.native.size
      /\ SameBinding(s, r) /\ SameScreen(s, r) /\ SameLayers(s, r) /\ SameConfig(s, r)
      /\ SamePost(s, r)
      /\ r.camera = c.camera /\ r.announce = c.announce
  BY <1>1, <1>3, <1>4, Resized
<1> HIDE DEF r
<1>6. u \in Controller
  BY <1>5, CameraFieldsTyped
<1>7. /\ SameBinding(r, u) /\ SameScreen(r, u) /\ SameLayers(r, u) /\ SameConfig(r, u)
      /\ SamePost(r, u) /\ u.native = r.native /\ u.fit = None
      /\ u.camera = r.camera /\ u.announce = r.announce
  BY <1>5 DEF Controller, SameBinding, SameScreen, SameLayers, SameConfig, SamePost
<1> HIDE DEF u
<1>8. /\ SameBinding(c, u) /\ SameLayers(c, u) /\ SameConfig(c, u) /\ SamePost(c, u)
      /\ u.surface = c.surface /\ u.size = size /\ u.camera = c.camera
      /\ u.announce = c.announce
  BY <1>4, <1>5, <1>7
     DEF SameBinding, SameLayers, SameConfig, SamePost, SameScreen
<1>9. u.native # None /\ u.status = "alive" /\ u.owns = c.owns /\ r.status = "alive"
  BY <1>5, <1>7, <1>8, NoneAssumption DEF SameBinding
<1>10. CameraKept(u)
  BY <1>5, <1>7, <1>8, <1>9 DEF CameraKept, SamePost, ControllerOK
<1>11. SurfaceKept(u)
  <2>1. c.native.surface = c.surface
    BY DEF ControllerOK, SurfaceKept
  <2>2. u.native.surface = u.surface
    BY <2>1, <1>5, <1>7, <1>8
  <2>3. u.surface => u.native.size = u.size
    <3> SUFFICES ASSUME u.surface PROVE u.native.size = u.size
      OBVIOUS
    <3>1. s.surface /\ s.size > 0 /\ s.size = size
      BY <1>4, <1>8, ControllerAssumption
    <3> QED
      BY <3>1, <1>5, <1>7, <1>8
  <2> QED
    BY <2>2, <2>3 DEF SurfaceKept
<1>12. LayersKept(u)
  BY <1>8, <1>9, LayersStay DEF ControllerOK
<1>13. ControllerOK(u)
  BY <1>6, <1>7, <1>8, <1>9, <1>10, <1>11, <1>12 DEF ControllerOK, Quiet, SameConfig
<1>14. Handles(u, d)
  BY <1>5, <1>9, <1>13, PendingFitHandles DEF u
<1> HIDE DEF d
<1>15. Announced(c, d)
  BY <1>8, <1>14 DEF Handles, Serves, Announced
<1>16. SameBinding(c, d) /\ SameConfig(c, d) /\ d.surface = c.surface /\ d.size = size
  BY <1>8, <1>14 DEF Handles, Serves, SameBinding, SameConfig, SameScreen
<1> QED
  BY <1>2, <1>14, <1>15, <1>16 DEF Handles, Serves

LEMMA SurfaceDestroyedServes ==
  ASSUME NEW c, ControllerOK(c), c.status = "alive"
  PROVE  LET d == OnSurfaceDestroyed(c)
         IN /\ Serves(c, d) /\ SameConfig(c, d)
            /\ d.surface = FALSE /\ d.size = c.size
            /\ d.camera = c.camera /\ d.announce = c.announce
<1> DEFINE d == [c EXCEPT !.surface = FALSE, !.native.surface = FALSE]
<1>1. c \in Controller /\ c.native # None
  BY DEF ControllerOK
<1>2. OnSurfaceDestroyed(c) = d
  BY DEF OnSurfaceDestroyed
<1>3. /\ d \in Controller /\ d.native \in Native
      /\ d.surface = FALSE /\ d.native.surface = FALSE
      /\ d.native.camera = c.native.camera
      /\ d.size = c.size
      /\ SameBinding(c, d) /\ SameLayers(c, d) /\ SameConfig(c, d) /\ SamePost(c, d)
      /\ d.camera = c.camera /\ d.fit = c.fit /\ d.announce = c.announce
  BY <1>1, SurfaceSet
<1> HIDE DEF d
<1>4. d.native # None /\ d.status = "alive" /\ d.owns = c.owns
  BY <1>3, NoneAssumption DEF SameBinding
<1>5. CameraKept(d) /\ SurfaceKept(d)
  BY <1>3, <1>4 DEF CameraKept, SurfaceKept, SamePost, ControllerOK
<1>6. LayersKept(d)
  BY <1>3, <1>4, LayersStay DEF ControllerOK
<1>7. ControllerOK(d)
  BY <1>3, <1>4, <1>5, <1>6 DEF ControllerOK, Quiet, SameConfig
<1> QED
  BY <1>2, <1>3, <1>4, <1>7 DEF Serves, Announced

---------------------------------------------------------------------------
(* The layers.                                                             *)

LEMMA LayerMaps ==
  ASSUME NEW f
  PROVE  f \in LayerMap <=>
           /\ f = [id \in DOMAIN f |-> f[id]]
           /\ DOMAIN f \subseteq Layers \cup {BaseLayer}
           /\ \A id \in DOMAIN f : f[id] \in Layer
<1>1. ASSUME f \in LayerMap
      PROVE  /\ f = [id \in DOMAIN f |-> f[id]]
             /\ DOMAIN f \subseteq Layers \cup {BaseLayer}
             /\ \A id \in DOMAIN f : f[id] \in Layer
  <2>1. PICK ids \in SUBSET (Layers \cup {BaseLayer}) : f \in [ids -> Layer]
    BY <1>1 DEF LayerMap
  <2> QED
    BY <2>1
<1>2. ASSUME /\ f = [id \in DOMAIN f |-> f[id]]
             /\ DOMAIN f \subseteq Layers \cup {BaseLayer}
             /\ \A id \in DOMAIN f : f[id] \in Layer
      PROVE  f \in LayerMap
  <2>1. f \in [DOMAIN f -> Layer]
    BY <1>2
  <2> QED
    BY <1>2, <2>1 DEF LayerMap
<1> QED
  BY <1>1, <1>2

LEMMA NewNativeTyped ==
  /\ NewNative \in Native
  /\ NewNative.surface = FALSE /\ NewNative.size = 0 /\ NewNative.camera = 0
  /\ DOMAIN NewNative.layers = {BaseLayer}
<1> DEFINE opaque == [visible |-> TRUE, opacity |-> Opaque]
           base == [id \in {BaseLayer} |-> opaque]
<1>1. opaque \in Layer
  BY DEF Layer, Opaque
<1> HIDE DEF opaque
<1>2. base \in LayerMap
  BY <1>1, LayerMaps
<1>3. NewNative = [surface |-> FALSE, size |-> 0, camera |-> 0, layers |-> base]
  BY DEF NewNative, opaque
<1>4. 0 \in Cameras
  BY ControllerAssumption DEF Cameras
<1>5. DOMAIN base = {BaseLayer}
  OBVIOUS
<1> HIDE DEF base
<1> QED
  BY <1>2, <1>3, <1>4, <1>5 DEF Native

Layered(c, f, g) == [c EXCEPT !.layers = f, !.native.layers = g]

LEMMA LayersSet ==
  ASSUME NEW c \in Controller, c.native # None, NEW f \in LayerMap, NEW g \in LayerMap
  PROVE  LET d == Layered(c, f, g)
         IN /\ d \in Controller /\ d.native \in Native
            /\ d.layers = f /\ d.native.layers = g
            /\ d.native.camera = c.native.camera /\ d.native.surface = c.native.surface
            /\ d.native.size = c.native.size
            /\ SameBinding(c, d) /\ SameScreen(c, d) /\ SameConfig(c, d) /\ SamePost(c, d)
            /\ d.camera = c.camera /\ d.fit = c.fit
            /\ d.animation = c.animation /\ d.announce = c.announce
<1> DEFINE n == [c.native EXCEPT !.layers = g]
           d == [[c EXCEPT !.layers = f] EXCEPT !.native = n]
<1>1. c.native \in Native
  BY DEF Controller
<1>2. /\ n \in Native /\ n.camera = c.native.camera /\ n.surface = c.native.surface
      /\ n.size = c.native.size /\ n.layers = g
  BY <1>1 DEF Native
<1>3. Layered(c, f, g) = d
  BY DEF Controller, Layered
<1>4. d \in Controller
  BY <1>2, OtherFieldsTyped
<1> HIDE DEF n
<1>5. d.native = n /\ SamePost(c, d)
  BY DEF Controller, SamePost
<1>6. /\ SameBinding(c, d) /\ SameScreen(c, d) /\ SameConfig(c, d) /\ d.layers = f
      /\ d.camera = c.camera /\ d.fit = c.fit
      /\ d.animation = c.animation /\ d.announce = c.announce
  BY <1>5 DEF Controller, SameBinding, SameScreen, SameConfig
<1> HIDE DEF d
<1> QED
  BY <1>2, <1>3, <1>4, <1>5, <1>6

(* The renderer's layers still agree with the recorded ones.               *)
LEMMA LayersHandle ==
  ASSUME NEW c, ControllerOK(c), c.status = "alive",
         NEW f \in LayerMap, NEW g \in LayerMap,
         Agree(c.owns, f, g)
  PROVE  Handles(c, Layered(c, f, g))
<1> DEFINE d == Layered(c, f, g)
<1>1. c \in Controller /\ c.native # None
  BY DEF ControllerOK
<1>2. /\ d \in Controller /\ d.native \in Native
      /\ d.layers = f /\ d.native.layers = g
      /\ d.native.camera = c.native.camera /\ d.native.surface = c.native.surface
      /\ d.native.size = c.native.size
      /\ SameBinding(c, d) /\ SameScreen(c, d) /\ SameConfig(c, d) /\ SamePost(c, d)
      /\ d.camera = c.camera /\ d.fit = c.fit
      /\ d.animation = c.animation /\ d.announce = c.announce
  BY <1>1, LayersSet
<1> HIDE DEF d
<1>3. d.native # None /\ d.status = "alive" /\ d.owns = c.owns
  BY <1>2, NoneAssumption DEF SameBinding
<1>4. CameraKept(d) /\ SurfaceKept(d)
  BY <1>2, <1>3 DEF CameraKept, SurfaceKept, SamePost, SameScreen, ControllerOK
<1>5. LayersKept(d)
  BY <1>2, <1>3 DEF LayersKept
<1>6. ControllerOK(d)
  BY <1>2, <1>3, <1>4, <1>5 DEF ControllerOK, Quiet, SameScreen, SameConfig
<1> QED
  BY <1>2, <1>3, <1>6 DEF Handles, Serves, Announced, d

LEMMA RecreateServes ==
  ASSUME NEW c \in Controller, c.native # None, c.status = "alive", c.owns, c.config # None,
         c.fit # None => c.size = 0,
         c.posted = c.scheduled, c.scheduled <=> c.pending # None,
         c.scheduled => c.pending = c.camera
  PROVE  LET d == RecreateNativeRenderer(c)
         IN /\ Serves(c, d) /\ SameScreen(c, d) /\ SameConfig(c, d)
<1> DEFINE quiet == [c EXCEPT !.animation = None]
           bare == [quiet EXCEPT !.native = NewNative]
           replayed == [id \in DOMAIN NewNative.layers \cup DOMAIN c.layers |->
                          IF id \in DOMAIN c.layers THEN c.layers[id]
                          ELSE NewNative.layers[id]]
           fresh == Layered(bare, c.layers, replayed)
           lit == [fresh EXCEPT !.surface = TRUE, !.native.surface = TRUE]
           shown == IF c.surface THEN PushResizeIfReady(lit) ELSE fresh
           sent == [shown EXCEPT !.announce = TRUE]
           pushed == PushCamera(sent, c.camera)
<1>1. c.layers \in LayerMap /\ c.camera \in Cameras /\ NewNative \in Native
  BY NewNativeTyped DEF Controller
<1>2. replayed \in LayerMap
  <2>1. NewNative.layers \in LayerMap
    BY <1>1 DEF Native
  <2> QED
    BY <1>1, <2>1, LayerMaps
<1>3. /\ DOMAIN replayed \subseteq DOMAIN c.layers \cup {BaseLayer}
      /\ \A id \in DOMAIN c.layers : id \in DOMAIN replayed /\ replayed[id] = c.layers[id]
  BY NewNativeTyped
<1>4. quiet \in Controller
  BY CameraFieldsTyped
<1>5. bare \in Controller
  BY <1>1, <1>4, OtherFieldsTyped
<1>6. /\ bare.native = NewNative /\ bare.layers = c.layers /\ bare.announce = c.announce
      /\ SameBinding(c, bare) /\ SameScreen(c, bare) /\ SameConfig(c, bare)
      /\ SamePost(c, bare) /\ bare.camera = c.camera /\ bare.fit = c.fit
  BY DEF Controller, SameBinding, SameScreen, SameConfig, SamePost
<1>7. ReplayLayerState(bare) = fresh
  <2>1. ReplayLayerState(bare) = [bare EXCEPT !.native.layers = replayed]
    BY <1>6 DEF ReplayLayerState
  <2> HIDE DEF replayed
  <2>2. [bare EXCEPT !.layers = bare.layers] = bare
    BY <1>5 DEF Controller
  <2> QED
    BY <1>6, <2>1, <2>2 DEF Layered

<1> HIDE DEF quiet, bare, replayed
<1>8. bare.native # None /\ bare.surface = c.surface
  BY <1>1, <1>6, NoneAssumption DEF SameScreen
<1>9. /\ fresh \in Controller /\ fresh.native \in Native
      /\ fresh.layers = c.layers /\ fresh.native.layers = replayed
      /\ fresh.native.surface = FALSE
      /\ SameBinding(bare, fresh) /\ SameScreen(bare, fresh) /\ SameConfig(bare, fresh)
      /\ SamePost(bare, fresh)
      /\ fresh.camera = c.camera /\ fresh.fit = c.fit /\ fresh.announce = c.announce
  BY <1>1, <1>2, <1>5, <1>6, <1>8, LayersSet, NewNativeTyped
<1> HIDE DEF fresh
<1>10. /\ fresh.native # None
       /\ SameBinding(c, fresh) /\ SameScreen(c, fresh) /\ SameConfig(c, fresh)
       /\ SamePost(c, fresh)
  BY <1>6, <1>9, NoneAssumption DEF SameBinding, SameScreen, SameConfig, SamePost
<1>11. c.surface => lit = [fresh EXCEPT !.native.surface = TRUE]
  <2> SUFFICES ASSUME c.surface PROVE lit = [fresh EXCEPT !.native.surface = TRUE]
    OBVIOUS
  <2>1. fresh.surface = TRUE
    BY <1>10 DEF SameScreen, Controller
  <2>2. [fresh EXCEPT !.surface = TRUE] = fresh
    BY <1>9, <2>1 DEF Controller
  <2> QED
    BY <2>2
<1>12. /\ lit \in Controller /\ lit.native \in Native /\ lit.native # None
       /\ lit.surface = TRUE /\ lit.native.surface = TRUE /\ lit.size = fresh.size
       /\ SameBinding(fresh, lit) /\ SameLayers(fresh, lit) /\ SameConfig(fresh, lit)
       /\ SamePost(fresh, lit)
       /\ lit.camera = fresh.camera /\ lit.fit = fresh.fit /\ lit.announce = fresh.announce
  BY <1>9, <1>10, SurfaceSet, NoneAssumption
<1> HIDE DEF lit
<1>13. /\ shown \in Controller /\ shown.native \in Native
       /\ shown.native.surface = shown.surface
       /\ shown.surface /\ shown.size > 0 => shown.native.size = shown.size
       /\ shown.layers = c.layers /\ shown.native.layers = replayed
       /\ SameBinding(c, shown) /\ SameScreen(c, shown) /\ SameConfig(c, shown)
       /\ SamePost(c, shown)
       /\ shown.camera = c.camera /\ shown.fit = c.fit /\ shown.announce = c.announce
  <2>1. CASE c.surface
    <3> DEFINE r == PushResizeIfReady(lit)
    <3>1. /\ r \in Controller /\ r.native \in Native
          /\ r.native.surface = TRUE
          /\ r.native.size = IF lit.surface /\ lit.size > 0 THEN lit.size
                                                            ELSE lit.native.size
          /\ SameBinding(lit, r) /\ SameScreen(lit, r) /\ SameLayers(lit, r)
          /\ SameConfig(lit, r) /\ SamePost(lit, r)
          /\ r.camera = lit.camera /\ r.fit = lit.fit /\ r.announce = lit.announce
      BY <1>12, Resized
    <3> HIDE DEF r
    <3>2. SameBinding(c, r) /\ SameConfig(c, r) /\ SamePost(c, r)
      BY <1>10, <1>12, <3>1 DEF SameBinding, SameConfig, SamePost
    <3>3. c.surface = TRUE
      BY <2>1 DEF Controller
    <3>4. SameScreen(c, r) /\ r.surface = TRUE
      BY <3>3, <1>10, <1>12, <3>1 DEF SameScreen
    <3>5. r.layers = c.layers /\ r.native.layers = replayed
      BY <1>9, <1>12, <3>1 DEF SameLayers
    <3>6. r.size > 0 => r.native.size = r.size
      BY <1>12, <3>1 DEF SameScreen
    <3>7. shown = r
      BY <2>1 DEF r
    <3> HIDE DEF shown
    <3> QED
      BY <1>9, <1>12, <3>1, <3>2, <3>4, <3>5, <3>6, <3>7
  <2>2. CASE ~c.surface
    <3>1. c.surface = FALSE
      BY <2>2 DEF Controller
    <3>2. fresh.surface = FALSE
      BY <3>1, <1>10 DEF SameScreen
    <3>3. shown = fresh
      BY <2>2
    <3> HIDE DEF shown
    <3> QED
      BY <1>9, <1>10, <3>2, <3>3
  <2> QED
    BY <2>1, <2>2
<1> HIDE DEF shown
<1>14. sent \in Controller
  BY <1>13, CameraFieldsTyped
<1>15. /\ sent.native = shown.native /\ sent.announce
       /\ SameBinding(shown, sent) /\ SameLayers(shown, sent) /\ SameConfig(shown, sent)
       /\ SamePost(shown, sent) /\ SameScreen(shown, sent)
       /\ sent.camera = shown.camera /\ sent.fit = shown.fit
  BY <1>13 DEF Controller, SameBinding, SameLayers, SameConfig, SamePost, SameScreen
<1> HIDE DEF sent
<1>16. sent.native # None
  BY <1>13, <1>15, NoneAssumption
<1>17. /\ pushed \in Controller /\ pushed.native \in Native
       /\ pushed.native.camera = c.camera
       /\ pushed.native.surface = sent.native.surface
       /\ pushed.native.size = sent.native.size
       /\ SameBinding(sent, pushed) /\ SameScreen(sent, pushed) /\ SameLayers(sent, pushed)
       /\ SameConfig(sent, pushed) /\ SamePost(sent, pushed)
       /\ pushed.camera = c.camera /\ pushed.fit = c.fit /\ pushed.announce
  BY <1>1, <1>13, <1>14, <1>15, <1>16, Pushed
<1> HIDE DEF pushed
<1>18. /\ SameBinding(c, pushed) /\ SameScreen(c, pushed) /\ SameConfig(c, pushed)
       /\ SamePost(c, pushed)
       /\ pushed.layers = c.layers /\ pushed.native.layers = replayed
  BY <1>13, <1>15, <1>17
     DEF SameBinding, SameScreen, SameConfig, SamePost, SameLayers
<1>19. pushed.native # None /\ pushed.status = "alive" /\ pushed.owns
  BY <1>17, <1>18, NoneAssumption DEF SameBinding
<1>20. CameraKept(pushed)
  BY <1>17, <1>18, <1>19 DEF CameraKept, SamePost
<1>21. SurfaceKept(pushed)
  BY <1>13, <1>15, <1>17 DEF SurfaceKept, SameScreen
<1>22. LayersKept(pushed)
  BY <1>3, <1>18 DEF LayersKept, Agree
<1>23. pushed.config # None /\ (pushed.fit # None => pushed.size = 0)
  BY <1>17, <1>18 DEF SameConfig, SameScreen
<1>24. ControllerOK(pushed)
  BY <1>17, <1>19, <1>20, <1>21, <1>22, <1>23 DEF ControllerOK, Quiet
<1> DEFINE unfit == [pushed EXCEPT !.fit = None]
           d == ApplyPendingFitBounds(pushed)
<1>25. Handles(pushed, unfit)
  BY <1>19, <1>24, FitChanges
<1>26. ControllerOK(unfit)
  BY <1>25 DEF Handles, Serves
<1>27. Handles(unfit, d)
  BY <1>17, <1>19, <1>26, PendingFitHandles
<1>28. Handles(pushed, d)
  BY <1>25, <1>27, HandlesTwice
<1>29. RecreateNativeRenderer(c) = d
  <2>1. RecreateNativeRenderer(c) = 
          LET f == ReplayLayerState([c EXCEPT !.animation = None, !.native = NewNative])
              g == IF c.surface THEN PushResizeIfReady([f EXCEPT !.native.surface = TRUE])
                                ELSE f
          IN ApplyPendingFitBounds(PushCamera([g EXCEPT !.announce = TRUE], c.camera))
    BY DEF RecreateNativeRenderer
  <2>2. [c EXCEPT !.animation = None, !.native = NewNative] = bare
    BY DEF bare, quiet
  <2> QED
    BY <2>1, <2>2, <1>7, <1>11 DEF fresh, shown, sent, pushed
<1> HIDE DEF d, unfit
<1>30. Announced(c, d)
  BY <1>17, <1>28 DEF Handles, Serves, Announced
<1>31. SameBinding(c, d) /\ SameScreen(c, d) /\ SameConfig(c, d)
  BY <1>18, <1>28 DEF Handles, Serves, SameBinding, SameScreen, SameConfig
<1> QED
  BY <1>28, <1>29, <1>30, <1>31 DEF Handles, Serves

LEMMA UpdateConfigServes ==
  ASSUME NEW c, ControllerOK(c), c.status = "alive", c.owns, NEW config \in Configs
  PROVE  LET d == UpdateRendererConfig(c, config)
         IN Serves(c, d) /\ SameScreen(c, d) /\ d.config = config
<1> DEFINE k == [c EXCEPT !.config = config]
           d == RecreateNativeRenderer(k)
<1>1. CASE c.config = config
  BY <1>1, HandlesNothing DEF UpdateRendererConfig, Handles
<1>2. CASE c.config # config
  <2>1. c \in Controller /\ c.native # None
    BY DEF ControllerOK
  <2>2. k \in Controller
    BY <2>1, OtherFieldsTyped
  <2>3. /\ k.native = c.native /\ k.config = config
        /\ SameBinding(c, k) /\ SameScreen(c, k) /\ SamePost(c, k)
        /\ k.camera = c.camera /\ k.fit = c.fit /\ k.announce = c.announce
    BY <2>1 DEF Controller, SameBinding, SameScreen, SamePost
  <2> HIDE DEF k
  <2>4. config # None
    BY ControllerAssumption
  <2>5. /\ k.status = "alive" /\ k.owns
        /\ k.fit # None => k.size = 0
        /\ k.posted = k.scheduled /\ (k.scheduled <=> k.pending # None)
        /\ k.scheduled => k.pending = k.camera
    BY <2>3 DEF ControllerOK, CameraKept, SameBinding, SameScreen, SamePost
  <2>6. Serves(k, d) /\ SameScreen(k, d) /\ SameConfig(k, d)
    BY <2>1, <2>2, <2>3, <2>4, <2>5, RecreateServes
  <2>7. UpdateRendererConfig(c, config) = d
    BY <1>2 DEF UpdateRendererConfig, k
  <2> HIDE DEF d
  <2>8. Announced(c, d)
    BY <2>3, <2>6 DEF Serves, Announced
  <2>9. SameBinding(c, d) /\ SameScreen(c, d) /\ d.config = config
    BY <2>3, <2>6 DEF Serves, SameBinding, SameScreen, SameConfig
  <2> QED
    BY <2>6, <2>7, <2>8, <2>9 DEF Serves
<1> QED
  BY <1>1, <1>2

LEMMA LayerAdded ==
  ASSUME NEW f \in LayerMap, NEW id \in Layers, NEW layer \in Layer
  PROVE  /\ With(f, id, layer) \in LayerMap
         /\ DOMAIN With(f, id, layer) = DOMAIN f \cup {id}
         /\ \A x \in DOMAIN f \cup {id} :
              With(f, id, layer)[x] = IF x = id THEN layer ELSE f[x]
<1>1. /\ DOMAIN f \subseteq Layers \cup {BaseLayer}
      /\ \A x \in DOMAIN f : f[x] \in Layer
  BY LayerMaps
<1>2. With(f, id, layer) \in LayerMap
  BY <1>1, LayerMaps DEF With
<1> QED
  BY <1>2 DEF With

LEMMA LayerRemoved ==
  ASSUME NEW f \in LayerMap, NEW id \in Layers
  PROVE  /\ Without(f, id) \in LayerMap
         /\ DOMAIN Without(f, id) = DOMAIN f \ {id}
         /\ \A x \in DOMAIN f \ {id} : Without(f, id)[x] = f[x]
<1>1. /\ DOMAIN f \subseteq Layers \cup {BaseLayer}
      /\ \A x \in DOMAIN f : f[x] \in Layer
  BY LayerMaps
<1>2. Without(f, id) \in LayerMap
  BY <1>1, LayerMaps DEF Without, Restrict
<1> QED
  BY <1>2 DEF Without, Restrict

LEMMA AgreeingChanges ==
  ASSUME NEW owns, NEW f \in LayerMap, NEW g \in LayerMap, Agree(owns, f, g),
         NEW id \in Layers
  PROVE  /\ \A layer \in Layer :
              /\ Agree(owns, With(f, id, layer), With(g, id, layer))
              /\ ~owns => Agree(owns, With(f, id, layer), g)
         /\ Agree(owns, Without(f, id), Without(g, id))
<1>1. ASSUME NEW layer \in Layer
      PROVE  /\ Agree(owns, With(f, id, layer), With(g, id, layer))
             /\ ~owns => Agree(owns, With(f, id, layer), g)
  <2> DEFINE f2 == With(f, id, layer)
             g2 == With(g, id, layer)
  <2>1. /\ DOMAIN f2 = DOMAIN f \cup {id}
        /\ \A x \in DOMAIN f \cup {id} : f2[x] = IF x = id THEN layer ELSE f[x]
    BY LayerAdded
  <2>2. /\ DOMAIN g2 = DOMAIN g \cup {id}
        /\ \A x \in DOMAIN g \cup {id} : g2[x] = IF x = id THEN layer ELSE g[x]
    BY LayerAdded
  <2> HIDE DEF f2, g2
  <2>3. Agree(owns, f2, g2) /\ (~owns => Agree(owns, f2, g))
    BY <2>1, <2>2 DEF Agree
  <2> QED
    BY <2>3 DEF f2, g2
<1>2. Agree(owns, Without(f, id), Without(g, id))
  <2> DEFINE f2 == Without(f, id)
             g2 == Without(g, id)
  <2>1. DOMAIN f2 = DOMAIN f \ {id} /\ \A x \in DOMAIN f \ {id} : f2[x] = f[x]
    BY LayerRemoved
  <2>2. DOMAIN g2 = DOMAIN g \ {id} /\ \A x \in DOMAIN g \ {id} : g2[x] = g[x]
    BY LayerRemoved
  <2> HIDE DEF f2, g2
  <2>3. Agree(owns, f2, g2)
    BY <2>1, <2>2 DEF Agree
  <2> QED
    BY <2>3 DEF f2, g2
<1> QED
  BY <1>1, <1>2

(* One layer is changed, if it is there.                                   *)
LEMMA AgreeingEdits ==
  ASSUME NEW owns, NEW f \in LayerMap, NEW g \in LayerMap, Agree(owns, f, g),
         NEW id, NEW edit \in [Layer -> Layer]
  PROVE  LET Edited(h) == IF id \in DOMAIN h THEN [h EXCEPT ![id] = edit[h[id]]] ELSE h
         IN /\ Edited(f) \in LayerMap /\ Edited(g) \in LayerMap
            /\ Agree(owns, Edited(f), Edited(g))
<1> DEFINE Edited(h) == IF id \in DOMAIN h THEN [h EXCEPT ![id] = edit[h[id]]] ELSE h
<1>1. ASSUME NEW h \in LayerMap
      PROVE  /\ Edited(h) \in LayerMap /\ DOMAIN Edited(h) = DOMAIN h
             /\ \A x \in DOMAIN h : Edited(h)[x] = IF x = id THEN edit[h[x]] ELSE h[x]
  <2>1. /\ DOMAIN h \subseteq Layers \cup {BaseLayer}
        /\ \A x \in DOMAIN h : h[x] \in Layer
        /\ h = [x \in DOMAIN h |-> h[x]]
    BY LayerMaps
  <2>2. DOMAIN Edited(h) = DOMAIN h
    BY <2>1
  <2>3. \A x \in DOMAIN h : Edited(h)[x] = IF x = id THEN edit[h[x]] ELSE h[x]
    BY <2>1
  <2>4. Edited(h) = [x \in DOMAIN Edited(h) |-> Edited(h)[x]]
    BY <2>1
  <2> HIDE DEF Edited
  <2>5. \A x \in DOMAIN Edited(h) : Edited(h)[x] \in Layer
    BY <2>1, <2>2, <2>3
  <2>6. Edited(h) \in LayerMap
    BY <2>1, <2>2, <2>4, <2>5, LayerMaps
  <2> QED
    BY <2>2, <2>3, <2>6
<1> HIDE DEF Edited
<1>2. Agree(owns, Edited(f), Edited(g))
  BY <1>1 DEF Agree
<1> QED
  BY <1>1, <1>2 DEF Edited

LEMMA LayerCallsHandle ==
  ASSUME NEW c, ControllerOK(c), c.status = "alive", NEW id \in Layers
  PROVE  /\ \A opacity \in Nat, template \in BOOLEAN :
              Handles(c, AddTileLayer(c, id, opacity, template))
         /\ Handles(c, RemoveLayer(c, id))
         /\ \A visible \in BOOLEAN : Handles(c, SetLayerVisible(c, id, visible))
         /\ \A opacity \in Nat : Handles(c, SetLayerOpacity(c, id, opacity))
<1> DEFINE f == c.layers
           g == c.native.layers
<1>1. /\ c \in Controller /\ c.native \in Native /\ f \in LayerMap /\ g \in LayerMap
      /\ Agree(c.owns, f, g)
  BY DEF ControllerOK, Controller, Native, LayersKept
<1>2. \A opacity \in Nat : Clamped(opacity) \in 0..Opaque
  BY DEF Clamped, Opaque
<1>4. ASSUME NEW opacity \in Nat, NEW template \in BOOLEAN
      PROVE  Handles(c, AddTileLayer(c, id, opacity, template))
  <2> DEFINE layer == [visible |-> id \in DOMAIN c.layers => c.layers[id].visible,
                       opacity |-> Clamped(opacity)]
             f2 == With(f, id, layer)
             g2 == With(g, id, layer)
             recorded == [c EXCEPT !.layers = f2]
  <2>1. layer \in Layer
    BY <1>1, <1>2, LayerMaps DEF Layer
  <2>2. AddTileLayer(c, id, opacity, template) =
          IF template \/ c.config # None
          THEN [recorded EXCEPT !.native = [recorded.native EXCEPT
                                              !.layers = With(recorded.native.layers, id, layer)]]
          ELSE recorded
    BY DEF AddTileLayer, NativeAdd
  <2> HIDE DEF layer
  <2>3. /\ f2 \in LayerMap /\ g2 \in LayerMap
        /\ Agree(c.owns, f2, g2)
        /\ ~c.owns => Agree(c.owns, f2, g)
    BY <1>1, <2>1, LayerAdded, AgreeingChanges
  <2>4. recorded.native = c.native
    BY <1>1 DEF Controller
  <2>5. Layered(c, f2, g) = recorded
    <3>1. [c.native EXCEPT !.layers = g] = c.native
      BY <1>1 DEF Native
    <3> HIDE DEF f2
    <3>2. Layered(c, f2, g) = [recorded EXCEPT !.native = [c.native EXCEPT !.layers = g]]
      BY <1>1 DEF Layered, Controller
    <3> QED
      BY <1>1, <2>4, <3>1, <3>2 DEF Controller
  <2>6. Layered(c, f2, g2) = [recorded EXCEPT !.native = [c.native EXCEPT !.layers = g2]]
    <3> HIDE DEF f2, g2
    <3> QED
      BY <1>1 DEF Layered, Controller
  <2>7. AddTileLayer(c, id, opacity, template) =
          IF template \/ c.config # None THEN Layered(c, f2, g2) ELSE Layered(c, f2, g)
    BY <2>2, <2>4, <2>5, <2>6
  <2>8. c.owns <=> c.config # None
    BY DEF ControllerOK
  <2> HIDE DEF f2, g2, f, g
  <2> QED
    BY <1>1, <2>3, <2>7, <2>8, LayersHandle
<1>5. Handles(c, RemoveLayer(c, id))
  <2> DEFINE f2 == Without(f, id)
             g2 == Without(g, id)
  <2>1. f2 \in LayerMap /\ g2 \in LayerMap
    BY <1>1, LayerRemoved
  <2>2. Agree(c.owns, f2, g2)
    BY <1>1, AgreeingChanges
  <2>3. RemoveLayer(c, id) = Layered(c, f2, g2)
    BY <1>1 DEF RemoveLayer, Layered, Controller
  <2> HIDE DEF f2, g2
  <2> QED
    BY <2>1, <2>2, <2>3, LayersHandle
<1>6. ASSUME NEW visible \in BOOLEAN
      PROVE  Handles(c, SetLayerVisible(c, id, visible))
  <2> DEFINE edit == [layer \in Layer |-> [layer EXCEPT !.visible = visible]]
             Edited(h) == IF id \in DOMAIN h THEN [h EXCEPT ![id] = edit[h[id]]] ELSE h
             Shown(h) == IF id \in DOMAIN h THEN [h EXCEPT ![id].visible = visible] ELSE h
             f2 == Edited(f)
             g2 == Edited(g)
  <2>1. edit \in [Layer -> Layer]
    BY DEF Layer
  <2>2. \A h \in LayerMap : Shown(h) = Edited(h)
    BY LayerMaps
  <2> HIDE DEF edit
  <2>3. f2 \in LayerMap /\ g2 \in LayerMap /\ Agree(c.owns, f2, g2)
    BY <1>1, <2>1, AgreeingEdits
  <2>4. SetLayerVisible(c, id, visible) = Layered(c, Shown(f), Shown(g))
    BY <1>1 DEF SetLayerVisible, Layered, Controller
  <2>5. SetLayerVisible(c, id, visible) = Layered(c, f2, g2)
    BY <1>1, <2>2, <2>4
  <2> HIDE DEF f2, g2
  <2> QED
    BY <2>3, <2>5, LayersHandle
<1>7. ASSUME NEW opacity \in Nat
      PROVE  Handles(c, SetLayerOpacity(c, id, opacity))
  <2> DEFINE o == Clamped(opacity)
             edit == [layer \in Layer |-> [layer EXCEPT !.opacity = o]]
             Edited(h) == IF id \in DOMAIN h THEN [h EXCEPT ![id] = edit[h[id]]] ELSE h
             Faded(h) == IF id \in DOMAIN h THEN [h EXCEPT ![id].opacity = o] ELSE h
             f2 == Edited(f)
             g2 == Edited(g)
  <2>1. edit \in [Layer -> Layer]
    BY <1>2 DEF Layer
  <2>2. \A h \in LayerMap : Faded(h) = Edited(h)
    BY LayerMaps
  <2> HIDE DEF edit
  <2>3. f2 \in LayerMap /\ g2 \in LayerMap /\ Agree(c.owns, f2, g2)
    BY <1>1, <2>1, AgreeingEdits
  <2>4. SetLayerOpacity(c, id, opacity) = Layered(c, Faded(f), Faded(g))
    BY <1>1 DEF SetLayerOpacity, Layered, Controller
  <2>5. SetLayerOpacity(c, id, opacity) = Layered(c, f2, g2)
    BY <1>1, <2>2, <2>4
  <2> HIDE DEF f2, g2
  <2> QED
    BY <2>3, <2>5, LayersHandle
<1> QED
  BY <1>4, <1>5, <1>6, <1>7

(* Every call of the app on a live controller.                             *)
LEMMA CalledHandles ==
  ASSUME NEW c, ControllerOK(c), c.status = "alive", NEW call \in Call
  PROVE  Handles(c, Called(c, call))
<1>1. CASE call.op = "SetCamera"
  <2>1. call.camera \in Nat
    BY <1>1 DEF Call
  <2> QED
    BY <1>1, <2>1, CameraMethodsHandle DEF Called
<1>2. CASE call.op = "AnimateCamera"
  <2>1. call.camera \in Nat
    BY <1>2 DEF Call
  <2> QED
    BY <1>2, <2>1, CameraMethodsHandle DEF Called
<1>3. CASE call.op = "FitBounds"
  <2>1. call.bounds \in Bounds /\ call.animate \in BOOLEAN
    BY <1>3 DEF Call
  <2> QED
    BY <1>3, <2>1, FitBoundsHandles DEF Called
<1>4. CASE call.op = "StopAnimation"
  BY <1>4, StopAnimationHandles DEF Called
<1>5. CASE call.op = "AddTileLayer"
  <2>1. call.id \in Layers /\ call.opacity \in Nat /\ call.hasTemplate \in BOOLEAN
    BY <1>5 DEF Call
  <2> QED
    BY <1>5, <2>1, LayerCallsHandle DEF Called
<1>6. CASE call.op = "RemoveLayer"
  <2>1. call.id \in Layers
    BY <1>6 DEF Call
  <2> QED
    BY <1>6, <2>1, LayerCallsHandle DEF Called
<1>7. CASE call.op = "SetLayerVisible"
  <2>1. call.id \in Layers /\ call.visible \in BOOLEAN
    BY <1>7 DEF Call
  <2> QED
    BY <1>7, <2>1, LayerCallsHandle DEF Called
<1>8. CASE call.op = "SetLayerOpacity"
  <2>1. call.id \in Layers /\ call.opacity \in Nat
    BY <1>8 DEF Call
  <2> QED
    BY <1>8, <2>1, LayerCallsHandle DEF Called
<1> QED
  BY <1>1, <1>2, <1>3, <1>4, <1>5, <1>6, <1>7, <1>8 DEF Call

---------------------------------------------------------------------------
(* The beginning and the end of a controller.                              *)

LEMMA NoLayersTyped == NoLayers \in LayerMap /\ DOMAIN NoLayers = {}
  BY LayerMaps DEF NoLayers

LEMMA FreeControllerOK ==
  /\ ControllerOK(FreeController)
  /\ FreeController.status = "free" /\ ~FreeController.announce
  /\ ~FreeController.surface /\ FreeController.observers = {}
  /\ FreeController.attached = None
<1>1. 0 \in Cameras /\ NoLayers \in LayerMap
  BY ControllerAssumption, NoLayersTyped DEF Cameras
<1>2. FreeController \in Controller
  BY <1>1 DEF FreeController, Controller
<1>3. /\ FreeController.status = "free" /\ ~FreeController.announce
      /\ FreeController.observers = {} /\ FreeController.attached = None
      /\ FreeController.owns = FALSE /\ FreeController.config = None
      /\ FreeController.animation = None /\ FreeController.fit = None
      /\ FreeController.pending = None /\ FreeController.native = None
  BY DEF FreeController
<1>4. /\ FreeController.scheduled = FALSE /\ FreeController.posted = FALSE
      /\ FreeController.surface = FALSE
  BY DEF FreeController
<1>5. CameraKept(FreeController) /\ Quiet(FreeController)
  BY <1>3, <1>4 DEF CameraKept, Quiet
<1>6. SurfaceKept(FreeController) /\ LayersKept(FreeController)
  BY <1>3 DEF SurfaceKept, LayersKept
<1> QED
  BY <1>2, <1>3, <1>4, <1>5, <1>6 DEF ControllerOK

LEMMA NewControllerOK ==
  ASSUME NEW config \in Configs \cup {None}
  PROVE  LET d == NewController(config)
         IN /\ ControllerOK(d) /\ d.status = "alive" /\ ~d.announce
            /\ d.surface = FALSE /\ d.size = 0 /\ d.config = config /\ d.camera = 0
            /\ d.observers = {} /\ d.attached = None
<1> DEFINE o == config # None
           d == [FreeController EXCEPT !.status = "alive", !.owns = o,
                                       !.config = config, !.native = NewNative]
           e == [[[[FreeController EXCEPT !.status = "alive"] EXCEPT !.owns = o]
                    EXCEPT !.config = config] EXCEPT !.native = NewNative]
<1>1. FreeController \in Controller
  BY FreeControllerOK DEF ControllerOK
<1>2. o \in BOOLEAN
  OBVIOUS
<1>3. NewController(config) = d
  BY DEF NewController
<1>4. d = e
  OBVIOUS
<1> HIDE DEF o
<1>5. e \in Controller
  <2>1. \A c \in Controller, x \in BOOLEAN : [c EXCEPT !.owns = x] \in Controller
    BY DEF Controller
  <2>2. NewNative \in Native
    BY NewNativeTyped
  <2> QED
    BY <1>1, <1>2, <2>1, <2>2, OtherFieldsTyped
<1>6. d \in Controller
  BY <1>4, <1>5
<1> HIDE DEF e
<1>7. /\ d.status = "alive" /\ d.config = config /\ d.native = NewNative
      /\ d.observers = {} /\ d.attached = None /\ d.pending = None /\ d.fit = None
      /\ d.camera = 0 /\ d.size = 0 /\ d.layers = NoLayers
  BY DEF FreeController
<1>8. d.owns = o
  BY DEF FreeController
<1>9. d.scheduled = FALSE /\ d.posted = FALSE /\ d.surface = FALSE /\ d.announce = FALSE
  BY DEF FreeController
<1> HIDE DEF d
<1>10. d.native # None
  BY <1>7, NewNativeTyped, NoneAssumption
<1>11. CameraKept(d) /\ SurfaceKept(d) /\ Quiet(d)
  BY <1>7, <1>9, NewNativeTyped DEF CameraKept, SurfaceKept, Quiet
<1>12. LayersKept(d)
  BY <1>7, NewNativeTyped, NoLayersTyped DEF LayersKept, Agree
<1>13. ControllerOK(d)
  BY <1>6, <1>7, <1>8, <1>10, <1>11, <1>12 DEF ControllerOK, o
<1> QED
  BY <1>3, <1>7, <1>9, <1>13

LEMMA DestroyOK ==
  ASSUME NEW c, ControllerOK(c), c.status = "alive"
  PROVE  LET d == Destroy(c)
         IN /\ ControllerOK(d) /\ d.status = "destroyed" /\ d.announce = c.announce
            /\ ~d.surface /\ d.observers = {} /\ d.attached = None
<1> DEFINE e == CancelScheduled(c)
           d == [[[[[[[e EXCEPT !.status = "destroyed"] EXCEPT !.animation = None]
                       EXCEPT !.fit = None] EXCEPT !.surface = FALSE]
                    EXCEPT !.native = None] EXCEPT !.observers = {}]
                  EXCEPT !.attached = None]
<1>1. c \in Controller
  BY DEF ControllerOK
<1>2. /\ e \in Controller
      /\ e.pending = None /\ ~e.scheduled /\ e.posted = (c.posted /\ ~c.scheduled)
      /\ e.owns = c.owns /\ e.config = c.config /\ e.announce = c.announce
  BY <1>1, Cancelled DEF SameBinding, SameConfig
<1>3. Destroy(c) = d
  BY DEF Destroy
<1>4. e.scheduled = FALSE /\ e.posted = FALSE
  BY <1>1, <1>2 DEF ControllerOK, CameraKept, Controller
<1> HIDE DEF e
<1>5. d \in Controller
  <2> DEFINE f == [[[e EXCEPT !.status = "destroyed"] EXCEPT !.animation = None]
                     EXCEPT !.fit = None]
             g == [[f EXCEPT !.surface = FALSE] EXCEPT !.native = None]
  <2>1. f \in Controller
    BY <1>2, CameraFieldsTyped, OtherFieldsTyped
  <2> HIDE DEF f
  <2>2. g \in Controller
    BY <2>1, CameraFieldsTyped, OtherFieldsTyped
  <2> HIDE DEF g
  <2>3. [[g EXCEPT !.observers = {}] EXCEPT !.attached = None] \in Controller
    BY <2>2, OtherFieldsTyped
  <2> QED
    BY <2>3 DEF f, g
<1>6. /\ d.status = "destroyed" /\ d.animation = None /\ d.fit = None
      /\ d.native = None /\ d.observers = {} /\ d.attached = None
      /\ d.pending = None /\ d.config = c.config
  BY <1>2 DEF Controller
<1>7. d.surface = FALSE /\ d.scheduled = FALSE /\ d.posted = FALSE
  BY <1>2, <1>4 DEF Controller
<1>8. d.owns = c.owns /\ d.announce = c.announce
  BY <1>2 DEF Controller
<1> HIDE DEF d
<1>9. /\ CameraKept(d) /\ SurfaceKept(d) /\ LayersKept(d) /\ Quiet(d)
  BY <1>6, <1>7 DEF CameraKept, SurfaceKept, LayersKept, Quiet
<1>10. ControllerOK(d)
  BY <1>5, <1>6, <1>8, <1>9 DEF ControllerOK
<1> QED
  BY <1>3, <1>6, <1>7, <1>8, <1>10

---------------------------------------------------------------------------
(* The world: what ties a view to its controllers.                         *)

WorldTyped(w) ==
  w \in [views : [Views -> View], ctl : [Controllers -> Controller],
         made : [Controllers -> {"app", "view", None}], crashed : BOOLEAN]

ControllersOK(w) ==
  \A k \in Controllers : ControllerOK(w.ctl[k]) /\ ~w.ctl[k].announce

(* The controller that the next call of the view uses.                     *)
Active(view) == IF view.external # None THEN view.external ELSE view.internal

BoundTied(w, v) ==
  LET view == w.views[v]
      c == w.ctl[view.bound]
  IN view.bound # None =>
       /\ view.bound = Active(view)
       /\ c.status = "alive" /\ c.attached = v /\ v \in c.observers

InternalTied(w, v) ==
  LET view == w.views[v]
  IN view.internal # None =>
       /\ view.external = None /\ view.bound = view.internal
       /\ w.made[view.internal] = "view"
       /\ w.ctl[view.internal].camera = view.defaultCamera

(* A managed controller may be destroyed behind the view's back.           *)
ExternalTied(w, v) ==
  LET view == w.views[v]
      c == w.ctl[view.external]
  IN /\ view.managed => view.external # None /\ UsesEngine
     /\ view.external # None =>
          /\ c.status # "free"
          /\ w.made[view.external] = IF view.managed THEN "view" ELSE "app"
          /\ ~view.managed => c.status = "alive"
          /\ c.status = "alive" => c.attached = v

Tied(w, v) == BoundTied(w, v) /\ InternalTied(w, v) /\ ExternalTied(w, v)

(* The controller shows what its view is.                                  *)
Shown(w, v) ==
  LET view == w.views[v]
  IN /\ view.bound # None =>
          /\ w.ctl[view.bound].surface <=> view.surfaceReady
          /\ view.size > 0 => w.ctl[view.bound].size = view.size
     /\ view.internal # None => w.ctl[view.internal].config = view.config

(* A controller has a surface and observers only while it is bound, and an *)
(* identity in use has a maker.                                            *)
Linked(w, k) ==
  LET c == w.ctl[k]
  IN /\ \A v \in c.observers : w.views[v].bound = k
     /\ c.surface => \E v \in Views : w.views[v].bound = k
     /\ c.status = "free" <=> w.made[k] = None

Owns(view, k) == view.internal = k \/ (view.external = k /\ view.managed)
Owned(w, k) ==
  w.ctl[k].status = "alive" /\ w.made[k] = "view" => \E v \in Views : Owns(w.views[v], k)

(* Everything is in order but what the views of S show.                    *)
InOrder(w, S) ==
  /\ WorldTyped(w) /\ ControllersOK(w)
  /\ \A v \in Views : Tied(w, v)
  /\ \A v \in Views \ S : Shown(w, v)
  /\ \A k \in Controllers : Linked(w, k) /\ Owned(w, k)

LEMMA ViewFieldsTyped ==
  ASSUME NEW view \in View
  PROVE  /\ \A x \in BOOLEAN : /\ [view EXCEPT !.surfaceReady = x] \in View
                              /\ [view EXCEPT !.managed = x] \in View
                              /\ [view EXCEPT !.fling = x] \in View
                              /\ [view EXCEPT !.window = x] \in View
         /\ \A x \in Sizes \cup {0} : [view EXCEPT !.size = x] \in View
         /\ \A x \in Configs : [view EXCEPT !.config = x] \in View
         /\ \A x \in Cameras : [view EXCEPT !.defaultCamera = x] \in View
         /\ \A x \in Controllers \cup {None} :
              /\ [view EXCEPT !.external = x] \in View
              /\ [view EXCEPT !.internal = x] \in View
              /\ [view EXCEPT !.bound = x] \in View
  BY DEF View

LEMMA WorldFields ==
  ASSUME NEW w, WorldTyped(w)
  PROVE  /\ w.views \in [Views -> View] /\ w.ctl \in [Controllers -> Controller]
         /\ w.made \in [Controllers -> {"app", "view", None}]
         /\ w.crashed \in BOOLEAN
  BY DEF WorldTyped

(* No other view refers to a live controller that is attached to v.        *)
LEMMA NotShared ==
  ASSUME NEW w, NEW u \in Views, Tied(w, u), NEW k,
         k # None, w.ctl[k].status = "alive", w.ctl[k].attached # u
  PROVE  w.views[u].bound # k /\ w.views[u].internal # k /\ w.views[u].external # k
  BY DEF Tied, BoundTied, InternalTied, ExternalTied

LEMMA NotFree ==
  ASSUME NEW w, NEW u \in Views, Tied(w, u), NEW k, k # None,
         w.ctl[k].status = "free"
  PROVE  w.views[u].bound # k /\ w.views[u].internal # k /\ w.views[u].external # k
  BY DEF Tied, BoundTied, InternalTied, ExternalTied

(* What update does to the world.                                          *)
LEMMA Updated ==
  ASSUME NEW w, WorldTyped(w), NEW k \in Controllers, NEW c \in Controller
  PROVE  LET u == Update(w, k, c)
         IN /\ WorldTyped(u) /\ u.made = w.made /\ u.crashed = w.crashed
            /\ u.ctl[k] = [c EXCEPT !.announce = FALSE]
            /\ \A j \in Controllers \ {k} : u.ctl[j] = w.ctl[j]
            /\ \A v \in Views :
                 u.views[v] = IF c.announce /\ v \in c.observers
                              THEN [w.views[v] EXCEPT !.defaultCamera = c.camera]
                              ELSE w.views[v]
<1> DEFINE d == [c EXCEPT !.announce = FALSE]
           vs == [v \in Views |-> IF c.announce /\ v \in c.observers
                                  THEN [w.views[v] EXCEPT !.defaultCamera = c.camera]
                                  ELSE w.views[v]]
           cs == [w.ctl EXCEPT ![k] = d]
           u == [w EXCEPT !.ctl = cs, !.views = vs]
<1>1. /\ w.views \in [Views -> View] /\ w.ctl \in [Controllers -> Controller]
  BY WorldFields
<1>2. d \in Controller
  BY CameraFieldsTyped
<1>3. vs \in [Views -> View]
  <2>1. \A v \in Views : [w.views[v] EXCEPT !.defaultCamera = c.camera] \in View
    BY <1>1, ViewFieldsTyped DEF Controller
  <2> QED
    BY <1>1, <2>1
<1>4. cs \in [Controllers -> Controller]
  BY <1>1, <1>2
<1>5. Update(w, k, c) = u
  BY <1>1 DEF Update, WorldTyped
<1>6. /\ cs[k] = d
      /\ \A j \in Controllers \ {k} : cs[j] = w.ctl[j]
  BY <1>1
<1> HIDE DEF cs, d
<1>7. \A v \in Views : vs[v] = IF c.announce /\ v \in c.observers
                               THEN [w.views[v] EXCEPT !.defaultCamera = c.camera]
                               ELSE w.views[v]
  OBVIOUS
<1> HIDE DEF vs
<1>8. WorldTyped(u)
  BY <1>3, <1>4 DEF WorldTyped
<1>9. u.made = w.made /\ u.crashed = w.crashed /\ u.ctl = cs /\ u.views = vs
  BY DEF WorldTyped
<1> HIDE DEF u
<1> QED
  BY <1>5, <1>6, <1>7, <1>8, <1>9 DEF d

LEMMA Silenced ==
  ASSUME NEW c, ControllerOK(c)
  PROVE  /\ ControllerOK([c EXCEPT !.announce = FALSE])
         /\ [c EXCEPT !.announce = FALSE].announce = FALSE
<1> DEFINE d == [c EXCEPT !.announce = FALSE]
<1>1. c \in Controller
  BY DEF ControllerOK
<1>2. d \in Controller
  BY <1>1, CameraFieldsTyped
<1>3. /\ SameBinding(c, d) /\ SameScreen(c, d) /\ SameLayers(c, d) /\ SameConfig(c, d)
      /\ SamePost(c, d) /\ d.camera = c.camera /\ d.native = c.native
      /\ d.animation = c.animation /\ d.fit = c.fit
  BY <1>1 DEF Controller, SameBinding, SameScreen, SameLayers, SameConfig, SamePost
<1>4. d.announce = FALSE
  BY <1>1 DEF Controller
<1> HIDE DEF d
<1>5. CameraKept(d) /\ SurfaceKept(d) /\ Quiet(d) /\ LayersKept(d)
  BY <1>3 DEF ControllerOK, CameraKept, SurfaceKept, Quiet, LayersKept, SamePost,
              SameScreen, SameBinding, SameLayers
<1>6. ControllerOK(d)
  BY <1>2, <1>3, <1>5 DEF ControllerOK, SameBinding, SameScreen, SameConfig
<1> QED
  BY <1>4, <1>6 DEF d

(* The fields of a view but the camera that it remembers.                  *)
SameView(a, b) ==
  /\ b.surfaceReady = a.surfaceReady /\ b.size = a.size /\ b.config = a.config
  /\ b.external = a.external /\ b.managed = a.managed
  /\ b.internal = a.internal /\ b.bound = a.bound

LEMMA Remembering ==
  ASSUME NEW view \in View, NEW x
  PROVE  LET after == [view EXCEPT !.defaultCamera = x]
         IN after.defaultCamera = x /\ SameView(view, after)
  BY DEF View, SameView

(* A controller that serves a call keeps the world in order, but for what  *)
(* is shown where it is bound.                                             *)
LEMMA ServedInOrder ==
  ASSUME NEW w, NEW S, InOrder(w, S), NEW k \in Controllers,
         NEW c, w.ctl[k].status = "alive", Serves(w.ctl[k], c),
         c.surface => \E v \in Views : w.views[v].bound = k,
         \A v \in Views \ S : w.views[v].bound = k =>
           SameScreen(w.ctl[k], c) /\ SameConfig(w.ctl[k], c)
  PROVE  LET u == Update(w, k, c)
         IN /\ InOrder(u, S) /\ u.crashed = w.crashed
            /\ u.ctl[k] = [c EXCEPT !.announce = FALSE]
            /\ \A v \in Views : SameView(w.views[v], u.views[v])
<1> DEFINE u == Update(w, k, c)
           d == u.ctl[k]
<1>1. /\ c \in Controller
      /\ WorldTyped(w) /\ ControllersOK(w)
  BY DEF Serves, ControllerOK, InOrder
<1>2. /\ WorldTyped(u) /\ u.made = w.made /\ u.crashed = w.crashed
      /\ d = [c EXCEPT !.announce = FALSE]
      /\ \A j \in Controllers \ {k} : u.ctl[j] = w.ctl[j]
      /\ \A v \in Views :
           u.views[v] = IF c.announce /\ v \in c.observers
                        THEN [w.views[v] EXCEPT !.defaultCamera = c.camera]
                        ELSE w.views[v]
  BY <1>1, Updated
<1>3. w.views \in [Views -> View] /\ w.ctl \in [Controllers -> Controller]
  BY <1>1, WorldFields
<1>4. /\ d.announce = FALSE /\ d.camera = c.camera /\ d.surface = c.surface /\ d.size = c.size
      /\ d.status = c.status /\ d.attached = c.attached /\ d.observers = c.observers
      /\ d.config = c.config
  BY <1>1, <1>2 DEF Controller
<1> HIDE DEF u
<1>5. ControllerOK(d) /\ d.announce = FALSE
  BY <1>2, Silenced DEF Serves
<1>6. /\ d.status = "alive" /\ d.attached = w.ctl[k].attached
      /\ d.observers = w.ctl[k].observers
      /\ c.observers = w.ctl[k].observers
  BY <1>4 DEF Serves, SameBinding
<1>7. ASSUME NEW v \in Views
      PROVE  /\ SameView(w.views[v], u.views[v])
             /\ v \in c.observers /\ c.announce => u.views[v].defaultCamera = c.camera
             /\ ~(v \in c.observers /\ c.announce) => u.views[v] = w.views[v]
  <2>1. w.views[v] \in View
    BY <1>3
  <2>2. CASE v \in c.observers /\ c.announce
    <3> DEFINE after == [w.views[v] EXCEPT !.defaultCamera = c.camera]
    <3>1. u.views[v] = after
      BY <1>2, <2>2
    <3>2. after.defaultCamera = c.camera /\ SameView(w.views[v], after)
      BY <2>1, Remembering
    <3> HIDE DEF after
    <3> QED
      BY <2>2, <3>1, <3>2
  <2>3. CASE ~(v \in c.observers /\ c.announce)
    BY <1>2, <2>3 DEF SameView
  <2> QED
    BY <2>2, <2>3
<1>9. ControllersOK(u)
  BY <1>1, <1>2, <1>5 DEF ControllersOK
<1>10. \A j \in Controllers : /\ u.ctl[j].status = w.ctl[j].status
                              /\ u.ctl[j].attached = w.ctl[j].attached
                              /\ u.ctl[j].observers = w.ctl[j].observers
  BY <1>2, <1>6
<1>11. ASSUME NEW v \in Views
       PROVE  Tied(u, v)
  <2>1. /\ w.views[v].bound \in Controllers \cup {None}
        /\ w.views[v].internal \in Controllers \cup {None}
        /\ w.views[v].external \in Controllers \cup {None}
    BY <1>3 DEF View
  <2>2. Tied(w, v) /\ SameView(w.views[v], u.views[v])
    BY <1>7 DEF InOrder
  <2>3. BoundTied(u, v)
    BY <1>10, <2>1, <2>2 DEF Tied, BoundTied, SameView, Active
  <2>4. ExternalTied(u, v)
    <3>1. /\ u.views[v].external = w.views[v].external
          /\ u.views[v].managed = w.views[v].managed
      BY <2>2 DEF SameView
    <3>2. ExternalTied(w, v)
      BY <2>2 DEF Tied
    <3> QED
      BY <1>2, <1>10, <2>1, <3>1, <3>2 DEF ExternalTied
  <2>5. InternalTied(u, v)
    <3> SUFFICES ASSUME w.views[v].internal # None
                 PROVE  u.ctl[w.views[v].internal].camera = u.views[v].defaultCamera
      BY <1>2, <2>2 DEF InternalTied, Tied, SameView
    <3>1. /\ w.views[v].bound = w.views[v].internal
          /\ w.ctl[w.views[v].internal].camera = w.views[v].defaultCamera
          /\ v \in w.ctl[w.views[v].internal].observers
      BY <2>2 DEF Tied, InternalTied, BoundTied
    <3>2. CASE w.views[v].internal = k
      <4>1. c.announce \/ c.camera = w.ctl[k].camera
        BY DEF Serves, Announced
      <4> QED
        BY <1>4, <1>6, <1>7, <3>1, <3>2, <4>1
    <3>3. CASE w.views[v].internal # k
      <4>1. Linked(w, k)
        BY DEF InOrder
      <4>2. v \notin c.observers
        BY <1>6, <3>1, <3>3, <4>1 DEF Linked
      <4> QED
        BY <1>2, <1>7, <2>1, <3>1, <3>3, <4>2
    <3> QED
      BY <3>2, <3>3
  <2> QED
    BY <2>3, <2>4, <2>5 DEF Tied
<1>12. ASSUME NEW v \in Views \ S
       PROVE  Shown(u, v)
  <2>1. /\ w.views[v].bound \in Controllers \cup {None}
        /\ w.views[v].internal \in Controllers \cup {None}
    BY <1>3 DEF View
  <2>2. Shown(w, v) /\ Tied(w, v) /\ SameView(w.views[v], u.views[v])
    BY <1>7 DEF InOrder
  <2>3. w.views[v].bound = k => SameScreen(w.ctl[k], d) /\ SameConfig(w.ctl[k], d)
    BY <1>4 DEF SameScreen, SameConfig
  <2>4. w.views[v].bound # k => w.views[v].internal # k
    BY <2>2, ViewAssumption, ControllerAssumption DEF Tied, InternalTied
  <2>5. CASE w.views[v].bound = k
    <3>1. k # None
      BY ViewAssumption, ControllerAssumption
    <3>2. u.views[v].bound = k /\ u.views[v].internal = w.views[v].internal
      BY <2>2, <2>5 DEF SameView
    <3>3. d.surface <=> u.views[v].surfaceReady
      BY <2>2, <2>3, <2>5, <3>1 DEF Shown, SameScreen, SameView
    <3>4. u.views[v].size > 0 => d.size = u.views[v].size
      BY <2>2, <2>3, <2>5, <3>1 DEF Shown, SameScreen, SameView
    <3>5. u.views[v].internal # None =>
            u.ctl[u.views[v].internal].config = u.views[v].config
      BY <2>2, <2>3, <2>5, <3>2 DEF Shown, SameConfig, SameView, Tied, InternalTied
    <3> QED
      BY <3>2, <3>3, <3>4, <3>5 DEF Shown
  <2>6. CASE w.views[v].bound # k
    BY <1>2, <2>1, <2>2, <2>4, <2>6 DEF Shown, SameView
  <2> QED
    BY <2>5, <2>6
<1>13. ASSUME NEW j \in Controllers
       PROVE  Linked(u, j) /\ Owned(u, j)
  <2>1. Linked(w, j) /\ Owned(w, j)
    BY DEF InOrder
  <2>2. \A v \in Views : u.views[v].bound = w.views[v].bound
    BY <1>7 DEF SameView
  <2>3. \A v \in w.ctl[j].observers : v \in Views
    BY <1>3 DEF Controller
  <2>4. u.ctl[j].surface => \E v \in Views : w.views[v].bound = j
    BY <1>2, <1>4, <2>1 DEF Linked
  <2>5. Linked(u, j)
    BY <1>2, <1>10, <2>1, <2>2, <2>3, <2>4 DEF Linked
  <2>6. Owned(u, j)
    BY <1>2, <1>7, <1>10, <2>1 DEF Owned, Owns, SameView
  <2> QED
    BY <2>5, <2>6
<1>14. InOrder(u, S)
  BY <1>2, <1>9, <1>11, <1>12, <1>13 DEF InOrder
<1> QED
  BY <1>2, <1>7, <1>14 DEF u

---------------------------------------------------------------------------
(* Binding.                                                                *)

(* The world with another view v and another controller k.                 *)
Edited(w, v, view, k, c) == [w EXCEPT !.ctl[k] = c, !.views[v] = view]

LEMMA EditedFields ==
  ASSUME NEW w, WorldTyped(w), NEW v \in Views, NEW view \in View,
         NEW k \in Controllers, NEW c \in Controller
  PROVE  LET u == Edited(w, v, view, k, c)
         IN /\ WorldTyped(u) /\ u.made = w.made /\ u.crashed = w.crashed
            /\ u.ctl[k] = c /\ \A j \in Controllers \ {k} : u.ctl[j] = w.ctl[j]
            /\ u.views[v] = view /\ \A x \in Views \ {v} : u.views[x] = w.views[x]
<1> DEFINE cs == [w.ctl EXCEPT ![k] = c]
           vs == [w.views EXCEPT ![v] = view]
           u == [w EXCEPT !.ctl = cs, !.views = vs]
<1>1. /\ w.views \in [Views -> View] /\ w.ctl \in [Controllers -> Controller]
  BY WorldFields
<1>2. cs \in [Controllers -> Controller] /\ vs \in [Views -> View]
  BY <1>1
<1>3. Edited(w, v, view, k, c) = u
  BY DEF Edited, WorldTyped
<1>4. /\ cs[k] = c /\ \A j \in Controllers \ {k} : cs[j] = w.ctl[j]
      /\ vs[v] = view /\ \A x \in Views \ {v} : vs[x] = w.views[x]
  BY <1>1
<1> HIDE DEF cs, vs
<1>5. WorldTyped(u) /\ u.made = w.made /\ u.crashed = w.crashed /\ u.ctl = cs /\ u.views = vs
  BY <1>2 DEF WorldTyped
<1> QED
  BY <1>3, <1>4, <1>5

(* Views that do not refer to k are as they were.                          *)
LEMMA OthersTied ==
  ASSUME NEW w, NEW u, WorldTyped(w), NEW k \in Controllers, NEW v \in Views,
         Tied(w, v), Shown(w, v), u.views[v] = w.views[v],
         w.views[v].bound # k, w.views[v].internal # k, w.views[v].external # k,
         \A j \in Controllers \ {k} : u.ctl[j] = w.ctl[j] /\ u.made[j] = w.made[j]
  PROVE  Tied(u, v) /\ Shown(u, v)
<1>1. /\ w.views[v].bound \in Controllers \cup {None}
      /\ w.views[v].internal \in Controllers \cup {None}
      /\ w.views[v].external \in Controllers \cup {None}
  BY WorldFields DEF View
<1>2. BoundTied(u, v)
  BY <1>1 DEF Tied, BoundTied
<1>3. InternalTied(u, v)
  BY <1>1 DEF Tied, InternalTied
<1>4. ExternalTied(u, v)
  BY <1>1 DEF Tied, ExternalTied
<1>5. Shown(u, v)
  BY <1>1 DEF Tied, InternalTied, Shown
<1> QED
  BY <1>2, <1>3, <1>4, <1>5 DEF Tied

(* Everything is in order but for the view v.                              *)
InOrderBut(w, v) ==
  /\ WorldTyped(w) /\ ControllersOK(w)
  /\ \A u \in Views \ {v} : Tied(w, u) /\ Shown(w, u)
  /\ \A k \in Controllers : Linked(w, k)

(* v is bound to nothing, and k is what it is going to be bound to.        *)
Ready(w, v, k) ==
  LET view == w.views[v]
  IN /\ InOrderBut(w, v)
     /\ \A j \in Controllers : Owned(w, j)
     /\ view.bound = None /\ k = Active(view)
     /\ view.internal # None =>
          /\ view.external = None /\ w.made[view.internal] = "view"
          /\ w.ctl[view.internal].status = "alive"
          /\ w.ctl[view.internal].camera = view.defaultCamera
          /\ w.ctl[view.internal].config = view.config
     /\ view.managed => view.external # None /\ UsesEngine
     /\ view.external # None =>
          /\ w.ctl[view.external].status # "free"
          /\ w.made[view.external] = IF view.managed THEN "view" ELSE "app"
          /\ ~view.managed => w.ctl[view.external].status = "alive"

(* Nobody is bound to a controller of which v is the only possible user.   *)
LEMMA Untaken ==
  ASSUME NEW w, NEW v \in Views, InOrderBut(w, v), w.views[v].bound = None,
         NEW k \in Controllers, w.ctl[k].attached \in {None, v}
  PROVE  w.ctl[k].surface = FALSE /\ w.ctl[k].observers = {}
<1>1. ASSUME NEW u \in Views PROVE w.views[u].bound # k
  <2>1. k # None /\ u # None
    BY ViewAssumption, ControllerAssumption
  <2> QED
    BY <2>1 DEF InOrderBut, Tied, BoundTied
<1>2. w.ctl[k] \in Controller
  BY WorldFields DEF InOrderBut
<1>3. Linked(w, k)
  BY DEF InOrderBut
<1> QED
  BY <1>1, <1>2, <1>3 DEF Linked, Controller

(* attachToView: the controller is the view's, its surface comes next.     *)
Held(w, v, k) ==
  [w EXCEPT !.ctl[k].attached = v, !.ctl[k].observers = @ \cup {v},
            !.views[v].bound = k]

LEMMA HeldInOrder ==
  ASSUME NEW w, NEW v \in Views, NEW k \in Controllers, Ready(w, v, k),
         w.ctl[k].status = "alive", w.ctl[k].attached \in {None, v}
  PROVE  LET u == Held(w, v, k)
         IN /\ InOrder(u, {v}) /\ u.crashed = w.crashed
            /\ u.views[v].bound = k
            /\ u.views[v].surfaceReady = w.views[v].surfaceReady
            /\ u.views[v].size = w.views[v].size
            /\ u.views[v].config = w.views[v].config
            /\ u.views[v].internal = w.views[v].internal
            /\ u.ctl[k].status = "alive" /\ u.ctl[k].surface = FALSE
            /\ u.ctl[k].config = w.ctl[k].config
<1> DEFINE c == [[w.ctl[k] EXCEPT !.attached = v] EXCEPT !.observers = {v}]
           view == [w.views[v] EXCEPT !.bound = k]
           u == Edited(w, v, view, k, c)
<1>1. /\ w.views \in [Views -> View] /\ w.ctl \in [Controllers -> Controller]
      /\ WorldTyped(w) /\ InOrderBut(w, v)
  BY WorldFields DEF Ready, InOrderBut
<1>2. w.ctl[k].surface = FALSE /\ w.ctl[k].observers = {}
  BY <1>1, Untaken DEF Ready
<1>3. Held(w, v, k) = u
  <2>1. c = [[w.ctl[k] EXCEPT !.attached = v] EXCEPT !.observers = w.ctl[k].observers \cup {v}]
    BY <1>2
  <2> HIDE DEF c
  <2> QED
    BY <1>1, <2>1 DEF Edited, WorldTyped, Held
<1>4. w.ctl[k] \in Controller /\ ControllerOK(w.ctl[k]) /\ ~w.ctl[k].announce
  BY <1>1 DEF InOrderBut, ControllersOK
<1>5. c \in Controller
  <2>1. v \in Views \cup {None} /\ {v} \in SUBSET Views
    OBVIOUS
  <2> QED
    BY <1>4, <2>1, OtherFieldsTyped
<1>6. /\ c.attached = v /\ c.observers = {v} /\ c.status = "alive"
      /\ SameScreen(w.ctl[k], c) /\ SameLayers(w.ctl[k], c) /\ SameConfig(w.ctl[k], c)
      /\ SamePost(w.ctl[k], c) /\ c.camera = w.ctl[k].camera /\ c.native = w.ctl[k].native
      /\ c.owns = w.ctl[k].owns /\ c.fit = w.ctl[k].fit /\ c.announce = w.ctl[k].announce
  BY <1>4 DEF Controller, SameScreen, SameLayers, SameConfig, SamePost
<1> HIDE DEF c
<1>7. ControllerOK(c)
  <2>1. CameraKept(c) /\ SurfaceKept(c) /\ Quiet(c) /\ LayersKept(c)
    BY <1>4, <1>6 DEF ControllerOK, CameraKept, SurfaceKept, Quiet, LayersKept, SamePost,
                      SameScreen, SameLayers
  <2> QED
    BY <1>4, <1>5, <1>6, <2>1 DEF ControllerOK, SameScreen, SameConfig
<1>8. view \in View
  BY <1>1, ViewFieldsTyped
<1>9. /\ view.bound = k /\ view.surfaceReady = w.views[v].surfaceReady
      /\ view.size = w.views[v].size /\ view.config = w.views[v].config
      /\ view.internal = w.views[v].internal /\ view.external = w.views[v].external
      /\ view.managed = w.views[v].managed
      /\ view.defaultCamera = w.views[v].defaultCamera
  BY <1>1 DEF View
<1> HIDE DEF view
<1>10. /\ WorldTyped(u) /\ u.made = w.made /\ u.crashed = w.crashed
       /\ u.ctl[k] = c /\ \A j \in Controllers \ {k} : u.ctl[j] = w.ctl[j]
       /\ u.views[v] = view /\ \A x \in Views \ {v} : u.views[x] = w.views[x]
  BY <1>1, <1>5, <1>8, EditedFields
<1> HIDE DEF u
<1>11. ControllersOK(u)
  BY <1>1, <1>4, <1>6, <1>7, <1>10 DEF ControllersOK, InOrderBut
<1>12. ASSUME NEW x \in Views \ {v}
       PROVE  Tied(u, x) /\ Shown(u, x)
  <2>1. Tied(w, x) /\ Shown(w, x)
    BY <1>1 DEF InOrderBut
  <2>2. w.ctl[k].attached # x /\ k # None
    BY ViewAssumption, ControllerAssumption
  <2>3. w.views[x].bound # k /\ w.views[x].internal # k /\ w.views[x].external # k
    BY <2>1, <2>2, NotShared
  <2> QED
    BY <1>1, <1>10, <2>1, <2>3, OthersTied
<1>13. Tied(u, v)
  <2>1. k = Active(view) /\ k # None
    BY <1>9, ViewAssumption, ControllerAssumption DEF Ready, Active
  <2>2. BoundTied(u, v)
    BY <1>6, <1>9, <1>10, <2>1 DEF BoundTied
  <2>3. InternalTied(u, v)
    <3> SUFFICES ASSUME view.internal # None
                 PROVE  /\ view.external = None /\ view.bound = view.internal
                        /\ u.made[view.internal] = "view"
                        /\ u.ctl[view.internal].camera = view.defaultCamera
      BY <1>10 DEF InternalTied
    <3>1. /\ w.views[v].external = None /\ w.made[view.internal] = "view"
          /\ w.ctl[view.internal].camera = view.defaultCamera
      BY <1>9 DEF Ready
    <3>2. view.internal = k
      BY <1>9, <2>1, <3>1 DEF Active
    <3> QED
      BY <1>6, <1>9, <1>10, <3>1, <3>2
  <2>4. ExternalTied(u, v)
    <3>1. /\ view.managed => view.external # None /\ UsesEngine
          /\ view.external # None => view.external = k
      BY <1>9, <2>1 DEF Ready, Active
    <3>2. view.external = k => w.made[k] = IF view.managed THEN "view" ELSE "app"
      BY <1>9, <2>1 DEF Ready
    <3>3. u.ctl[k].status = "alive" /\ u.ctl[k].attached = v /\ u.made = w.made
      BY <1>6, <1>10
    <3> QED
      BY <1>10, <2>1, <3>1, <3>2, <3>3 DEF ExternalTied
  <2> QED
    BY <2>2, <2>3, <2>4 DEF Tied
<1>14. ASSUME NEW j \in Controllers
       PROVE  Linked(u, j)
  <2>1. Linked(w, j) /\ w.ctl[j] \in Controller /\ j # None
    BY <1>1, ViewAssumption, ControllerAssumption DEF InOrderBut
  <2>2. CASE j = k
    BY <1>2, <1>6, <1>9, <1>10, <2>1, <2>2 DEF Linked, SameScreen
  <2>3. CASE j # k
    <3>1. v \notin w.ctl[j].observers
      BY <2>1 DEF Linked, Ready
    <3>2. \A x \in w.ctl[j].observers : u.views[x].bound = j
      BY <1>10, <2>1, <3>1 DEF Linked, Controller
    <3>3. w.ctl[j].surface => \E x \in Views : u.views[x].bound = j
      BY <1>10, <2>1 DEF Linked, Ready
    <3> QED
      BY <1>10, <2>1, <2>3, <3>2, <3>3 DEF Linked
  <2> QED
    BY <2>2, <2>3
<1>15. ASSUME NEW j \in Controllers
       PROVE  Owned(u, j)
  <2>1. Owned(w, j)
    BY DEF Ready
  <2>2. u.ctl[j].status = w.ctl[j].status
    BY <1>6, <1>10
  <2>3. \A x \in Views : Owns(w.views[x], j) => Owns(u.views[x], j)
    BY <1>9, <1>10 DEF Owns
  <2> QED
    BY <1>10, <2>1, <2>2, <2>3 DEF Owned
<1>16. InOrder(u, {v})
  BY <1>10, <1>11, <1>12, <1>13, <1>14, <1>15 DEF InOrder
<1> QED
  BY <1>2, <1>3, <1>6, <1>9, <1>10, <1>16 DEF SameScreen, SameConfig

LEMMA AllShown ==
  ASSUME NEW w, NEW v, InOrder(w, {v}), v \in Views => Shown(w, v)
  PROVE  InOrder(w, {})
  BY DEF InOrder

(* Where a check may fail: a view without its window may have a destroyed  *)
(* controller of setEngine, and of two views one may be given what the     *)
(* other has not let go of.                                                *)
ChecksMayFail == UsesEngine \/ \E u, v \in Views : u # v

(* An exception.                                                           *)
Thrown(w) == w.crashed /\ WorldTyped(w) /\ ChecksMayFail

(* bindController: a view that is bound shows its surface and its size.    *)
LEMMA BoundInOrder ==
  ASSUME NEW w, NEW v \in Views, NEW k \in Controllers, Ready(w, v, k), ~w.crashed
  PROVE  LET r == BindController(w, v, k)
         IN \/ Thrown(r)
            \/ /\ InOrder(r, {}) /\ ~r.crashed
               /\ r.views[v].bound = k
               /\ r.views[v].surfaceReady = w.views[v].surfaceReady
               /\ r.views[v].size = w.views[v].size
<1> DEFINE view == w.views[v]
           held == Held(w, v, k)
           shown == IF view.surfaceReady
                    THEN Update(held, k, OnSurfaceCreated(held.ctl[k]))
                    ELSE held
           sized == IF view.size > 0
                    THEN Update(shown, k, OnSurfaceChanged(shown.ctl[k], view.size))
                    ELSE shown
           fits == w.ctl[k].status = "alive" /\ w.ctl[k].attached \in {None, v}
<1>1. view \in View /\ WorldTyped(w) /\ view.bound = None /\ k # None
  BY WorldFields, ViewAssumption DEF Ready, InOrderBut
<1>2. BindController(w, v, k) = IF fits THEN sized ELSE Throws(w)
  BY <1>1 DEF BindController, IsAlive, Held
<1>3. CASE ~fits
  <2>1. ChecksMayFail
    <3>1. w.ctl[k].attached \in Views \cup {None}
      BY <1>1, WorldFields DEF Controller
    <3>2. w.ctl[k].status = "alive" \/ UsesEngine
      BY <1>1 DEF Ready, Active
    <3> QED
      BY <1>3, <3>1, <3>2 DEF ChecksMayFail
  <2>2. Thrown(Throws(w))
    BY <1>1, <2>1 DEF Throws, Thrown, WorldTyped
  <2> QED
    BY <1>2, <1>3, <2>2
<1>4. CASE fits
  <2>1. /\ InOrder(held, {v}) /\ held.crashed = w.crashed
        /\ held.views[v].bound = k
        /\ held.views[v].surfaceReady = view.surfaceReady
        /\ held.views[v].size = view.size
        /\ held.views[v].config = view.config
        /\ held.views[v].internal = view.internal
        /\ held.ctl[k].status = "alive" /\ held.ctl[k].surface = FALSE
        /\ held.ctl[k].config = w.ctl[k].config
    <3>1. w.ctl[k].status = "alive" /\ w.ctl[k].attached \in {None, v}
      BY <1>4
    <3> HIDE DEF fits, sized, shown
    <3> QED
      BY <3>1, HeldInOrder
  <2> HIDE DEF held
  <2>2. /\ held.views[v].bound = k
        /\ held.views[v].surfaceReady = view.surfaceReady
        /\ held.views[v].size = view.size
        /\ held.views[v].config = view.config
        /\ held.views[v].internal = view.internal
    BY <2>1
  <2>3. \A x \in Views \ {v} : held.views[x].bound # k
    <3> TAKE x \in Views \ {v}
    <3>1. held.ctl[k].attached = v
      BY <1>1, <2>1, <2>2 DEF InOrder, Tied, BoundTied
    <3>2. Tied(held, x)
      BY <2>1 DEF InOrder
    <3> QED
      BY <1>1, <2>1, <3>1, <3>2, NotShared
  <2>4. /\ InOrder(shown, {v}) /\ shown.crashed = w.crashed
        /\ SameView(held.views[v], shown.views[v])
        /\ shown.ctl[k].status = "alive"
        /\ shown.ctl[k].surface <=> view.surfaceReady
        /\ shown.ctl[k].config = held.ctl[k].config
        /\ \A x \in Views : shown.views[x].bound = held.views[x].bound
    <3>1. CASE view.surfaceReady
      <4> DEFINE c == OnSurfaceCreated(held.ctl[k])
      <4>1. ControllerOK(held.ctl[k])
        BY <2>1 DEF InOrder, ControllersOK
      <4>2. /\ Serves(held.ctl[k], c) /\ SameConfig(held.ctl[k], c)
            /\ c.surface = TRUE /\ c.size = held.ctl[k].size
        BY <2>1, <4>1, SurfaceCreatedServes
      <4> HIDE DEF c
      <4>3. /\ InOrder(Update(held, k, c), {v})
            /\ Update(held, k, c).crashed = held.crashed
            /\ Update(held, k, c).ctl[k] = [c EXCEPT !.announce = FALSE]
            /\ \A x \in Views : SameView(held.views[x], Update(held, k, c).views[x])
        <5>1. \E x \in Views : held.views[x].bound = k
          BY <2>2
        <5>2. \A x \in Views \ {v} : held.views[x].bound = k =>
                SameScreen(held.ctl[k], c) /\ SameConfig(held.ctl[k], c)
          BY <2>3
        <5> HIDE DEF fits, sized, shown, view
        <5> QED
          BY <2>1, <4>2, <5>1, <5>2, ServedInOrder
      <4>4. /\ [c EXCEPT !.announce = FALSE].status = "alive"
            /\ [c EXCEPT !.announce = FALSE].surface = TRUE
            /\ [c EXCEPT !.announce = FALSE].config = held.ctl[k].config
        BY <4>2 DEF Serves, ControllerOK, Controller, SameConfig
      <4>5. shown = Update(held, k, c)
        BY <3>1 DEF c
      <4>6. \A x \in Views : Update(held, k, c).views[x].bound = held.views[x].bound
        BY <4>3 DEF SameView
      <4> HIDE DEF shown, fits, sized, view
      <4> QED
        BY <2>1, <3>1, <4>3, <4>4, <4>5, <4>6
    <3>2. CASE ~view.surfaceReady
      BY <2>1, <2>2, <3>2 DEF SameView
    <3> QED
      BY <3>1, <3>2
  <2> HIDE DEF shown
  <2>5. /\ InOrder(sized, {v}) /\ sized.crashed = w.crashed
        /\ SameView(held.views[v], sized.views[v])
        /\ sized.ctl[k].surface <=> view.surfaceReady
        /\ view.size > 0 => sized.ctl[k].size = view.size
        /\ sized.ctl[k].config = held.ctl[k].config
    <3>1. CASE view.size > 0
      <4> DEFINE c == OnSurfaceChanged(shown.ctl[k], view.size)
      <4>1. ControllerOK(shown.ctl[k])
        BY <2>4 DEF InOrder, ControllersOK
      <4>2. view.size \in Sizes
        BY <1>1, <3>1 DEF View
      <4>3. /\ Serves(shown.ctl[k], c) /\ SameConfig(shown.ctl[k], c)
            /\ c.surface = shown.ctl[k].surface /\ c.size = view.size
        BY <2>4, <4>1, <4>2, SurfaceChangedServes
      <4> HIDE DEF c
      <4>4. \A x \in Views \ {v} : shown.views[x].bound # k
        BY <2>3, <2>4
      <4>5. shown.views[v].bound = k
        BY <2>2, <2>4
      <4>6. /\ InOrder(Update(shown, k, c), {v})
            /\ Update(shown, k, c).crashed = shown.crashed
            /\ Update(shown, k, c).ctl[k] = [c EXCEPT !.announce = FALSE]
            /\ \A x \in Views : SameView(shown.views[x], Update(shown, k, c).views[x])
        BY <2>4, <4>3, <4>4, <4>5, ServedInOrder
      <4>7. /\ [c EXCEPT !.announce = FALSE].size = view.size
            /\ [c EXCEPT !.announce = FALSE].surface = shown.ctl[k].surface
            /\ [c EXCEPT !.announce = FALSE].config = held.ctl[k].config
        BY <2>4, <4>3 DEF Serves, ControllerOK, Controller, SameConfig
      <4>8. sized = Update(shown, k, c)
        BY <3>1 DEF c
      <4>9. SameView(held.views[v], Update(shown, k, c).views[v])
        BY <2>4, <4>6 DEF SameView
      <4> HIDE DEF sized
      <4> QED
        BY <2>4, <4>6, <4>7, <4>8, <4>9
    <3>2. CASE ~(view.size > 0)
      BY <2>4, <3>2
    <3> QED
      BY <3>1, <3>2
  <2> HIDE DEF sized
  <2>6. view.internal # None => w.ctl[k].config = view.config /\ view.internal = k
    BY DEF Ready, Active
  <2>7. Shown(sized, v)
    BY <2>1, <2>2, <2>5, <2>6 DEF Shown, SameView
  <2>8. InOrder(sized, {})
    BY <2>5, <2>7, AllShown
  <2> QED
    BY <1>2, <1>4, <2>2, <2>5, <2>8 DEF SameView
<1> QED
  BY <1>3, <1>4

---------------------------------------------------------------------------
(* A controller of its own for a view that has none.                       *)

Room(w) == \E k \in Controllers : w.ctl[k].status = "free"

LEMMA FreshIsFree ==
  ASSUME NEW w, Room(w)
  PROVE  Fresh(w) \in Controllers /\ w.ctl[Fresh(w)].status = "free"
  BY DEF Room, Fresh

LEMMA CreatedFields ==
  ASSUME NEW w, WorldTyped(w), Room(w), NEW config \in Configs \cup {None},
         NEW maker \in {"app", "view"}
  PROVE  LET u == Create(w, config, maker)
             k == Fresh(w)
         IN /\ WorldTyped(u) /\ u.views = w.views /\ u.crashed = w.crashed
            /\ u.ctl[k] = NewController(config) /\ u.made[k] = maker
            /\ \A j \in Controllers \ {k} : u.ctl[j] = w.ctl[j] /\ u.made[j] = w.made[j]
<1> DEFINE k == Fresh(w)
           cs == [w.ctl EXCEPT ![k] = NewController(config)]
           ms == [w.made EXCEPT ![k] = maker]
           u == [w EXCEPT !.ctl = cs, !.made = ms]
<1>1. /\ w.views \in [Views -> View] /\ w.ctl \in [Controllers -> Controller]
      /\ w.made \in [Controllers -> {"app", "view", None}] /\ k \in Controllers
  BY WorldFields, FreshIsFree
<1>2. Create(w, config, maker) = u
  BY DEF Create, WorldTyped
<1> HIDE DEF k
<1>3. NewController(config) \in Controller
  BY NewControllerOK DEF ControllerOK
<1>4. cs \in [Controllers -> Controller] /\ ms \in [Controllers -> {"app", "view", None}]
  BY <1>1, <1>3
<1>5. /\ cs[k] = NewController(config) /\ ms[k] = maker
      /\ \A j \in Controllers \ {k} : cs[j] = w.ctl[j] /\ ms[j] = w.made[j]
  BY <1>1
<1> HIDE DEF cs, ms
<1>6. /\ WorldTyped(u) /\ u.views = w.views /\ u.crashed = w.crashed
      /\ u.ctl = cs /\ u.made = ms
  BY <1>4 DEF WorldTyped
<1> HIDE DEF u
<1> QED
  BY <1>2, <1>5, <1>6 DEF k

(* A view that is bound to nothing and has no controller.                  *)
Loose(w, v) ==
  LET view == w.views[v]
  IN /\ InOrderBut(w, v) /\ \A j \in Controllers : Owned(w, j)
     /\ view.bound = None /\ view.external = None /\ view.internal = None
     /\ ~view.managed

LEMMA EnsuredReady ==
  ASSUME NEW w, NEW v \in Views, Loose(w, v), Room(w)
  PROVE  LET r == EnsureInternalController(w, v)
             k == r.views[v].internal
         IN /\ k \in Controllers /\ Ready(r, v, k) /\ r.crashed = w.crashed
            /\ r.views[v].surfaceReady = w.views[v].surfaceReady
            /\ r.views[v].size = w.views[v].size
<1> DEFINE view == w.views[v]
           k == Fresh(w)
           made_ == Create(w, view.config, "view")
           view2 == [view EXCEPT !.internal = k]
           created == [made_ EXCEPT !.views[v].internal = k]
           c == SetCamera(created.ctl[k], view.defaultCamera)
           r == Update(created, k, c)
<1>1. /\ WorldTyped(w) /\ view \in View /\ w.views \in [Views -> View]
      /\ k \in Controllers /\ w.ctl[k].status = "free" /\ k # None
      /\ view.config \in Configs /\ view.defaultCamera \in Cameras
  BY WorldFields, FreshIsFree, ViewAssumption DEF Loose, InOrderBut, View
<1>2. EnsureInternalController(w, v) = r
  BY DEF EnsureInternalController, Loose
<1>3. /\ WorldTyped(made_) /\ made_.views = w.views /\ made_.crashed = w.crashed
      /\ made_.ctl[k] = NewController(view.config) /\ made_.made[k] = "view"
      /\ \A j \in Controllers \ {k} : /\ made_.ctl[j] = w.ctl[j]
                                      /\ made_.made[j] = w.made[j]
  BY <1>1, CreatedFields
<1> HIDE DEF k, made_
<1>4. view2 \in View
  BY <1>1, ViewFieldsTyped
<1>5. /\ view2.internal = k /\ view2.bound = view.bound /\ view2.external = view.external
      /\ view2.managed = view.managed /\ view2.config = view.config
      /\ view2.defaultCamera = view.defaultCamera
      /\ view2.surfaceReady = view.surfaceReady /\ view2.size = view.size
  BY <1>1 DEF View
<1>6. /\ WorldTyped(created) /\ created.ctl = made_.ctl /\ created.made = made_.made
      /\ created.crashed = made_.crashed /\ created.views = [w.views EXCEPT ![v] = view2]
  <2> DEFINE vs == [w.views EXCEPT ![v] = view2]
  <2>1. vs \in [Views -> View]
    BY <1>1, <1>4
  <2>2. created = [made_ EXCEPT !.views = vs]
    BY <1>3 DEF WorldTyped
  <2> HIDE DEF vs
  <2>3. /\ WorldTyped([made_ EXCEPT !.views = vs])
        /\ [made_ EXCEPT !.views = vs].ctl = made_.ctl
        /\ [made_ EXCEPT !.views = vs].made = made_.made
        /\ [made_ EXCEPT !.views = vs].crashed = made_.crashed
        /\ [made_ EXCEPT !.views = vs].views = vs
    BY <1>3, <2>1 DEF WorldTyped
  <2> QED
    BY <2>2, <2>3 DEF vs
<1> HIDE DEF created
<1>7. /\ created.views[v] = view2 /\ \A x \in Views \ {v} : created.views[x] = w.views[x]
  BY <1>1, <1>6
<1> HIDE DEF view2
<1>8. /\ ControllerOK(created.ctl[k]) /\ created.ctl[k].status = "alive"
      /\ created.ctl[k].surface = FALSE /\ created.ctl[k].config = view.config
      /\ created.ctl[k].observers = {}
  <2> DEFINE n == NewController(view.config)
  <2>1. ControllerOK(n) /\ n.status = "alive" /\ n.surface = FALSE /\ n.config = view.config
        /\ n.observers = {}
    BY <1>1, NewControllerOK
  <2>2. created.ctl[k] = n
    BY <1>3, <1>6
  <2> HIDE DEF n
  <2> QED
    BY <2>1, <2>2
<1>9. Handles(created.ctl[k], c) /\ c.camera = view.defaultCamera
  <2>1. view.defaultCamera \in Nat /\ Normalized(view.defaultCamera) = view.defaultCamera
    BY <1>1, ControllerAssumption DEF Cameras, Normalized
  <2>2. Handles(created.ctl[k], c)
    BY <1>8, <2>1, CameraMethodsHandle
  <2>3. c.camera = Normalized(view.defaultCamera)
    BY <1>8, <2>1, Applied DEF SetCamera, ControllerOK, CameraKept
  <2> QED
    BY <2>1, <2>2, <2>3
<1> HIDE DEF c
<1>10. c \in Controller /\ c.observers = {} /\ c.status = "alive" /\ c.surface = FALSE
       /\ c.config = view.config /\ ControllerOK(c)
  BY <1>8, <1>9 DEF Handles, Serves, ControllerOK, SameBinding, SameScreen, SameConfig
<1> DEFINE d == [c EXCEPT !.announce = FALSE]
<1>11. /\ WorldTyped(r) /\ r.made = created.made /\ r.crashed = created.crashed
       /\ r.ctl[k] = d
       /\ \A j \in Controllers \ {k} : r.ctl[j] = created.ctl[j]
       /\ \A x \in Views :
            r.views[x] = IF c.announce /\ x \in c.observers
                         THEN [created.views[x] EXCEPT !.defaultCamera = c.camera]
                         ELSE created.views[x]
  <2>1. WorldTyped(created) /\ k \in Controllers /\ c \in Controller
    BY <1>1, <1>6, <1>10
  <2> HIDE DEF view
  <2> QED
    BY <2>1, Updated
<1>12. \A x \in Views : r.views[x] = created.views[x]
  BY <1>10, <1>11
<1>13. /\ ControllerOK(d) /\ d.announce = FALSE /\ d.observers = {} /\ d.status = "alive"
       /\ d.surface = FALSE /\ d.config = view.config /\ d.camera = view.defaultCamera
  BY <1>9, <1>10, Silenced DEF Controller
<1> HIDE DEF d, r
<1>14. /\ \A j \in Controllers \ {k} : r.ctl[j] = w.ctl[j] /\ r.made[j] = w.made[j]
       /\ r.made[k] = "view" /\ r.crashed = w.crashed
       /\ r.views[v] = view2 /\ \A x \in Views \ {v} : r.views[x] = w.views[x]
  BY <1>3, <1>6, <1>7, <1>11, <1>12
<1>15. ControllersOK(r)
  BY <1>11, <1>13, <1>14 DEF ControllersOK, Loose, InOrderBut
<1>16. ASSUME NEW x \in Views \ {v}
       PROVE  Tied(r, x) /\ Shown(r, x)
  <2>1. Tied(w, x) /\ Shown(w, x)
    BY DEF Loose, InOrderBut
  <2>2. w.views[x].bound # k /\ w.views[x].internal # k /\ w.views[x].external # k
    BY <1>1, <2>1, NotFree
  <2> QED
    BY <1>1, <1>14, <2>1, <2>2, OthersTied
<1>17. ASSUME NEW j \in Controllers
       PROVE  Linked(r, j) /\ Owned(r, j)
  <2>1. Linked(w, j) /\ Owned(w, j) /\ w.ctl[j] \in Controller
    BY WorldFields DEF Loose, InOrderBut
  <2>2. \A x \in Views : r.views[x].bound = w.views[x].bound
    BY <1>5, <1>14
  <2>3. \A x \in Views : Owns(w.views[x], j) => Owns(r.views[x], j)
    BY <1>5, <1>14, ViewAssumption DEF Owns, Loose
  <2>4. CASE j = k
    BY <1>5, <1>11, <1>13, <1>14, <2>4, ViewAssumption DEF Linked, Owned, Owns
  <2>5. CASE j # k
    <3>1. Linked(r, j)
      BY <1>14, <2>1, <2>2, <2>5 DEF Linked, Controller
    <3>2. Owned(r, j)
      BY <1>14, <2>1, <2>3, <2>5 DEF Owned
    <3> QED
      BY <3>1, <3>2
  <2> QED
    BY <2>4, <2>5
<1>18. Ready(r, v, k)
  <2>1. InOrderBut(r, v)
    BY <1>11, <1>15, <1>16, <1>17 DEF InOrderBut
  <2>2. /\ view2.bound = None /\ view2.external = None /\ k = Active(view2) /\ ~view2.managed
    BY <1>5 DEF Loose, Active
  <2> QED
    BY <1>5, <1>11, <1>13, <1>14, <1>17, <2>1, <2>2 DEF Ready
<1> QED
  BY <1>1, <1>2, <1>5, <1>14, <1>18

---------------------------------------------------------------------------
(* The calls that a view passes on.                                        *)

(* ensureActiveController: a view that is bound stays as it is, and one    *)
(* that is not gets bound and shows its surface.                           *)
Activated(w, r, v) ==
  /\ InOrder(r, {}) /\ ~r.crashed
  /\ r.views[v].bound \in Controllers
  /\ r.views[v].surfaceReady = w.views[v].surfaceReady
  /\ r.views[v].size = w.views[v].size

LEMMA EnsuredActive ==
  ASSUME NEW w, NEW v \in Views, InOrder(w, {v}), ~w.crashed, Room(w)
  PROVE  LET r == EnsureActiveController(w, v)
         IN \/ w.views[v].bound # None /\ r = w
            \/ Thrown(r)
            \/ w.views[v].bound = None /\ Activated(w, r, v)
<1> DEFINE view == w.views[v]
           r == EnsureActiveController(w, v)
<1>1. /\ WorldTyped(w) /\ Tied(w, v) /\ view \in View
  BY WorldFields DEF InOrder
<1>2. CASE view.bound # None
  <2>1. CASE view.external # None
    BY <1>1, <1>2, <2>1 DEF EnsureActiveController, BindController, Tied, BoundTied, Active
  <2>2. CASE view.external = None
    <3>1. view.internal = view.bound
      BY <1>1, <1>2, <2>2 DEF Tied, BoundTied, Active
    <3>2. EnsureInternalController(w, v) = w
      BY <1>2, <3>1 DEF EnsureInternalController
    <3> QED
      BY <1>2, <2>2, <3>1, <3>2 DEF EnsureActiveController, BindController
  <2> QED
    BY <2>1, <2>2
<1>3. CASE view.bound = None
  <2>1. view.internal = None
    BY <1>1, <1>3 DEF Tied, InternalTied
  <2>2. InOrderBut(w, v) /\ \A j \in Controllers : Owned(w, j)
    BY DEF InOrder, InOrderBut
  <2>3. CASE view.external # None
    <3> DEFINE k == view.external
    <3>1. k \in Controllers
      BY <1>1, <2>3 DEF View
    <3>2. Ready(w, v, k)
      BY <1>1, <1>3, <2>1, <2>2, <2>3 DEF Ready, Active, Tied, ExternalTied
    <3>3. r = BindController(w, v, k)
      BY <2>3 DEF EnsureActiveController
    <3> HIDE DEF r, k
    <3>4. LET b == BindController(w, v, k)
          IN \/ Thrown(b)
             \/ /\ InOrder(b, {}) /\ ~b.crashed
                /\ b.views[v].bound = k
                /\ b.views[v].surfaceReady = w.views[v].surfaceReady
                /\ b.views[v].size = w.views[v].size
      <4> HIDE DEF view
      <4> QED
        BY <3>1, <3>2, BoundInOrder
    <3> QED
      BY <1>3, <3>1, <3>3, <3>4 DEF r, Activated
  <2>4. CASE view.external = None
    <3> DEFINE e == EnsureInternalController(w, v)
               k == e.views[v].internal
    <3>1. Loose(w, v)
      BY <1>1, <1>3, <2>1, <2>2, <2>4 DEF Loose, Tied, ExternalTied, View
    <3>2. /\ k \in Controllers /\ Ready(e, v, k) /\ e.crashed = w.crashed
          /\ e.views[v].surfaceReady = w.views[v].surfaceReady
          /\ e.views[v].size = w.views[v].size
      <4> HIDE DEF view
      <4> QED
        BY <3>1, EnsuredReady
    <3>3. r = BindController(e, v, k)
      BY <2>4 DEF EnsureActiveController
    <3> HIDE DEF r, e, k
    <3>4. LET b == BindController(e, v, k)
          IN \/ Thrown(b)
             \/ /\ InOrder(b, {}) /\ ~b.crashed
                /\ b.views[v].bound = k
                /\ b.views[v].surfaceReady = e.views[v].surfaceReady
                /\ b.views[v].size = e.views[v].size
      BY <3>2, BoundInOrder
    <3> QED
      BY <1>3, <3>2, <3>3, <3>4 DEF r, Activated
  <2> QED
    BY <2>3, <2>4
<1> QED
  BY <1>2, <1>3 DEF r

(* A call that leaves screen and configuration alone.                      *)
LEMMA HandledInOrder ==
  ASSUME NEW w, InOrder(w, {}), NEW k \in Controllers,
         NEW c, w.ctl[k].status = "alive", Handles(w.ctl[k], c)
  PROVE  LET u == Update(w, k, c)
         IN InOrder(u, {}) /\ u.crashed = w.crashed
<1>1. Serves(w.ctl[k], c) /\ SameScreen(w.ctl[k], c) /\ SameConfig(w.ctl[k], c)
  BY DEF Handles
<1>2. c.surface => \E v \in Views : w.views[v].bound = k
  BY <1>1 DEF SameScreen, InOrder, Linked
<1> DEFINE S == {}
<1>3. /\ InOrder(w, S)
      /\ \A v \in Views \ S : w.views[v].bound = k =>
           SameScreen(w.ctl[k], c) /\ SameConfig(w.ctl[k], c)
  BY <1>1
<1> HIDE DEF S
<1>4. /\ InOrder(Update(w, k, c), S) /\ Update(w, k, c).crashed = w.crashed
      /\ Update(w, k, c).ctl[k] = [c EXCEPT !.announce = FALSE]
      /\ \A v \in Views : SameView(w.views[v], Update(w, k, c).views[v])
  BY <1>1, <1>2, <1>3, ServedInOrder
<1> QED
  BY <1>4 DEF S

(* A view whose controllers stay the same.                                 *)
Retouched(w, v, view) == [w EXCEPT !.views[v] = view]

SameRefs(a, b) ==
  /\ b.external = a.external /\ b.managed = a.managed
  /\ b.internal = a.internal /\ b.bound = a.bound

LEMMA RetouchedInOrder ==
  ASSUME NEW w, InOrder(w, {}), NEW v \in Views, NEW view \in View,
         SameRefs(w.views[v], view),
         w.views[v].internal # None => view.defaultCamera = w.views[v].defaultCamera
  PROVE  LET u == Retouched(w, v, view)
         IN /\ InOrder(u, {v}) /\ u.crashed = w.crashed /\ u.ctl = w.ctl
            /\ u.views[v] = view /\ \A x \in Views \ {v} : u.views[x] = w.views[x]
            /\ Shown(u, v) => InOrder(u, {})
            /\ Room(w) => Room(u)
<1> DEFINE vs == [w.views EXCEPT ![v] = view]
           u == [w EXCEPT !.views = vs]
<1>1. WorldTyped(w) /\ w.views \in [Views -> View]
  BY WorldFields DEF InOrder
<1>2. Retouched(w, v, view) = u
  BY <1>1 DEF Retouched, WorldTyped
<1>3. vs \in [Views -> View] /\ vs[v] = view /\ \A x \in Views \ {v} : vs[x] = w.views[x]
  BY <1>1
<1> HIDE DEF vs
<1>4. /\ WorldTyped(u) /\ u.made = w.made /\ u.crashed = w.crashed /\ u.ctl = w.ctl
      /\ u.views = vs
  BY <1>1, <1>3 DEF WorldTyped
<1> HIDE DEF u
<1>5. ControllersOK(u)
  BY <1>4 DEF InOrder, ControllersOK
<1>6. ASSUME NEW x \in Views PROVE Tied(u, x)
  <2>1. Tied(w, x)
    BY DEF InOrder
  <2>2. CASE x = v
    BY <1>3, <1>4, <2>1, <2>2
       DEF Tied, BoundTied, InternalTied, ExternalTied, Active, SameRefs
  <2>3. CASE x # v
    BY <1>3, <1>4, <2>1, <2>3 DEF Tied, BoundTied, InternalTied, ExternalTied, Active
  <2> QED
    BY <2>2, <2>3
<1>7. ASSUME NEW x \in Views \ {v} PROVE Shown(u, x)
  BY <1>3, <1>4 DEF InOrder, Shown
<1>8. ASSUME NEW k \in Controllers PROVE Linked(u, k) /\ Owned(u, k)
  <2>1. Linked(w, k) /\ Owned(w, k)
    BY DEF InOrder
  <2>2. \A x \in Views : u.views[x].bound = w.views[x].bound
    BY <1>3, <1>4 DEF SameRefs
  <2>3. \A x \in Views : Owns(w.views[x], k) => Owns(u.views[x], k)
    BY <1>3, <1>4 DEF SameRefs, Owns
  <2>4. w.ctl[k].observers \subseteq Views
    BY <1>1, WorldFields DEF Controller
  <2> QED
    BY <1>4, <2>1, <2>2, <2>3, <2>4 DEF Linked, Owned
<1>9. InOrder(u, {v})
  BY <1>4, <1>5, <1>6, <1>7, <1>8 DEF InOrder
<1>10. Shown(u, v) => InOrder(u, {})
  BY <1>9, AllShown
<1>11. Room(w) => Room(u)
  BY <1>4 DEF Room
<1> QED
  BY <1>2, <1>3, <1>4, <1>9, <1>10, <1>11

(* The fields that no controller is told about.                            *)
LEMMA TouchedInOrder ==
  ASSUME NEW w, InOrder(w, {}), NEW v \in Views, NEW view \in View,
         SameView(w.views[v], view),
         w.views[v].internal # None => view.defaultCamera = w.views[v].defaultCamera
  PROVE  LET u == Retouched(w, v, view)
         IN /\ InOrder(u, {}) /\ u.crashed = w.crashed /\ u.ctl = w.ctl
            /\ u.views[v] = view
            /\ Room(w) => Room(u)
<1> DEFINE u == Retouched(w, v, view)
<1>1. SameRefs(w.views[v], view)
  BY DEF SameView, SameRefs
<1>2. /\ InOrder(u, {v}) /\ u.crashed = w.crashed /\ u.ctl = w.ctl
      /\ u.views[v] = view /\ \A x \in Views \ {v} : u.views[x] = w.views[x]
      /\ Shown(u, v) => InOrder(u, {})
      /\ Room(w) => Room(u)
  BY <1>1, RetouchedInOrder
<1> HIDE DEF u
<1>3. Shown(w, v)
  BY DEF InOrder
<1>4. Shown(u, v)
  BY <1>2, <1>3 DEF Shown, SameView
<1> QED
  BY <1>2, <1>4 DEF u

---------------------------------------------------------------------------
(* The inductive invariant, and what makes a world the next state.         *)

IInv == InOrder(World, {}) /\ (World.crashed => ChecksMayFail)

(* What a method leaves: an exception, or a world in order.                *)
Fine(w) == Thrown(w) \/ (InOrder(w, {}) /\ (w.crashed => ChecksMayFail))

LEMMA WorldIs ==
  /\ World.views = views /\ World.ctl = ctl /\ World.made = made
  /\ World.crashed = crashed
  BY DEF World

(* A crash keeps everything else.                                          *)
LEMMA SameOrder ==
  ASSUME NEW w, NEW u, InOrder(w, {}), WorldTyped(u),
         u.views = w.views, u.ctl = w.ctl, u.made = w.made
  PROVE  InOrder(u, {})
<1>1. /\ ControllersOK(u)
      /\ \A v \in Views : Tied(u, v) /\ Shown(u, v)
  <2>1. ControllersOK(u)
    BY DEF InOrder, ControllersOK
  <2>2. ASSUME NEW v \in Views PROVE Tied(u, v) /\ Shown(u, v)
    <3>1. Tied(w, v) /\ Shown(w, v)
      BY DEF InOrder
    <3>2. BoundTied(u, v)
      BY <3>1 DEF Tied, BoundTied
    <3>3. InternalTied(u, v)
      BY <3>1 DEF Tied, InternalTied
    <3>4. ExternalTied(u, v)
      BY <3>1 DEF Tied, ExternalTied
    <3>5. Shown(u, v)
      BY <3>1 DEF Shown
    <3> QED
      BY <3>2, <3>3, <3>4, <3>5 DEF Tied
  <2> QED
    BY <2>1, <2>2
<1>2. \A k \in Controllers : Linked(u, k) /\ Owned(u, k)
  BY DEF InOrder, Linked, Owned
<1> QED
  BY <1>1, <1>2 DEF InOrder

(* Nothing refers to what is forgotten.                                    *)
Kept(w) ==
  [views |-> w.views,
   ctl |-> [k \in Controllers |-> IF Garbage(w, k) THEN FreeController ELSE w.ctl[k]],
   made |-> [k \in Controllers |-> IF Garbage(w, k) THEN None ELSE w.made[k]],
   crashed |-> FALSE]

LEMMA KeptInOrder ==
  ASSUME NEW w, InOrder(w, {})
  PROVE  InOrder(Kept(w), {})
<1> DEFINE u == Kept(w)
<1>1. /\ WorldTyped(w) /\ w.views \in [Views -> View]
      /\ w.ctl \in [Controllers -> Controller]
      /\ w.made \in [Controllers -> {"app", "view", None}]
  BY WorldFields DEF InOrder
<1>2. FreeController \in Controller
  BY FreeControllerOK DEF ControllerOK
<1>3. /\ u.views = w.views /\ u.crashed = FALSE
      /\ \A k \in Controllers :
           /\ u.ctl[k] = IF Garbage(w, k) THEN FreeController ELSE w.ctl[k]
           /\ u.made[k] = IF Garbage(w, k) THEN None ELSE w.made[k]
  BY DEF Kept
<1>4. WorldTyped(u)
  <2> DEFINE cs == [k \in Controllers |->
                      IF Garbage(w, k) THEN FreeController ELSE w.ctl[k]]
             ms == [k \in Controllers |-> IF Garbage(w, k) THEN None ELSE w.made[k]]
  <2>1. cs \in [Controllers -> Controller]
    BY <1>1, <1>2
  <2>2. ms \in [Controllers -> {"app", "view", None}]
    BY <1>1
  <2>3. u = [views |-> w.views, ctl |-> cs, made |-> ms, crashed |-> FALSE]
    BY DEF Kept
  <2> HIDE DEF cs, ms, u
  <2> QED
    BY <1>1, <2>1, <2>2, <2>3 DEF WorldTyped
<1> HIDE DEF u
<1>5. ControllersOK(u)
  BY <1>3, FreeControllerOK DEF ControllersOK, InOrder
<1>6. ASSUME NEW v \in Views, NEW k \in Controllers,
             k \in {w.views[v].external, w.views[v].internal, w.views[v].bound}
      PROVE  u.ctl[k] = w.ctl[k] /\ u.made[k] = w.made[k]
  BY <1>3, <1>6 DEF Garbage
<1>7. ASSUME NEW v \in Views PROVE Tied(u, v) /\ Shown(u, v)
  <2>1. Tied(w, v) /\ Shown(w, v) /\ u.views[v] = w.views[v]
    BY <1>3 DEF InOrder
  <2>2. /\ w.views[v].bound \in Controllers \cup {None}
        /\ w.views[v].internal \in Controllers \cup {None}
        /\ w.views[v].external \in Controllers \cup {None}
    BY <1>1 DEF View
  <2>3. BoundTied(u, v)
    BY <1>6, <2>1, <2>2 DEF Tied, BoundTied
  <2>4. InternalTied(u, v)
    BY <1>6, <2>1, <2>2 DEF Tied, InternalTied
  <2>5. ExternalTied(u, v)
    BY <1>6, <2>1, <2>2 DEF Tied, ExternalTied
  <2>6. Shown(u, v)
    BY <1>6, <2>1, <2>2 DEF Shown
  <2> QED
    BY <2>3, <2>4, <2>5, <2>6 DEF Tied
<1>8. ASSUME NEW k \in Controllers PROVE Linked(u, k) /\ Owned(u, k)
  <2>1. Linked(w, k) /\ Owned(w, k)
    BY DEF InOrder
  <2>2. CASE Garbage(w, k)
    BY <1>3, <2>2, FreeControllerOK DEF Linked, Owned
  <2>3. CASE ~Garbage(w, k)
    BY <1>3, <2>1, <2>3 DEF Linked, Owned
  <2> QED
    BY <2>2, <2>3
<1>9. InOrder(u, {})
  BY <1>4, <1>5, <1>7, <1>8 DEF InOrder
<1> QED
  BY <1>9 DEF u

LEMMA BecomesFine ==
  ASSUME NEW w, IInv, Fine(w), Becomes(w)
  PROVE  IInv'
<1>1. WorldTyped(World)
  BY DEF IInv, InOrder
<1>2. CASE w.crashed
  <2>1. crashed' = TRUE /\ views' = views /\ ctl' = ctl /\ made' = made
    BY <1>2 DEF Becomes
  <2> DEFINE u == [views |-> views, ctl |-> ctl, made |-> made, crashed |-> TRUE]
  <2>2. World' = u
    BY <2>1 DEF World
  <2>3. /\ WorldTyped(u) /\ u.views = World.views /\ u.ctl = World.ctl
        /\ u.made = World.made
    BY <1>1 DEF WorldTyped, World
  <2> HIDE DEF u
  <2>4. InOrder(u, {})
    BY <2>3, SameOrder DEF IInv
  <2>5. ChecksMayFail
    BY <1>2 DEF Fine, Thrown
  <2> QED
    BY <2>2, <2>4, <2>5 DEF IInv
<1>3. CASE ~w.crashed
  <2>1. World' = Kept(w)
    BY <1>3 DEF Becomes, World, Kept
  <2>2. InOrder(Kept(w), {}) /\ Kept(w).crashed = FALSE
    BY <1>3, KeptInOrder DEF Fine, Thrown, Kept
  <2> QED
    BY <2>1, <2>2 DEF IInv
<1> QED
  BY <1>2, <1>3

(* A method that throws nothing.                                           *)
LEMMA BecomesOrdered ==
  ASSUME NEW w, IInv, InOrder(w, {}), w.crashed = World.crashed, Becomes(w)
  PROVE  IInv'
<1>1. Fine(w)
  BY DEF IInv, Fine
<1> QED
  BY <1>1, BecomesFine

LEMMA InitInOrder == Init => IInv
<1> SUFFICES ASSUME Init PROVE InOrder(World, {})
  BY WorldIs DEF IInv, Init
<1>1. /\ World.views = views /\ World.ctl = ctl /\ World.made = made
      /\ World.crashed = FALSE
  BY WorldIs DEF Init
<1>2. \A k \in Controllers : ctl[k] = FreeController /\ made[k] = None
  BY DEF Init
<1>3. \A v \in Views :
        /\ views[v].surfaceReady = FALSE /\ views[v].size = 0
        /\ views[v].external = None /\ views[v].managed = FALSE
        /\ views[v].internal = None /\ views[v].bound = None
  BY DEF Init
<1>4. WorldTyped(World)
  <2>1. 0 \in Cameras
    BY ControllerAssumption DEF Cameras
  <2>2. views \in [Views -> View]
    BY <2>1 DEF Init, View
  <2>3. ctl \in [Controllers -> Controller]
    BY FreeControllerOK DEF Init, ControllerOK
  <2>4. made \in [Controllers -> {"app", "view", None}]
    BY DEF Init
  <2> QED
    BY <2>2, <2>3, <2>4 DEF WorldTyped, World, Init
<1>5. ControllersOK(World)
  BY <1>1, <1>2, FreeControllerOK DEF ControllersOK
<1>6. \A v \in Views : Tied(World, v) /\ Shown(World, v)
  BY <1>1, <1>3 DEF Tied, BoundTied, InternalTied, ExternalTied, Shown
<1>7. \A k \in Controllers : Linked(World, k) /\ Owned(World, k)
  BY <1>1, <1>2, FreeControllerOK DEF Linked, Owned
<1> QED
  BY <1>4, <1>5, <1>6, <1>7 DEF InOrder

---------------------------------------------------------------------------
(* Calls of the app, of the frames and of the user.                        *)

LEMMA CallControllerKeeps ==
  ASSUME IInv, NEW k \in Controllers, NEW call \in Calls, CallController(k, call)
  PROVE  IInv'
<1> DEFINE c == Called(ctl[k], call)
           u == Update(World, k, c)
<1>1. ControllerOK(World.ctl[k]) /\ World.ctl[k] = ctl[k]
  BY WorldIs DEF IInv, InOrder, ControllersOK
<1>2. World.ctl[k].status = "alive" /\ Becomes(u)
  BY DEF CallController, IsAlive
<1>3. Handles(World.ctl[k], c)
  BY <1>1, <1>2, CalledHandles, ViewAssumption
<1> HIDE DEF c
<1>4. InOrder(u, {}) /\ u.crashed = World.crashed
  BY <1>2, <1>3, HandledInOrder DEF IInv
<1> HIDE DEF u
<1> QED
  BY <1>2, <1>4, BecomesOrdered

LEMMA FramesKeep ==
  ASSUME IInv, NEW k \in Controllers,
         \/ CameraFrameFires(k) \/ AnimationEnds(k)
         \/ \E camera \in Cameras : AnimationStep(k, camera)
  PROVE  IInv'
<1>1. /\ ControllerOK(World.ctl[k]) /\ World.ctl[k] = ctl[k] /\ ctl[k] \in Controller
  BY WorldIs DEF IInv, InOrder, ControllersOK, ControllerOK
<1>2. ASSUME NEW c, Handles(ctl[k], c), ctl[k].status = "alive",
             Becomes(Update(World, k, c))
      PROVE  IInv'
  <2>1. InOrder(Update(World, k, c), {}) /\ Update(World, k, c).crashed = World.crashed
    BY <1>1, <1>2, HandledInOrder DEF IInv
  <2> QED
    BY <1>2, <2>1, BecomesOrdered
<1>3. CASE CameraFrameFires(k)
  <2>1. ctl[k].posted /\ Becomes(Update(World, k, CameraFrame(ctl[k])))
    BY <1>3 DEF CameraFrameFires
  <2>2. ctl[k].status = "alive"
    BY <1>1, <2>1 DEF ControllerOK, Quiet
  <2>3. Handles(ctl[k], CameraFrame(ctl[k]))
    BY <1>1, <2>1, <2>2, CameraFrameHandles
  <2> QED
    BY <1>2, <2>1, <2>2, <2>3
<1>4. CASE AnimationEnds(k)
  <2>1. ctl[k].animation # None /\ Becomes(Update(World, k, AnimationEnd(ctl[k])))
    BY <1>4 DEF AnimationEnds
  <2>2. ctl[k].status = "alive"
    BY <1>1, <2>1 DEF ControllerOK, Quiet
  <2>3. Handles(ctl[k], AnimationEnd(ctl[k]))
    BY <1>1, <2>1, <2>2, AnimationEndHandles
  <2> QED
    BY <1>2, <2>1, <2>2, <2>3
<1>5. CASE \E camera \in Cameras : AnimationStep(k, camera)
  <2>1. PICK camera \in Cameras : AnimationStep(k, camera)
    BY <1>5
  <2>2. /\ ctl[k].animation # None
        /\ Becomes(Update(World, k, AnimationFrame(ctl[k], camera)))
    BY <2>1 DEF AnimationStep
  <2>3. ctl[k].status = "alive"
    BY <1>1, <2>2 DEF ControllerOK, Quiet
  <2>4. camera \in Nat
    BY ControllerAssumption DEF Cameras
  <2>5. Handles(ctl[k], AnimationFrame(ctl[k], camera))
    BY <1>1, <2>3, <2>4, CameraMethodsHandle
  <2> QED
    BY <1>2, <2>2, <2>3, <2>5
<1> QED
  BY <1>3, <1>4, <1>5

LEMMA ThrownIsFine ==
  ASSUME NEW w, InOrder(w, {}), ChecksMayFail
  PROVE  Fine(Throws(w))
  BY DEF Fine, Throws, Thrown, InOrder, WorldTyped

(* The controller that a view passes its next call to.                     *)
LEMMA PassesOn ==
  ASSUME NEW w, NEW v \in Views, InOrder(w, {}), ~w.crashed, Room(w)
  PROVE  LET r == EnsureActiveController(w, v)
             k == r.views[v].bound
         IN \/ Thrown(r)
            \/ /\ InOrder(r, {}) /\ ~r.crashed
               /\ k \in Controllers /\ r.ctl[k].status = "alive"
               /\ ControllerOK(r.ctl[k])
               /\ r.views[v].surfaceReady = w.views[v].surfaceReady
               /\ r.views[v].size = w.views[v].size
               /\ w.views[v].bound # None => r = w
<1> DEFINE r == EnsureActiveController(w, v)
           k == r.views[v].bound
<1>1. InOrder(w, {v})
  BY DEF InOrder
<1>2. w.views[v].bound \in Controllers \cup {None}
  BY WorldFields DEF InOrder, View
<1>3. \/ w.views[v].bound # None /\ r = w
      \/ Thrown(r)
      \/ w.views[v].bound = None /\ Activated(w, r, v)
  BY <1>1, EnsuredActive
<1> HIDE DEF r
<1>4. ASSUME InOrder(r, {}), k \in Controllers
      PROVE  r.ctl[k].status = "alive" /\ ControllerOK(r.ctl[k])
  <2>1. Tied(r, v) /\ ControllersOK(r) /\ k # None
    BY <1>4, ViewAssumption DEF InOrder
  <2> QED
    BY <1>4, <2>1 DEF Tied, BoundTied, ControllersOK
<1> QED
  BY <1>2, <1>3, <1>4 DEF Activated, r

(* Pans of a touch or a fling.                                             *)
LEMMA PannedFine ==
  ASSUME NEW w, NEW v \in Views, InOrder(w, {}), ~w.crashed, Room(w),
         NEW camera \in Cameras
  PROVE  Fine(PanBy(w, v, camera))
<1> DEFINE r == EnsureActiveController(w, v)
           k == r.views[v].bound
           c == GestureCamera(r.ctl[k], camera)
<1>1. CASE w.views[v].size = 0
  BY <1>1 DEF PanBy, Fine
<1>2. CASE w.views[v].size # 0
  <2>1. PanBy(w, v, camera)
          = IF r.crashed THEN r ELSE Checked(r, k, TRUE, Update(r, k, c))
    BY <1>2 DEF PanBy, OnActive
  <2>2. \/ Thrown(r)
        \/ /\ InOrder(r, {}) /\ ~r.crashed /\ k \in Controllers
           /\ r.ctl[k].status = "alive" /\ ControllerOK(r.ctl[k])
    BY PassesOn
  <2> HIDE DEF r
  <2>3. CASE Thrown(r)
    BY <2>1, <2>3 DEF Thrown, Fine
  <2>4. CASE /\ InOrder(r, {}) /\ ~r.crashed /\ k \in Controllers
             /\ r.ctl[k].status = "alive" /\ ControllerOK(r.ctl[k])
    <3>1. camera \in Nat
      BY ControllerAssumption DEF Cameras
    <3>2. Handles(r.ctl[k], c)
      BY <2>4, <3>1, CameraMethodsHandle
    <3> HIDE DEF c, k
    <3>3. InOrder(Update(r, k, c), {}) /\ Update(r, k, c).crashed = r.crashed
      BY <2>4, <3>2, HandledInOrder
    <3> QED
      BY <2>1, <2>4, <3>3 DEF Checked, IsAlive, Fine
  <2> QED
    BY <2>2, <2>3, <2>4
<1> QED
  BY <1>1, <1>2

LEMMA PinchKeeps ==
  ASSUME IInv, ~crashed, IdentityLeft, NEW v \in Views, NEW camera \in Cameras,
         Pinch(v, camera)
  PROVE  IInv'
<1> DEFINE r == EnsureActiveController(World, v)
           k == r.views[v].bound
           m == r.ctl[k]
           c == IF m.camera = camera THEN m ELSE GestureCamera(m, camera)
           n == IF r.crashed THEN r ELSE Checked(r, k, TRUE, Update(r, k, c))
<1>1. Becomes(n)
  BY DEF Pinch, OnActive
<1>2. \/ Thrown(r)
      \/ /\ InOrder(r, {}) /\ ~r.crashed /\ k \in Controllers
         /\ m.status = "alive" /\ ControllerOK(m)
  <2>1. InOrder(World, {}) /\ ~World.crashed /\ Room(World)
    BY WorldIs DEF IInv, IdentityLeft, Room
  <2> QED
    BY <2>1, PassesOn
<1> HIDE DEF r
<1>3. Fine(n)
  <2>1. CASE Thrown(r)
    BY <2>1 DEF Thrown, Fine
  <2>2. CASE /\ InOrder(r, {}) /\ ~r.crashed /\ k \in Controllers
             /\ m.status = "alive" /\ ControllerOK(m)
    <3>1. camera \in Nat
      BY ControllerAssumption DEF Cameras
    <3>2. Handles(m, c)
      BY <2>2, <3>1, CameraMethodsHandle, HandlesNothing
    <3> HIDE DEF c, k
    <3>3. InOrder(Update(r, k, c), {}) /\ Update(r, k, c).crashed = r.crashed
      BY <2>2, <3>2, HandledInOrder
    <3> QED
      BY <2>2, <3>3 DEF Checked, IsAlive, Fine
  <2> QED
    BY <1>2, <2>1, <2>2
<1> HIDE DEF n
<1> QED
  BY <1>1, <1>3, BecomesFine

(* The methods of the view: the camera is remembered before the controller *)
(* has it, and the controller announces the one that it gets.              *)
LEMMA CallViewKeeps ==
  ASSUME IInv, ~crashed, IdentityLeft, NEW v \in Views, NEW call \in Calls,
         CallView(v, call)
  PROVE  IInv'
<1> DEFINE view == [views[v] EXCEPT !.defaultCamera = Normalized(call.camera)]
           w == IF MovesCamera(call) THEN Retouched(World, v, view) ELSE World
           r == EnsureActiveController(w, v)
           k == r.views[v].bound
           c == Called(r.ctl[k], call)
           n == IF r.crashed THEN r ELSE Checked(r, k, TRUE, Update(r, k, c))
<1>1. /\ World.views = views /\ World.ctl = ctl /\ InOrder(World, {})
      /\ ~World.crashed /\ Room(World) /\ call \in Call
      /\ views \in [Views -> View] /\ WorldTyped(World)
  <2>1. WorldTyped(World)
    BY DEF IInv, InOrder
  <2> QED
    BY <2>1, WorldIs, WorldFields, ViewAssumption DEF IInv, IdentityLeft, Room
<1>2. Becomes(n)
  <2>1. w = IF MovesCamera(call)
            THEN [World EXCEPT !.views[v].defaultCamera = Normalized(call.camera)]
            ELSE World
    BY <1>1 DEF Retouched
  <2> HIDE DEF w
  <2> QED
    BY <2>1 DEF CallView, OnActive
<1>3. ASSUME InOrder(w, {}), ~w.crashed, Room(w)
      PROVE  Fine(n)
  <2>1. \/ Thrown(r)
        \/ /\ InOrder(r, {}) /\ ~r.crashed /\ k \in Controllers
           /\ r.ctl[k].status = "alive" /\ ControllerOK(r.ctl[k])
    <3> HIDE DEF w
    <3> QED
      BY <1>3, PassesOn
  <2> HIDE DEF r
  <2>2. CASE Thrown(r)
    BY <2>2 DEF Thrown, Fine
  <2>3. CASE /\ InOrder(r, {}) /\ ~r.crashed /\ k \in Controllers
             /\ r.ctl[k].status = "alive" /\ ControllerOK(r.ctl[k])
    <3>1. Handles(r.ctl[k], c)
      BY <1>1, <2>3, CalledHandles
    <3> HIDE DEF c, k
    <3>2. InOrder(Update(r, k, c), {}) /\ Update(r, k, c).crashed = r.crashed
      BY <2>3, <3>1, HandledInOrder
    <3> QED
      BY <2>3, <3>2 DEF Checked, IsAlive, Fine
  <2> QED
    BY <2>1, <2>2, <2>3
<1> HIDE DEF n
<1>4. CASE ~MovesCamera(call)
  BY <1>1, <1>2, <1>3, <1>4, BecomesFine
<1>5. ASSUME MovesCamera(call)
      PROVE  /\ call.camera \in Nat /\ view \in View /\ SameView(views[v], view)
             /\ w = Retouched(World, v, view)
  <2>1. call.camera \in Nat
    BY <1>1, <1>5 DEF MovesCamera, Call
  <2>2. Normalized(call.camera) \in Cameras
    BY <2>1, ControllerAssumption DEF Normalized, Cameras
  <2>3. views[v] \in View
    BY <1>1
  <2> QED
    BY <1>5, <2>1, <2>2, <2>3, ViewFieldsTyped, Remembering
<1>6. CASE MovesCamera(call) /\ views[v].internal = None
  <2>1. InOrder(w, {}) /\ ~w.crashed /\ Room(w)
    <3> HIDE DEF view, w
    <3> QED
      BY <1>1, <1>5, <1>6, TouchedInOrder
  <2> QED
    BY <1>2, <1>3, <2>1, BecomesFine
<1>7. CASE MovesCamera(call) /\ views[v].internal # None
  <2> DEFINE i == views[v].internal
             d == Called(ctl[i], call)
  <2>1. /\ views[v].external = None /\ views[v].bound = i /\ i \in Controllers
        /\ ctl[i].status = "alive" /\ v \in ctl[i].observers /\ ControllerOK(ctl[i])
    <3>1. Tied(World, v) /\ ControllersOK(World)
      BY <1>1 DEF InOrder
    <3>2. i \in Controllers
      BY <1>1, <1>7 DEF View
    <3> QED
      BY <1>1, <1>7, <3>1, <3>2 DEF Tied, InternalTied, BoundTied, ControllersOK
  <2>2. /\ w.views = [views EXCEPT ![v] = view] /\ w.ctl = ctl /\ w.made = World.made
        /\ w.crashed = World.crashed /\ w.views[v] = view
        /\ w = [World EXCEPT !.views = [views EXCEPT ![v] = view]]
    <3>1. w = Retouched(World, v, view)
      BY <1>5, <1>7
    <3> HIDE DEF w, view
    <3> QED
      BY <1>1, <3>1 DEF Retouched, WorldTyped
  <2>3. view.external = None /\ view.internal = i /\ view.bound = i
    <3>1. SameView(views[v], view)
      BY <1>5, <1>7
    <3> HIDE DEF view
    <3> QED
      BY <2>1, <3>1 DEF SameView
  <2> HIDE DEF view, w
  <2>4. r = w
    <3>1. w.views[v].external = None /\ w.views[v].internal = i /\ w.views[v].bound = i
      BY <2>2, <2>3
    <3>2. EnsureInternalController(w, v) = w
      BY <1>7, <3>1 DEF EnsureInternalController
    <3>3. BindController(w, v, i) = w
      BY <3>1 DEF BindController
    <3> QED
      BY <3>1, <3>2, <3>3 DEF EnsureActiveController
  <2>5. k = i /\ c = d
    BY <2>2, <2>3, <2>4
  <2>6. Handles(ctl[i], d)
    BY <1>1, <2>1, CalledHandles
  <2>7. d.announce /\ d \in Controller /\ v \in d.observers
    <3>1. d.announce
      <4>1. /\ ctl[i] \in Controller /\ ctl[i].native # None
            /\ ctl[i].posted = ctl[i].scheduled
        BY <2>1 DEF ControllerOK, CameraKept
      <4>2. \A x \in Nat, a \in BOOLEAN : ApplyCamera(ctl[i], x, FALSE, a).announce
        BY <4>1, Applied
      <4>3. Normalized(call.camera) \in Nat /\ ctl[i].camera \in Nat
        BY <1>5, <1>7, <4>1, ControllerAssumption DEF Normalized, Controller, Cameras
      <4>4. CASE call.op = "SetCamera"
        BY <1>5, <1>7, <4>2, <4>4 DEF Called, SetCamera
      <4>5. CASE call.op = "AnimateCamera"
        <5>1. \A x \in Nat : SetCamera(ctl[i], x).announce
          BY <4>2 DEF SetCamera
        <5> DEFINE e == ApplyCamera(ctl[i], ctl[i].camera, FALSE, FALSE)
        <5>2. e.announce /\ e \in Controller
          BY <4>1, <4>2, <4>3, Applied
        <5> HIDE DEF e
        <5>3. \A a : [e EXCEPT !.animation = a].announce = e.announce
          BY <5>2 DEF Controller
        <5>4. d = AnimateCamera(ctl[i], call.camera)
          BY <4>5 DEF Called
        <5> QED
          BY <4>3, <5>1, <5>2, <5>3, <5>4 DEF AnimateCamera, e
      <4> QED
        BY <1>7, <4>4, <4>5 DEF MovesCamera
    <3> QED
      BY <2>1, <2>6, <3>1 DEF Handles, Serves, ControllerOK, SameBinding
  <2> HIDE DEF d
  <2>8. Update(w, i, d) = Update(World, i, d)
    <3> DEFINE vs(x) == [u \in Views |->
                 IF d.announce /\ u \in d.observers
                 THEN [x[u] EXCEPT !.defaultCamera = d.camera]
                 ELSE x[u]]
               x2 == [views EXCEPT ![v] = view]
               cs == [ctl EXCEPT ![i] = [d EXCEPT !.announce = FALSE]]
    <3>1. vs(x2) = vs(views)
      <4>1. [view EXCEPT !.defaultCamera = d.camera]
              = [views[v] EXCEPT !.defaultCamera = d.camera]
        BY <1>1 DEF view, View
      <4>2. \A u \in Views : x2[u] = IF u = v THEN view ELSE views[u]
        BY <1>1
      <4> HIDE DEF x2
      <4> QED
        BY <2>7, <4>1, <4>2
    <3>2. Update(World, i, d) = [World EXCEPT !.ctl = cs, !.views = vs(views)]
      BY <1>1 DEF Update, WorldTyped
    <3>3. Update(w, i, d) = [w EXCEPT !.ctl = cs, !.views = vs(x2)]
      BY <1>1, <2>2 DEF Update, WorldTyped
    <3> HIDE DEF vs, cs
    <3>4. [w EXCEPT !.ctl = cs, !.views = vs(x2)]
            = [World EXCEPT !.ctl = cs, !.views = vs(x2)]
      BY <1>1, <2>2 DEF WorldTyped
    <3> QED
      BY <3>1, <3>2, <3>3, <3>4
  <2>9. InOrder(Update(World, i, d), {}) /\ Update(World, i, d).crashed = World.crashed
    BY <1>1, <2>1, <2>6, HandledInOrder
  <2>10. n = Update(World, i, d)
    BY <1>1, <2>1, <2>2, <2>4, <2>5, <2>8 DEF n, Checked, IsAlive
  <2> QED
    BY <1>2, <2>9, <2>10, BecomesOrdered
<1> QED
  BY <1>4, <1>6, <1>7

---------------------------------------------------------------------------
(* The surface, the configuration and the other fields of a view.          *)

(* A call that makes the controller show what its view has become.         *)
LEMMA ServedAt ==
  ASSUME NEW w, NEW v \in Views, InOrder(w, {v}), w.views[v].bound # None,
         NEW c, Serves(w.ctl[w.views[v].bound], c),
         c.surface <=> w.views[v].surfaceReady,
         w.views[v].size > 0 => c.size = w.views[v].size,
         w.views[v].internal # None => c.config = w.views[v].config
  PROVE  LET u == Update(w, w.views[v].bound, c)
         IN InOrder(u, {}) /\ u.crashed = w.crashed
<1> DEFINE k == w.views[v].bound
           u == Update(w, k, c)
<1>1. /\ WorldTyped(w) /\ Tied(w, v) /\ k # None
      /\ \A x \in Views : Tied(w, x)
  BY DEF InOrder
<1>2. k \in Controllers
  BY <1>1, WorldFields DEF View
<1>3. w.ctl[k].status = "alive" /\ w.ctl[k].attached = v
  BY <1>1 DEF Tied, BoundTied
<1>4. Serves(w.ctl[k], c)
  OBVIOUS
<1>5. \E x \in Views : w.views[x].bound = k
  OBVIOUS
<1>6. w.views[v].internal # None => w.views[v].internal = k
  BY <1>1 DEF Tied, InternalTied
<1>7. c \in Controller
  BY <1>4 DEF Serves, ControllerOK
<1> HIDE DEF k
<1>8. \A x \in Views \ {v} : w.views[x].bound = k =>
        SameScreen(w.ctl[k], c) /\ SameConfig(w.ctl[k], c)
  BY <1>1, <1>3, NotShared
<1>9. /\ InOrder(u, {v}) /\ u.crashed = w.crashed
      /\ u.ctl[k] = [c EXCEPT !.announce = FALSE]
      /\ \A x \in Views : SameView(w.views[x], u.views[x])
  BY <1>2, <1>3, <1>4, <1>5, <1>8, ServedInOrder
<1> HIDE DEF u
<1>10. u.ctl[k].surface = c.surface /\ u.ctl[k].size = c.size /\ u.ctl[k].config = c.config
  BY <1>7, <1>9 DEF Controller
<1>11. /\ u.views[v].bound = k /\ u.views[v].internal = w.views[v].internal
       /\ u.views[v].surfaceReady = w.views[v].surfaceReady
       /\ u.views[v].size = w.views[v].size /\ u.views[v].config = w.views[v].config
  BY <1>9 DEF SameView, k
<1>12. Shown(u, v)
  BY <1>6, <1>10, <1>11 DEF Shown
<1>13. InOrder(u, {})
  BY <1>9, <1>12, AllShown
<1> QED
  BY <1>9, <1>13 DEF u, k

(* The controller of a view that was `old` and whose surface or size has   *)
(* just changed shows what did not change.                                 *)
Showing(r, v, old, view) ==
  LET k == r.views[v].bound
  IN /\ InOrder(r, {v}) /\ ~r.crashed /\ k # None
     /\ r.ctl[k].status = "alive" /\ ControllerOK(r.ctl[k])
     /\ r.views[v].surfaceReady = view.surfaceReady
     /\ r.views[v].size = view.size
     /\ view.surfaceReady = old.surfaceReady =>
          (r.ctl[k].surface <=> view.surfaceReady)
     /\ view.size = old.size /\ view.size > 0 => r.ctl[k].size = view.size
     /\ r.views[v].internal # None => r.ctl[k].config = r.views[v].config

LEMMA PassesSurfaceOn ==
  ASSUME IInv, ~crashed, IdentityLeft, NEW v \in Views, NEW view \in View,
         SameRefs(views[v], view), view.defaultCamera = views[v].defaultCamera,
         view.config = views[v].config
  PROVE  LET r == EnsureActiveController(Retouched(World, v, view), v)
         IN Thrown(r) \/ Showing(r, v, views[v], view)
<1> DEFINE w == Retouched(World, v, view)
           r == EnsureActiveController(w, v)
           k == r.views[v].bound
<1>1. /\ World.views = views /\ World.ctl = ctl /\ InOrder(World, {})
      /\ ~World.crashed /\ Room(World)
  BY WorldIs DEF IInv, IdentityLeft, Room
<1>2. SameRefs(World.views[v], view) /\ view.defaultCamera = World.views[v].defaultCamera
  BY <1>1
<1>3. /\ InOrder(w, {v}) /\ w.crashed = World.crashed /\ w.ctl = World.ctl
      /\ w.views[v] = view /\ \A x \in Views \ {v} : w.views[x] = World.views[x]
      /\ Shown(w, v) => InOrder(w, {})
      /\ Room(World) => Room(w)
  BY <1>1, <1>2, RetouchedInOrder
<1> HIDE DEF w
<1>4. ~w.crashed /\ Room(w)
  BY <1>1, <1>3
<1>5. \/ w.views[v].bound # None /\ r = w
      \/ Thrown(r)
      \/ w.views[v].bound = None /\ Activated(w, r, v)
  BY <1>3, <1>4, EnsuredActive
<1> HIDE DEF r
<1>6. ASSUME InOrder(r, {v}), k # None
      PROVE  r.ctl[k].status = "alive" /\ ControllerOK(r.ctl[k])
  <2>1. Tied(r, v) /\ ControllersOK(r) /\ k \in Controllers
    BY <1>6, WorldFields DEF InOrder, View
  <2> QED
    BY <1>6, <2>1 DEF Tied, BoundTied, ControllersOK
<1>7. ASSUME w.views[v].bound # None /\ r = w
      PROVE  Showing(r, v, views[v], view)
  <2>1. Shown(World, v) /\ Tied(World, v)
    BY <1>1 DEF InOrder
  <2>2. k = view.bound /\ k = views[v].bound /\ k # None /\ r.ctl = ctl /\ r.views[v] = view
    BY <1>1, <1>3, <1>7 DEF SameRefs
  <2>3. /\ view.surfaceReady = views[v].surfaceReady =>
             (r.ctl[k].surface <=> view.surfaceReady)
        /\ view.size = views[v].size /\ view.size > 0 => r.ctl[k].size = view.size
    BY <1>1, <2>1, <2>2 DEF Shown
  <2>4. r.views[v].internal # None => r.ctl[k].config = r.views[v].config
    BY <1>1, <2>1, <2>2 DEF Shown, Tied, InternalTied, SameRefs
  <2> QED
    BY <1>3, <1>4, <1>6, <1>7, <2>2, <2>3, <2>4 DEF Showing
<1>8. ASSUME w.views[v].bound = None /\ Activated(w, r, v)
      PROVE  Showing(r, v, views[v], view)
  <2>1. InOrder(r, {}) /\ ~r.crashed /\ k \in Controllers
    BY <1>8 DEF Activated
  <2>2. InOrder(r, {v}) /\ Shown(r, v) /\ Tied(r, v) /\ k # None
    BY <2>1, ViewAssumption DEF InOrder
  <2>3. r.views[v].surfaceReady = view.surfaceReady /\ r.views[v].size = view.size
    BY <1>3, <1>8 DEF Activated
  <2>4. /\ r.ctl[k].surface <=> view.surfaceReady
        /\ view.size > 0 => r.ctl[k].size = view.size
    BY <2>2, <2>3 DEF Shown
  <2>5. r.views[v].internal # None => r.ctl[k].config = r.views[v].config
    BY <2>2 DEF Shown, Tied, InternalTied
  <2> QED
    BY <1>6, <2>1, <2>2, <2>3, <2>4, <2>5 DEF Showing
<1> QED
  BY <1>5, <1>7, <1>8 DEF r, w

LEMMA WorldEdit ==
  ASSUME IInv, NEW v \in Views
  PROVE  /\ views[v] \in View /\ views \in [Views -> View]
         /\ \A x : [World EXCEPT !.views[v].surfaceReady = x]
                     = Retouched(World, v, [views[v] EXCEPT !.surfaceReady = x])
         /\ \A x : [World EXCEPT !.views[v].size = x]
                     = Retouched(World, v, [views[v] EXCEPT !.size = x])
         /\ \A x : [World EXCEPT !.views[v].config = x]
                     = Retouched(World, v, [views[v] EXCEPT !.config = x])
         /\ \A x : [World EXCEPT !.views[v].fling = x]
                     = Retouched(World, v, [views[v] EXCEPT !.fling = x])
<1>1. WorldTyped(World) /\ views \in [Views -> View]
  BY WorldIs, WorldFields DEF IInv, InOrder
<1> QED
  BY <1>1, WorldIs DEF Retouched, WorldTyped

LEMMA SurfaceFlag ==
  ASSUME NEW view \in View, NEW x \in BOOLEAN
  PROVE  LET f == [view EXCEPT !.surfaceReady = x]
         IN /\ f \in View /\ SameRefs(view, f) /\ f.surfaceReady = x
            /\ f.defaultCamera = view.defaultCamera
            /\ f.config = view.config /\ f.size = view.size
<1> DEFINE f == [view EXCEPT !.surfaceReady = x]
<1>1. f \in View
  BY ViewFieldsTyped
<1>2. f.surfaceReady = x
  BY DEF View
<1>3. /\ f.external = view.external /\ f.internal = view.internal
      /\ f.bound = view.bound
  BY DEF View
<1>4. f.managed = view.managed
  BY DEF View
<1>5. f.defaultCamera = view.defaultCamera /\ f.config = view.config /\ f.size = view.size
  BY DEF View
<1> QED
  BY <1>1, <1>2, <1>3, <1>4, <1>5 DEF SameRefs

LEMMA SurfaceCreatedKeeps ==
  ASSUME IInv, ~crashed, IdentityLeft, NEW v \in Views, SurfaceCreated(v)
  PROVE  IInv'
<1> DEFINE view == [views[v] EXCEPT !.surfaceReady = TRUE]
           w == Retouched(World, v, view)
           r == EnsureActiveController(w, v)
           k == r.views[v].bound
           c == OnSurfaceCreated(r.ctl[k])
           n == IF r.crashed THEN r ELSE Checked(r, k, TRUE, Update(r, k, c))
<1>1. views[v] \in View /\ [World EXCEPT !.views[v].surfaceReady = TRUE] = w
  BY WorldEdit
<1>2. Becomes(n)
  BY <1>1 DEF SurfaceCreated, OnActive
<1>3. /\ view \in View /\ SameRefs(views[v], view) /\ view.surfaceReady = TRUE
      /\ view.defaultCamera = views[v].defaultCamera
      /\ view.config = views[v].config /\ view.size = views[v].size
  <2>1. views[v] \in View /\ TRUE \in BOOLEAN
    BY <1>1
  <2> QED
    BY <2>1, SurfaceFlag
<1> HIDE DEF view
<1>4. Thrown(r) \/ Showing(r, v, views[v], view)
  BY <1>3, PassesSurfaceOn
<1> HIDE DEF r
<1>5. Fine(n)
  <2>1. CASE Thrown(r)
    BY <2>1 DEF Thrown, Fine
  <2>2. CASE Showing(r, v, views[v], view)
    <3>1. /\ InOrder(r, {v}) /\ ~r.crashed /\ k # None
          /\ r.ctl[k].status = "alive" /\ ControllerOK(r.ctl[k])
          /\ r.views[v].surfaceReady = TRUE
          /\ r.views[v].size > 0 => r.ctl[k].size = r.views[v].size
          /\ r.views[v].internal # None => r.ctl[k].config = r.views[v].config
      BY <1>3, <2>2 DEF Showing
    <3>2. /\ Serves(r.ctl[k], c) /\ SameConfig(r.ctl[k], c)
          /\ c.surface = TRUE /\ c.size = r.ctl[k].size
      BY <3>1, SurfaceCreatedServes
    <3>3. /\ c.surface <=> r.views[v].surfaceReady
          /\ r.views[v].size > 0 => c.size = r.views[v].size
          /\ r.views[v].internal # None => c.config = r.views[v].config
      BY <3>1, <3>2 DEF SameConfig
    <3> HIDE DEF c
    <3>4. InOrder(Update(r, k, c), {}) /\ Update(r, k, c).crashed = r.crashed
      BY <3>1, <3>2, <3>3, ServedAt
    <3> QED
      BY <3>1, <3>4 DEF Checked, IsAlive, Fine
  <2> QED
    BY <1>4, <2>1, <2>2
<1> HIDE DEF n
<1> QED
  BY <1>2, <1>5, BecomesFine

LEMMA SurfaceChangedKeeps ==
  ASSUME IInv, ~crashed, IdentityLeft, NEW v \in Views, NEW size \in Sizes,
         SurfaceChanged(v, size)
  PROVE  IInv'
<1> DEFINE view == [views[v] EXCEPT !.size = size]
           w == Retouched(World, v, view)
           r == EnsureActiveController(w, v)
           k == r.views[v].bound
           c == OnSurfaceChanged(r.ctl[k], size)
           n == IF r.crashed THEN r ELSE Checked(r, k, TRUE, Update(r, k, c))
<1>1. views[v] \in View /\ [World EXCEPT !.views[v].size = size] = w
  BY WorldEdit
<1>2. Becomes(n)
  BY <1>1 DEF SurfaceChanged, OnActive
<1>3. /\ view \in View /\ SameRefs(views[v], view) /\ view.size = size
      /\ view.defaultCamera = views[v].defaultCamera
      /\ view.config = views[v].config /\ view.surfaceReady = views[v].surfaceReady
  BY <1>1, ViewFieldsTyped DEF View, SameRefs
<1> HIDE DEF view
<1>4. Thrown(r) \/ Showing(r, v, views[v], view)
  BY <1>3, PassesSurfaceOn
<1> HIDE DEF r
<1>5. Fine(n)
  <2>1. CASE Thrown(r)
    BY <2>1 DEF Thrown, Fine
  <2>2. CASE Showing(r, v, views[v], view)
    <3>1. /\ InOrder(r, {v}) /\ ~r.crashed /\ k # None
          /\ r.ctl[k].status = "alive" /\ ControllerOK(r.ctl[k])
          /\ r.ctl[k].surface <=> r.views[v].surfaceReady
          /\ r.views[v].size = size
          /\ r.views[v].internal # None => r.ctl[k].config = r.views[v].config
      BY <1>3, <2>2 DEF Showing
    <3>2. /\ Serves(r.ctl[k], c) /\ SameConfig(r.ctl[k], c)
          /\ c.surface = r.ctl[k].surface /\ c.size = size
      BY <3>1, SurfaceChangedServes
    <3>3. /\ c.surface <=> r.views[v].surfaceReady
          /\ r.views[v].size > 0 => c.size = r.views[v].size
          /\ r.views[v].internal # None => c.config = r.views[v].config
      BY <3>1, <3>2 DEF SameConfig
    <3> HIDE DEF c
    <3>4. InOrder(Update(r, k, c), {}) /\ Update(r, k, c).crashed = r.crashed
      BY <3>1, <3>2, <3>3, ServedAt
    <3> QED
      BY <3>1, <3>4 DEF Checked, IsAlive, Fine
  <2> QED
    BY <1>4, <2>1, <2>2
<1> HIDE DEF n
<1> QED
  BY <1>2, <1>5, BecomesFine

LEMMA SurfaceDestroyedKeeps ==
  ASSUME IInv, NEW v \in Views, SurfaceDestroyed(v)
  PROVE  IInv'
<1> DEFINE view == [views[v] EXCEPT !.surfaceReady = FALSE]
           w == Retouched(World, v, view)
           k == views[v].bound
           c == OnSurfaceDestroyed(ctl[k])
           n == IF k = None THEN w ELSE Update(w, k, c)
<1>1. views[v] \in View /\ [World EXCEPT !.views[v].surfaceReady = FALSE] = w
  BY WorldEdit
<1>2. Becomes(n)
  BY <1>1 DEF SurfaceDestroyed
<1>3. /\ view \in View /\ SameRefs(views[v], view) /\ view.surfaceReady = FALSE
      /\ view.defaultCamera = views[v].defaultCamera
      /\ view.config = views[v].config /\ view.size = views[v].size
  <2>1. views[v] \in View /\ FALSE \in BOOLEAN
    BY <1>1
  <2> QED
    BY <2>1, SurfaceFlag
<1>4. World.views = views /\ World.ctl = ctl /\ InOrder(World, {})
  BY WorldIs DEF IInv
<1> HIDE DEF view
<1>5. /\ InOrder(w, {v}) /\ w.crashed = World.crashed /\ w.ctl = World.ctl
      /\ w.views[v] = view /\ \A x \in Views \ {v} : w.views[x] = World.views[x]
      /\ Shown(w, v) => InOrder(w, {})
      /\ Room(World) => Room(w)
  BY <1>3, <1>4, RetouchedInOrder
<1>6. Shown(World, v) /\ Tied(World, v) /\ ControllersOK(World)
  BY <1>4 DEF InOrder
<1> HIDE DEF w
<1>7. CASE k = None
  <2>1. Shown(w, v)
    BY <1>3, <1>4, <1>5, <1>6, <1>7 DEF Shown, SameRefs, Tied, InternalTied
  <2> QED
    BY <1>2, <1>5, <1>7, <2>1, BecomesOrdered
<1>8. CASE k # None
  <2>1. ctl[k].status = "alive" /\ k \in Controllers
    BY <1>1, <1>4, <1>6, <1>8 DEF Tied, BoundTied, View
  <2>2. ControllerOK(ctl[k])
    BY <1>4, <1>6, <2>1 DEF ControllersOK
  <2>3. /\ Serves(ctl[k], c) /\ SameConfig(ctl[k], c)
        /\ c.surface = FALSE /\ c.size = ctl[k].size
    BY <2>1, <2>2, SurfaceDestroyedServes
  <2> HIDE DEF c
  <2>4. w.views[v].bound = k /\ w.views[v].bound # None
    BY <1>3, <1>5, <1>8 DEF SameRefs
  <2>5. /\ Serves(w.ctl[w.views[v].bound], c)
        /\ c.surface <=> w.views[v].surfaceReady
    BY <1>3, <1>4, <1>5, <2>3, <2>4
  <2>6. /\ w.views[v].size > 0 => c.size = w.views[v].size
        /\ w.views[v].internal # None => c.config = w.views[v].config
    BY <1>3, <1>4, <1>5, <1>6, <1>8, <2>3 DEF Shown, SameRefs, SameConfig, Tied, InternalTied
  <2>7. LET u == Update(w, w.views[v].bound, c)
        IN InOrder(u, {}) /\ u.crashed = w.crashed
    BY <1>5, <2>4, <2>5, <2>6, ServedAt
  <2> QED
    BY <1>2, <1>5, <1>8, <2>4, <2>7, BecomesOrdered
<1> QED
  BY <1>7, <1>8

(* setTileUrlTemplate and setCacheDir, and the new renderer of the view's  *)
(* own controller.                                                         *)
LEMMA SetConfigKeeps ==
  ASSUME IInv, NEW v \in Views, NEW config \in Configs, SetConfig(v, config)
  PROVE  IInv'
<1> DEFINE view == [views[v] EXCEPT !.config = config]
           w == Retouched(World, v, view)
           k == views[v].internal
           c == UpdateRendererConfig(ctl[k], config)
           n == IF k = None THEN w
                ELSE Checked(w, k, ctl[k].owns, Update(w, k, c))
<1>1. views[v] \in View /\ [World EXCEPT !.views[v].config = config] = w
  BY WorldEdit
<1>2. Becomes(n)
  BY <1>1 DEF SetConfig
<1>3. /\ view \in View /\ SameRefs(views[v], view) /\ view.config = config
      /\ view.defaultCamera = views[v].defaultCamera
      /\ view.surfaceReady = views[v].surfaceReady /\ view.size = views[v].size
  BY <1>1, ViewFieldsTyped DEF View, SameRefs
<1>4. World.views = views /\ World.ctl = ctl /\ InOrder(World, {})
  BY WorldIs DEF IInv
<1> HIDE DEF view
<1>5. /\ InOrder(w, {v}) /\ w.crashed = World.crashed /\ w.ctl = World.ctl
      /\ w.views[v] = view /\ \A x \in Views \ {v} : w.views[x] = World.views[x]
      /\ Shown(w, v) => InOrder(w, {})
      /\ Room(World) => Room(w)
  BY <1>3, <1>4, RetouchedInOrder
<1>6. Shown(World, v) /\ Tied(World, v) /\ ControllersOK(World)
  BY <1>4 DEF InOrder
<1> HIDE DEF w
<1>7. CASE k = None
  <2>1. Shown(w, v)
    BY <1>3, <1>4, <1>5, <1>6, <1>7 DEF Shown, SameRefs
  <2> QED
    BY <1>2, <1>5, <1>7, <2>1, BecomesOrdered
<1>8. CASE k # None
  <2>1. ctl[k].status = "alive" /\ k \in Controllers /\ views[v].bound = k
    BY <1>1, <1>4, <1>6, <1>8 DEF Tied, BoundTied, InternalTied, View
  <2>2. ControllerOK(ctl[k]) /\ ctl[k].config = views[v].config
    BY <1>4, <1>6, <1>8, <2>1 DEF ControllersOK, Shown
  <2>3. ctl[k].owns
    BY <1>1, <2>2, ControllerAssumption DEF ControllerOK, View
  <2>4. Serves(ctl[k], c) /\ SameScreen(ctl[k], c) /\ c.config = config
    BY <2>1, <2>2, <2>3, UpdateConfigServes
  <2> HIDE DEF c
  <2>5. w.views[v].bound = k /\ w.views[v].bound # None
    BY <1>3, <1>5, <1>8, <2>1 DEF SameRefs
  <2>6. /\ Serves(w.ctl[w.views[v].bound], c)
        /\ c.surface <=> w.views[v].surfaceReady
    BY <1>3, <1>4, <1>5, <1>6, <1>8, <2>1, <2>4, <2>5 DEF Shown, SameScreen
  <2>7. /\ w.views[v].size > 0 => c.size = w.views[v].size
        /\ w.views[v].internal # None => c.config = w.views[v].config
    BY <1>3, <1>4, <1>5, <1>6, <1>8, <2>1, <2>4 DEF Shown, SameScreen
  <2>8. LET u == Update(w, w.views[v].bound, c)
        IN InOrder(u, {}) /\ u.crashed = w.crashed
    BY <1>5, <2>5, <2>6, <2>7, ServedAt
  <2>9. n = Update(w, k, c)
    BY <1>4, <1>5, <1>8, <2>1, <2>3 DEF Checked, IsAlive
  <2> QED
    BY <1>2, <1>5, <2>5, <2>8, <2>9, BecomesOrdered
<1> QED
  BY <1>7, <1>8

LEMMA StopViewAnimationKeeps ==
  ASSUME IInv, NEW v \in Views, StopViewAnimation(v)
  PROVE  IInv'
<1> DEFINE k == ActiveController(views[v])
           c == StopAnimation(ctl[k])
<1>1. /\ WorldTyped(World) /\ World.ctl = ctl /\ InOrder(World, {})
      /\ views[v] \in View /\ ControllersOK(World)
  BY WorldIs, WorldEdit DEF IInv, InOrder
<1>2. k \in Controllers /\ Becomes(Checked(World, k, TRUE, Update(World, k, c)))
  BY <1>1 DEF StopViewAnimation, ActiveController, View
<1> HIDE DEF k
<1>3. CASE ctl[k].status = "alive"
  <2>1. ControllerOK(ctl[k])
    BY <1>1, <1>2 DEF ControllersOK
  <2>2. Handles(World.ctl[k], c)
    BY <1>1, <1>3, <2>1, StopAnimationHandles
  <2> HIDE DEF c
  <2>3. InOrder(Update(World, k, c), {}) /\ Update(World, k, c).crashed = World.crashed
    BY <1>1, <1>2, <1>3, <2>2, HandledInOrder
  <2>4. Becomes(Update(World, k, c))
    BY <1>1, <1>2, <1>3 DEF Checked, IsAlive
  <2> QED
    BY <2>3, <2>4, BecomesOrdered
<1>4. CASE ctl[k].status # "alive"
  <2>1. Becomes(Throws(World))
    BY <1>1, <1>2, <1>4 DEF Checked, IsAlive
  <2>2. Tied(World, v) /\ World.views = views /\ k # None
    BY <1>1, <1>2, WorldIs, ViewAssumption DEF InOrder
  <2>3. UsesEngine
    <3>1. k = views[v].bound \/ k = views[v].external \/ k = views[v].internal
      BY DEF k, ActiveController
    <3>2. k # views[v].bound /\ k # views[v].internal
      BY <1>1, <1>4, <2>2 DEF Tied, BoundTied, InternalTied
    <3> QED
      BY <1>1, <1>4, <2>2, <3>1, <3>2 DEF Tied, ExternalTied
  <2> QED
    BY <1>1, <2>1, <2>3, ThrownIsFine, BecomesFine DEF ChecksMayFail
<1> QED
  BY <1>3, <1>4

LEMMA FlingAndWindow ==
  ASSUME NEW view \in View, NEW x \in BOOLEAN
  PROVE  LET f == [view EXCEPT !.fling = x]
             g == [view EXCEPT !.window = x]
         IN /\ f \in View /\ SameView(view, f) /\ f.defaultCamera = view.defaultCamera
            /\ g \in View /\ SameView(view, g) /\ g.defaultCamera = view.defaultCamera
<1> DEFINE f == [view EXCEPT !.fling = x]
           g == [view EXCEPT !.window = x]
<1>1. f \in View /\ g \in View
  BY ViewFieldsTyped
<1>2. SameView(view, f) /\ f.defaultCamera = view.defaultCamera
  BY DEF View, SameView
<1>3. SameView(view, g) /\ g.defaultCamera = view.defaultCamera
  BY DEF View, SameView
<1> QED
  BY <1>1, <1>2, <1>3

LEMMA AttachToWindowKeeps ==
  ASSUME IInv, NEW v \in Views, AttachToWindow(v)
  PROVE  IInv'
<1> DEFINE view == [views[v] EXCEPT !.window = TRUE]
           w == Retouched(World, v, view)
<1>1. views[v] \in View
  BY WorldEdit
<1>2. view \in View /\ SameView(views[v], view) /\ view.defaultCamera = views[v].defaultCamera
  BY <1>1, FlingAndWindow
<1>3. World' = w
  <2> DEFINE vs == [views EXCEPT ![v] = view]
  <2>1. views' = vs /\ ctl' = ctl /\ made' = made /\ crashed' = crashed
    BY DEF AttachToWindow
  <2>2. w = [World EXCEPT !.views = vs]
    BY WorldIs DEF World, Retouched
  <2> HIDE DEF vs, w
  <2>3. w = [views |-> vs, ctl |-> ctl, made |-> made, crashed |-> crashed]
    BY <2>2 DEF World
  <2> QED
    BY <2>1, <2>3 DEF World
<1> HIDE DEF view
<1>4. /\ InOrder(w, {}) /\ w.crashed = World.crashed /\ w.ctl = World.ctl
      /\ w.views[v] = view
      /\ Room(World) => Room(w)
  <2>1. World.views = views /\ InOrder(World, {})
    BY WorldIs DEF IInv
  <2> QED
    BY <1>2, <2>1, TouchedInOrder
<1> QED
  BY <1>3, <1>4 DEF IInv

LEMMA FlingChanged ==
  ASSUME NEW w, NEW v \in Views, InOrder(w, {}), NEW x \in BOOLEAN
  PROVE  LET u == [w EXCEPT !.views[v].fling = x]
         IN InOrder(u, {}) /\ u.crashed = w.crashed
<1> DEFINE view == [w.views[v] EXCEPT !.fling = x]
<1>1. WorldTyped(w) /\ w.views \in [Views -> View]
  BY WorldFields DEF InOrder
<1>2. /\ view \in View /\ SameView(w.views[v], view)
      /\ view.defaultCamera = w.views[v].defaultCamera
  <2>1. w.views[v] \in View
    BY <1>1
  <2> QED
    BY <2>1, FlingAndWindow
<1>3. [w EXCEPT !.views[v].fling = x] = Retouched(w, v, view)
  BY <1>1 DEF Retouched, WorldTyped
<1> HIDE DEF view
<1>4. LET u == Retouched(w, v, view)
      IN /\ InOrder(u, {}) /\ u.crashed = w.crashed /\ u.ctl = w.ctl
         /\ u.views[v] = view
         /\ Room(w) => Room(u)
  BY <1>2, TouchedInOrder
<1> QED
  BY <1>3, <1>4

LEMMA TouchesKeep ==
  ASSUME IInv, ~crashed, IdentityLeft, NEW v \in Views,
         \/ StartFling(v) \/ StopFling(v)
         \/ \E camera \in Cameras : Pan(v, camera)
         \/ \E camera \in Cameras, ends \in BOOLEAN : FlingFrame(v, camera, ends)
  PROVE  IInv'
<1>1. /\ World.views = views /\ InOrder(World, {}) /\ ~World.crashed /\ Room(World)
  BY WorldIs DEF IInv, IdentityLeft, Room
<1>2. ASSUME NEW x \in BOOLEAN, Becomes([World EXCEPT !.views[v].fling = x])
      PROVE  IInv'
  <2> DEFINE u == [World EXCEPT !.views[v].fling = x]
  <2>1. InOrder(u, {}) /\ u.crashed = World.crashed
    BY <1>1, FlingChanged
  <2>2. Becomes(u)
    BY <1>2
  <2> HIDE DEF u
  <2> QED
    BY <2>1, <2>2, BecomesOrdered
<1>3. CASE StartFling(v)
  BY <1>2, <1>3 DEF StartFling
<1>4. CASE StopFling(v)
  BY <1>2, <1>4 DEF StopFling
<1>5. CASE \E camera \in Cameras : Pan(v, camera)
  <2>1. PICK camera \in Cameras : Pan(v, camera)
    BY <1>5
  <2>2. Fine(PanBy(World, v, camera))
    BY <1>1, PannedFine
  <2> QED
    BY <2>1, <2>2, BecomesFine DEF Pan
<1>6. CASE \E camera \in Cameras, ends \in BOOLEAN : FlingFrame(v, camera, ends)
  <2>1. PICK camera \in Cameras, ends \in BOOLEAN : FlingFrame(v, camera, ends)
    BY <1>6
  <2> DEFINE x == ~(ends \/ views[v].size = 0)
             p == PanBy(World, v, camera)
             n == [p EXCEPT !.views[v].fling = x]
  <2>2. Becomes(n)
    BY <2>1 DEF FlingFrame
  <2>3. Fine(p)
    BY <1>1, PannedFine
  <2>4. x \in BOOLEAN
    OBVIOUS
  <2> HIDE DEF p, x
  <2>5. CASE Thrown(p)
    <3>1. Fine(n)
      <4>1. p.views \in [Views -> View]
        BY <2>5, WorldFields DEF Thrown
      <4>2. [p.views EXCEPT ![v].fling = x] \in [Views -> View]
        BY <2>4, <4>1, ViewFieldsTyped
      <4>3. Thrown(n)
        BY <2>5, <4>2 DEF Thrown, WorldTyped
      <4> HIDE DEF n
      <4> QED
        BY <4>3 DEF Fine
    <3> HIDE DEF n
    <3> QED
      BY <2>2, <3>1, BecomesFine
  <2>6. CASE InOrder(p, {}) /\ (p.crashed => ChecksMayFail)
    <3>1. InOrder(n, {}) /\ n.crashed = p.crashed
      BY <2>4, <2>6, FlingChanged
    <3>2. Fine(n)
      <4> HIDE DEF n
      <4> QED
        BY <2>6, <3>1 DEF Fine
    <3> HIDE DEF n
    <3> QED
      BY <2>2, <3>2, BecomesFine
  <2> QED
    BY <2>3, <2>5, <2>6 DEF Fine
<1> QED
  BY <1>3, <1>4, <1>5, <1>6

---------------------------------------------------------------------------
(* A view and a controller part.                                           *)

LEMMA RetouchedFields ==
  ASSUME NEW w, WorldTyped(w), NEW v \in Views, NEW view \in View
  PROVE  LET u == Retouched(w, v, view)
         IN /\ WorldTyped(u) /\ u.ctl = w.ctl /\ u.made = w.made /\ u.crashed = w.crashed
            /\ u.views[v] = view /\ \A x \in Views \ {v} : u.views[x] = w.views[x]
<1> DEFINE vs == [w.views EXCEPT ![v] = view]
           u == [w EXCEPT !.views = vs]
<1>1. w.views \in [Views -> View]
  BY WorldFields
<1>2. Retouched(w, v, view) = u
  BY DEF Retouched, WorldTyped
<1>3. vs \in [Views -> View] /\ vs[v] = view /\ \A x \in Views \ {v} : vs[x] = w.views[x]
  BY <1>1
<1> HIDE DEF vs
<1>4. /\ WorldTyped(u) /\ u.made = w.made /\ u.crashed = w.crashed /\ u.ctl = w.ctl
      /\ u.views = vs
  BY <1>3 DEF WorldTyped
<1> QED
  BY <1>2, <1>3, <1>4

Recontrolled(w, k, c) == [w EXCEPT !.ctl[k] = c]

LEMMA RecontrolledFields ==
  ASSUME NEW w, WorldTyped(w), NEW k \in Controllers, NEW c \in Controller
  PROVE  LET u == Recontrolled(w, k, c)
         IN /\ WorldTyped(u) /\ u.views = w.views /\ u.made = w.made
            /\ u.crashed = w.crashed
            /\ u.ctl[k] = c /\ \A j \in Controllers \ {k} : u.ctl[j] = w.ctl[j]
<1> DEFINE cs == [w.ctl EXCEPT ![k] = c]
           u == [w EXCEPT !.ctl = cs]
<1>1. w.ctl \in [Controllers -> Controller]
  BY WorldFields
<1>2. Recontrolled(w, k, c) = u
  BY DEF Recontrolled, WorldTyped
<1>3. /\ cs \in [Controllers -> Controller] /\ cs[k] = c
      /\ \A j \in Controllers \ {k} : cs[j] = w.ctl[j]
  BY <1>1
<1> HIDE DEF cs
<1>4. /\ WorldTyped(u) /\ u.made = w.made /\ u.crashed = w.crashed /\ u.views = w.views
      /\ u.ctl = cs
  BY <1>3 DEF WorldTyped
<1> QED
  BY <1>2, <1>3, <1>4

(* Who listens to a controller and whose it is are fields of their own.    *)
Rebound(c, x, y) == [[c EXCEPT !.observers = x] EXCEPT !.attached = y]

LEMMA ReboundOK ==
  ASSUME NEW c, ControllerOK(c), NEW x \in SUBSET Views, NEW y \in Views \cup {None},
         c.status = "alive" \/ (x = {} /\ y = None)
  PROVE  LET d == Rebound(c, x, y)
         IN /\ ControllerOK(d) /\ d.status = c.status /\ d.observers = x
            /\ d.attached = y /\ d.announce = c.announce /\ d.surface = c.surface
            /\ d.size = c.size /\ d.config = c.config
<1> DEFINE d == Rebound(c, x, y)
<1>1. c \in Controller
  BY DEF ControllerOK
<1>2. d \in Controller
  BY <1>1, OtherFieldsTyped DEF Rebound
<1>3. /\ d.status = c.status /\ d.observers = x /\ d.attached = y
      /\ d.camera = c.camera /\ d.pending = c.pending /\ d.native = c.native
      /\ d.layers = c.layers /\ d.fit = c.fit /\ d.animation = c.animation
      /\ d.size = c.size /\ d.config = c.config
  BY <1>1 DEF Rebound, Controller
<1>4. /\ d.posted = c.posted /\ d.scheduled = c.scheduled
      /\ d.surface = c.surface /\ d.owns = c.owns /\ d.announce = c.announce
  BY <1>1 DEF Rebound, Controller
<1> HIDE DEF d
<1>5. CameraKept(d) /\ SurfaceKept(d) /\ LayersKept(d) /\ Quiet(d)
  BY <1>3, <1>4 DEF ControllerOK, CameraKept, SurfaceKept, LayersKept, Quiet
<1>6. ControllerOK(d)
  BY <1>2, <1>3, <1>4, <1>5 DEF ControllerOK
<1> QED
  BY <1>3, <1>4, <1>6 DEF d

(* What a view leaves of a controller c.                                   *)
LetGo(c, d, destroy) ==
  /\ ControllerOK(d) /\ ~d.announce /\ ~d.surface /\ d.observers = {}
  /\ d.attached = None
  /\ d.status = "free" <=> c.status = "free"
  /\ destroy => d.status # "alive"
  /\ c.status # "alive" => d = c

OnlyLetsGo(w, u, k, destroy) ==
  /\ WorldTyped(u) /\ u.views = w.views /\ u.made = w.made
  /\ u.crashed = w.crashed
  /\ \A j \in Controllers \ {k} : u.ctl[j] = w.ctl[j]
  /\ LetGo(w.ctl[k], u.ctl[k], destroy)

LEMMA Destroyed ==
  ASSUME NEW w, WorldTyped(w), NEW k \in Controllers, ControllerOK(w.ctl[k]),
         ~w.ctl[k].announce, w.ctl[k].attached = None, w.ctl[k].observers = {},
         ~w.ctl[k].surface
  PROVE  OnlyLetsGo(w, DestroyController(w, k), k, TRUE)
<1> DEFINE c == w.ctl[k]
           d == Destroy(c)
           u == DestroyController(w, k)
<1>1. CASE c.status # "alive"
  BY <1>1 DEF DestroyController, IsAlive, LetGo, OnlyLetsGo
<1>2. CASE c.status = "alive"
  <2>1. u = Recontrolled(w, k, d)
    BY <1>2 DEF DestroyController, IsAlive, Recontrolled, WorldTyped
  <2>2. /\ ControllerOK(d) /\ d.status = "destroyed" /\ d.announce = c.announce
        /\ ~d.surface /\ d.observers = {} /\ d.attached = None
    BY <1>2, DestroyOK
  <2>3. d \in Controller
    BY <2>2 DEF ControllerOK
  <2> HIDE DEF d, u
  <2>4. /\ WorldTyped(u) /\ u.views = w.views /\ u.made = w.made
        /\ u.crashed = w.crashed
        /\ u.ctl[k] = d /\ \A j \in Controllers \ {k} : u.ctl[j] = w.ctl[j]
    BY <2>1, <2>3, RecontrolledFields
  <2>5. LetGo(c, u.ctl[k], TRUE)
    BY <1>2, <2>2, <2>4 DEF LetGo
  <2> QED
    BY <2>4, <2>5 DEF u, OnlyLetsGo
<1> QED
  BY <1>1, <1>2

(* Detach after Unobserve.                                                 *)
LEMMA Unattached ==
  ASSUME NEW w, WorldTyped(w), NEW v \in Views, NEW k \in Controllers,
         w.ctl[k].observers \subseteq {v}, w.ctl[k].attached \in {None, v}
  PROVE  /\ Unobserve(w, v, k) = Recontrolled(w, k, [w.ctl[k] EXCEPT !.observers = {}])
         /\ Detach(Unobserve(w, v, k), v, k)
              = Recontrolled(w, k, Rebound(w.ctl[k], {}, None))
<1> DEFINE c == w.ctl[k]
           o == [c EXCEPT !.observers = {}]
           d == [o EXCEPT !.attached = None]
<1>1. w.ctl \in [Controllers -> Controller] /\ c \in Controller
  BY WorldFields
<1>2. c.observers \ {v} = {}
  OBVIOUS
<1>3. Unobserve(w, v, k) = Recontrolled(w, k, o)
  <2>1. o = [c EXCEPT !.observers = @ \ {v}]
    BY <1>2
  <2> HIDE DEF o
  <2> QED
    BY <1>1, <2>1 DEF Unobserve, Recontrolled, WorldTyped
<1>4. o.attached = c.attached
  BY <1>1 DEF Controller
<1>5. d = [o EXCEPT !.attached = IF @ = v THEN None ELSE @]
  <2> HIDE DEF o
  <2>1. (IF o.attached = v THEN None ELSE o.attached) = None
    BY <1>4
  <2> QED
    BY <2>1
<1>6. d = Rebound(c, {}, None)
  BY DEF Rebound
<1> HIDE DEF d, o
<1>7. Detach(Recontrolled(w, k, o), v, k) = Recontrolled(w, k, d)
  <2> DEFINE r == Recontrolled(w, k, o)
             cs == [w.ctl EXCEPT ![k] = o]
  <2>1. r = [w EXCEPT !.ctl = cs] /\ r.ctl = cs /\ r.ctl[k] = o
    BY <1>1 DEF Recontrolled, WorldTyped
  <2>2. Detach(r, v, k) = [r EXCEPT !.ctl = [cs EXCEPT ![k] = d]]
    BY <1>5, <2>1 DEF Detach
  <2>3. [cs EXCEPT ![k] = d] = [w.ctl EXCEPT ![k] = d]
    BY <1>1
  <2>4. [r EXCEPT !.ctl = [w.ctl EXCEPT ![k] = d]] = Recontrolled(w, k, d)
    BY <2>1 DEF Recontrolled, WorldTyped
  <2> HIDE DEF r
  <2> QED
    BY <2>2, <2>3, <2>4 DEF r
<1> QED
  BY <1>3, <1>6, <1>7 DEF o

(* A controller that shows nothing.                                        *)
LEMMA Released ==
  ASSUME NEW w, WorldTyped(w), NEW v \in Views, NEW k \in Controllers,
         ControllerOK(w.ctl[k]), ~w.ctl[k].announce, ~w.ctl[k].surface,
         w.ctl[k].observers \subseteq {v}, w.ctl[k].attached \in {None, v},
         NEW destroy \in BOOLEAN
  PROVE  OnlyLetsGo(w, Release(w, v, k, destroy), k, destroy)
<1> DEFINE c == w.ctl[k]
           d == Rebound(c, {}, None)
           r == Recontrolled(w, k, d)
<1>1. Detach(Unobserve(w, v, k), v, k) = r
  BY Unattached
<1>2. /\ ControllerOK(d) /\ d.status = c.status /\ d.observers = {}
      /\ d.attached = None /\ d.announce = c.announce /\ d.surface = c.surface
  BY ReboundOK
<1>3. c.status # "alive" => d = c
  <2>1. c \in Controller
    BY DEF ControllerOK
  <2>2. c.status # "alive" => c.observers = {} /\ c.attached = None
    BY DEF ControllerOK, Quiet
  <2>3. [[c EXCEPT !.observers = c.observers] EXCEPT !.attached = c.attached] = c
    BY <2>1 DEF Controller
  <2> QED
    BY <2>2, <2>3 DEF Rebound
<1>4. d \in Controller
  BY <1>2 DEF ControllerOK
<1> HIDE DEF d
<1>5. /\ WorldTyped(r) /\ r.views = w.views /\ r.made = w.made
      /\ r.crashed = w.crashed
      /\ r.ctl[k] = d /\ \A j \in Controllers \ {k} : r.ctl[j] = w.ctl[j]
  BY <1>4, RecontrolledFields
<1> HIDE DEF r
<1>6. CASE destroy
  <2> DEFINE u == DestroyController(r, k)
  <2>1. OnlyLetsGo(r, u, k, TRUE)
    <3>1. /\ ControllerOK(r.ctl[k]) /\ ~r.ctl[k].announce /\ r.ctl[k].attached = None
          /\ r.ctl[k].observers = {} /\ ~r.ctl[k].surface
      BY <1>2, <1>5
    <3> QED
      BY <1>5, <3>1, Destroyed
  <2>2. Release(w, v, k, destroy) = u
    BY <1>1, <1>6 DEF Release
  <2> HIDE DEF u
  <2>3. LetGo(c, u.ctl[k], destroy)
    BY <1>2, <1>3, <1>5, <1>6, <2>1 DEF LetGo, OnlyLetsGo
  <2> QED
    BY <1>5, <2>1, <2>2, <2>3 DEF OnlyLetsGo
<1>7. CASE ~destroy
  <2>1. Release(w, v, k, destroy) = r
    BY <1>1, <1>7 DEF Release
  <2>2. LetGo(c, r.ctl[k], destroy)
    BY <1>2, <1>3, <1>5, <1>7 DEF LetGo
  <2> QED
    BY <1>5, <2>1, <2>2 DEF OnlyLetsGo
<1> QED
  BY <1>6, <1>7

(* Rebound changes one field at a time.                                    *)
LEMMA ReboundOnce ==
  ASSUME NEW c \in Controller
  PROVE  /\ \A x : [c EXCEPT !.observers = x] = Rebound(c, x, c.attached)
         /\ \A y : [c EXCEPT !.attached = y] = Rebound(c, c.observers, y)
<1>1. ASSUME NEW x PROVE [c EXCEPT !.observers = x] = Rebound(c, x, c.attached)
  BY DEF Rebound, Controller
<1>2. ASSUME NEW y PROVE [c EXCEPT !.attached = y] = Rebound(c, c.observers, y)
  <2>1. [c EXCEPT !.observers = c.observers] = c
    BY DEF Controller
  <2> QED
    BY <2>1 DEF Rebound
<1> QED
  BY <1>1, <1>2

(* unbindController hides the surface first, while the controller is still *)
(* attached and no longer observed.                                        *)
Hidden(w, v, k) ==
  IF w.views[v].surfaceReady
  THEN Update(Unobserve(w, v, k), k, OnSurfaceDestroyed(Unobserve(w, v, k).ctl[k]))
  ELSE Unobserve(w, v, k)

(* k is attached to v, at most v observes it, and it has v's surface.      *)
Holds(w, v, k) ==
  LET c == w.ctl[k]
  IN /\ WorldTyped(w) /\ ControllerOK(c) /\ ~c.announce /\ c.status = "alive"
     /\ c.observers \subseteq {v} /\ c.attached = v
     /\ c.surface <=> w.views[v].surfaceReady

Conceals(w, u, v, k) ==
  LET d == u.ctl[k]
  IN /\ WorldTyped(u) /\ u.made = w.made /\ u.crashed = w.crashed
     /\ \A x \in Views : u.views[x] = w.views[x]
     /\ \A j \in Controllers \ {k} : u.ctl[j] = w.ctl[j]
     /\ ControllerOK(d) /\ d.announce = FALSE /\ d.surface = FALSE
     /\ d.status = "alive" /\ d.observers = {} /\ d.attached = v

LEMMA HiddenFields ==
  ASSUME NEW w, NEW v \in Views, NEW k \in Controllers, Holds(w, v, k)
  PROVE  Conceals(w, Hidden(w, v, k), v, k)
<1> DEFINE c == w.ctl[k]
           o == Rebound(c, {}, v)
           r == Recontrolled(w, k, o)
<1>1. /\ WorldTyped(w) /\ ControllerOK(c) /\ ~c.announce /\ c.status = "alive"
      /\ c.observers \subseteq {v} /\ c.attached = v /\ c \in Controller
      /\ c.surface <=> w.views[v].surfaceReady
  BY DEF Holds, ControllerOK
<1>2. Unobserve(w, v, k) = r
  <2>1. [c EXCEPT !.observers = {}] = Rebound(c, {}, c.attached)
    BY <1>1, ReboundOnce
  <2>2. Rebound(c, {}, c.attached) = o
    BY <1>1
  <2>3. Unobserve(w, v, k) = Recontrolled(w, k, [c EXCEPT !.observers = {}])
    BY <1>1, Unattached
  <2> HIDE DEF o
  <2> QED
    BY <2>1, <2>2, <2>3
<1>3. /\ ControllerOK(o) /\ o.status = "alive" /\ o.observers = {}
      /\ o.attached = v /\ o.announce = c.announce /\ o.surface = c.surface
  BY <1>1, ReboundOK
<1>4. o \in Controller
  BY <1>3 DEF ControllerOK
<1> HIDE DEF o
<1>5. /\ WorldTyped(r) /\ r.views = w.views /\ r.made = w.made
      /\ r.crashed = w.crashed
      /\ r.ctl[k] = o /\ \A j \in Controllers \ {k} : r.ctl[j] = w.ctl[j]
  BY <1>1, <1>4, RecontrolledFields
<1> HIDE DEF r
<1>6. CASE ~w.views[v].surfaceReady
  <2>1. Hidden(w, v, k) = r
    BY <1>2, <1>6 DEF Hidden
  <2>2. o.announce = FALSE /\ o.surface = FALSE
    BY <1>1, <1>3, <1>4, <1>6 DEF Controller
  <2> QED
    BY <1>3, <1>5, <2>1, <2>2 DEF Conceals
<1>7. CASE w.views[v].surfaceReady
  <2> DEFINE d == OnSurfaceDestroyed(o)
             e == [d EXCEPT !.announce = FALSE]
             u == Update(r, k, d)
  <2>1. Hidden(w, v, k) = u
    BY <1>2, <1>5, <1>7 DEF Hidden
  <2>2. /\ Serves(o, d) /\ d.surface = FALSE /\ d.announce = o.announce
    BY <1>3, SurfaceDestroyedServes
  <2>3. /\ ControllerOK(d) /\ d \in Controller /\ d.status = "alive" /\ d.observers = {}
        /\ d.attached = v /\ ~d.announce
    BY <1>1, <1>3, <2>2 DEF Serves, SameBinding, ControllerOK
  <2> HIDE DEF d
  <2>4. /\ WorldTyped(u) /\ u.made = r.made /\ u.crashed = r.crashed
        /\ u.ctl[k] = e
        /\ \A j \in Controllers \ {k} : u.ctl[j] = r.ctl[j]
        /\ \A x \in Views :
             u.views[x] = IF d.announce /\ x \in d.observers
                          THEN [r.views[x] EXCEPT !.defaultCamera = d.camera]
                          ELSE r.views[x]
    <3>1. WorldTyped(r) /\ d \in Controller
      BY <1>5, <2>3
    <3> QED
      BY <3>1, Updated
  <2> HIDE DEF u
  <2>5. \A x \in Views : u.views[x] = w.views[x]
    BY <1>5, <2>3, <2>4
  <2>6. ControllerOK(e) /\ e.announce = FALSE
    BY <2>3, Silenced
  <2>7. e.surface = FALSE /\ e.status = "alive" /\ e.observers = {} /\ e.attached = v
    BY <2>2, <2>3 DEF Controller
  <2> HIDE DEF e
  <2> QED
    BY <1>5, <2>1, <2>4, <2>5, <2>6, <2>7 DEF Conceals
<1> QED
  BY <1>6, <1>7

PartsFrom(w, u, v, k, destroy) ==
  /\ WorldTyped(u) /\ u.made = w.made /\ u.crashed = w.crashed
  /\ u.views[v] = [w.views[v] EXCEPT !.bound = None]
  /\ \A x \in Views \ {v} : u.views[x] = w.views[x]
  /\ \A j \in Controllers \ {k} : u.ctl[j] = w.ctl[j]
  /\ LetGo(w.ctl[k], u.ctl[k], destroy)

LEMMA Unbound ==
  ASSUME NEW w, NEW v \in Views, NEW k \in Controllers, Holds(w, v, k),
         w.views[v].bound = k, NEW destroy \in BOOLEAN
  PROVE  PartsFrom(w, UnbindController(w, v, k, destroy), v, k, destroy)
<1> DEFINE h == Hidden(w, v, k)
           d == Rebound(h.ctl[k], {}, None)
           r == Recontrolled(h, k, d)
           view == [w.views[v] EXCEPT !.bound = None]
           t == Retouched(r, v, view)
<1>1. /\ WorldTyped(h) /\ h.made = w.made /\ h.crashed = w.crashed
      /\ \A x \in Views : h.views[x] = w.views[x]
      /\ \A j \in Controllers \ {k} : h.ctl[j] = w.ctl[j]
      /\ ControllerOK(h.ctl[k]) /\ h.ctl[k].announce = FALSE /\ h.ctl[k].surface = FALSE
      /\ h.ctl[k].status = "alive" /\ h.ctl[k].observers = {} /\ h.ctl[k].attached = v
  <2>1. Conceals(w, h, v, k)
    BY HiddenFields
  <2> HIDE DEF h
  <2> QED
    BY <2>1 DEF Conceals
<1>2. UnbindController(w, v, k, destroy)
        = LET unbound == [Detach(h, v, k)
                            EXCEPT !.views[v].bound = IF @ = k THEN None ELSE @]
          IN IF destroy THEN DestroyController(unbound, k) ELSE unbound
  BY DEF UnbindController, Hidden
<1> HIDE DEF h
<1>3. Detach(h, v, k) = r
  <2>1. h.ctl[k] \in Controller /\ h.ctl \in [Controllers -> Controller]
    BY <1>1, WorldFields
  <2>2. d = [h.ctl[k] EXCEPT !.attached = None]
    <3>1. [h.ctl[k] EXCEPT !.attached = None] = Rebound(h.ctl[k], h.ctl[k].observers, None)
      BY <2>1, ReboundOnce
    <3> QED
      BY <1>1, <3>1
  <2> HIDE DEF d
  <2>3. [h.ctl[k] EXCEPT !.attached = IF @ = v THEN None ELSE @]
          = [h.ctl[k] EXCEPT !.attached = None]
    BY <1>1
  <2> QED
    BY <2>2, <2>3 DEF Detach, Recontrolled
<1>4. /\ ControllerOK(d) /\ d.status = "alive" /\ d.observers = {}
      /\ d.attached = None /\ d.announce = FALSE /\ d.surface = FALSE
  BY <1>1, ReboundOK
<1>5. d \in Controller
  BY <1>4 DEF ControllerOK
<1> HIDE DEF d
<1>6. /\ WorldTyped(r) /\ r.views = h.views /\ r.made = h.made
      /\ r.crashed = h.crashed
      /\ r.ctl[k] = d /\ \A j \in Controllers \ {k} : r.ctl[j] = h.ctl[j]
  BY <1>1, <1>5, RecontrolledFields
<1> HIDE DEF r
<1>7. view \in View
  <2>1. WorldTyped(w)
    BY DEF Holds
  <2>2. w.views[v] \in View
    BY <2>1, WorldFields
  <2> QED
    BY <2>2, ViewFieldsTyped
<1>8. [r EXCEPT !.views[v].bound = IF @ = k THEN None ELSE @] = t
  <2>1. r.views[v] = w.views[v] /\ r.views[v].bound = k
    BY <1>1, <1>6
  <2>2. view = [r.views[v] EXCEPT !.bound = IF @ = k THEN None ELSE @]
    BY <2>1
  <2> HIDE DEF view
  <2> QED
    BY <2>2 DEF Retouched
<1> HIDE DEF view
<1>9. /\ WorldTyped(t) /\ t.ctl = r.ctl /\ t.made = r.made /\ t.crashed = r.crashed
      /\ t.views[v] = view /\ \A x \in Views \ {v} : t.views[x] = r.views[x]
  BY <1>6, <1>7, RetouchedFields
<1> HIDE DEF t
<1>10. CASE destroy
  <2> DEFINE u == DestroyController(t, k)
  <2>1. OnlyLetsGo(t, u, k, TRUE)
    <3>1. /\ ControllerOK(t.ctl[k]) /\ ~t.ctl[k].announce /\ t.ctl[k].attached = None
          /\ t.ctl[k].observers = {} /\ ~t.ctl[k].surface
      BY <1>4, <1>6, <1>9
    <3> QED
      BY <1>9, <3>1, Destroyed
  <2>2. UnbindController(w, v, k, destroy) = u
    BY <1>2, <1>3, <1>8, <1>10
  <2> HIDE DEF u
  <2>3. LetGo(w.ctl[k], u.ctl[k], destroy)
    BY <1>4, <1>6, <1>9, <1>10, <2>1 DEF LetGo, OnlyLetsGo, Holds
  <2> QED
    BY <1>1, <1>6, <1>9, <2>1, <2>2, <2>3 DEF OnlyLetsGo, PartsFrom, view
<1>11. CASE ~destroy
  <2>1. UnbindController(w, v, k, destroy) = t
    BY <1>2, <1>3, <1>8, <1>11
  <2>2. LetGo(w.ctl[k], t.ctl[k], destroy)
    BY <1>4, <1>6, <1>9, <1>11 DEF LetGo, Holds
  <2> QED
    BY <1>1, <1>6, <1>9, <2>1, <2>2 DEF PartsFrom, view
<1> QED
  BY <1>10, <1>11

---------------------------------------------------------------------------
(* A view changes its controller.                                          *)

(* In order but that n may have no owner yet.                              *)
Nearly(w, n) ==
  /\ WorldTyped(w) /\ ControllersOK(w)
  /\ \A x \in Views : Tied(w, x) /\ Shown(w, x)
  /\ \A k \in Controllers : Linked(w, k)
  /\ \A k \in Controllers \ {n} : Owned(w, k)

LEMMA InOrderIsNearly ==
  ASSUME NEW w, InOrder(w, {}), NEW n
  PROVE  Nearly(w, n)
  BY DEF InOrder, Nearly

(* From w to u, v has given up j and is bound to nothing.                  *)
Parted(w, u, v, j) ==
  /\ WorldTyped(u) /\ u.made = w.made /\ u.crashed = w.crashed
  /\ \A x \in Views \ {v} : u.views[x] = w.views[x]
  /\ u.views[v].bound = None /\ w.views[v].bound \in {None, j}
  /\ \A i \in Controllers : Owns(w.views[v], i) => i = j \/ Owns(u.views[v], i)
  /\ \A i \in Controllers \ {j} : u.ctl[i] = w.ctl[i]
  /\ j \in Controllers =>
       LET c == w.ctl[j]
           d == u.ctl[j]
       IN /\ ControllerOK(d) /\ ~d.announce /\ ~d.surface /\ d.observers = {}
          /\ d.status = "free" <=> c.status = "free"
          /\ w.made[j] = "view" => d.status # "alive" \/ Owns(u.views[v], j)
          /\ d # c => c.status = "alive" /\ c.attached \in {None, v}

LEMMA PartedInOrder ==
  ASSUME NEW w, NEW u, NEW v \in Views, NEW j, NEW n, Nearly(w, n), Parted(w, u, v, j)
  PROVE  /\ InOrderBut(u, v)
         /\ \A i \in Controllers \ {n} : Owned(u, i)
<1>1. /\ WorldTyped(w) /\ WorldTyped(u) /\ u.made = w.made
      /\ \A x \in Views \ {v} : u.views[x] = w.views[x]
      /\ \A i \in Controllers \ {j} : u.ctl[i] = w.ctl[i]
  BY DEF Nearly, Parted
<1>2. ControllersOK(u)
  BY DEF Nearly, Parted, ControllersOK
<1>3. ASSUME NEW x \in Views \ {v} PROVE Tied(u, x) /\ Shown(u, x)
  <2>1. Tied(w, x) /\ Shown(w, x)
    BY DEF Nearly
  <2>2. CASE j \in Controllers /\ u.ctl[j] # w.ctl[j]
    <3>1. w.ctl[j].status = "alive" /\ w.ctl[j].attached # x /\ j # None
      BY <2>2, ControllerAssumption, ViewAssumption DEF Parted
    <3>2. w.views[x].bound # j /\ w.views[x].internal # j /\ w.views[x].external # j
      BY <2>1, <3>1, NotShared
    <3> QED
      BY <1>1, <2>1, <2>2, <3>2, OthersTied
  <2>3. CASE ~(j \in Controllers /\ u.ctl[j] # w.ctl[j])
    <3>1. \A i \in Controllers : u.ctl[i] = w.ctl[i]
      BY <1>1, <2>3
    <3>2. /\ w.views[x].bound \in Controllers \cup {None}
          /\ w.views[x].internal \in Controllers \cup {None}
          /\ w.views[x].external \in Controllers \cup {None}
      BY <1>1, WorldFields DEF View
    <3>3. u.views[x] = w.views[x]
      BY <1>1
    <3>4. BoundTied(u, x)
      BY <2>1, <3>1, <3>2, <3>3 DEF Tied, BoundTied
    <3>5. InternalTied(u, x)
      BY <1>1, <2>1, <3>1, <3>2, <3>3 DEF Tied, InternalTied
    <3>6. ExternalTied(u, x)
      BY <1>1, <2>1, <3>1, <3>2, <3>3 DEF Tied, ExternalTied
    <3>7. Shown(u, x)
      BY <2>1, <3>1, <3>2, <3>3 DEF Shown
    <3> QED
      BY <3>4, <3>5, <3>6, <3>7 DEF Tied
  <2> QED
    BY <2>2, <2>3
<1>4. ASSUME NEW i \in Controllers PROVE Linked(u, i)
  <2>1. Linked(w, i) /\ w.ctl[i].observers \subseteq Views
    BY <1>1, WorldFields DEF Nearly, Controller
  <2>2. CASE i = j
    BY <1>1, <2>1, <2>2 DEF Linked, Parted
  <2>3. CASE i # j
    <3>1. w.views[v].bound # i
      BY <2>3, ViewAssumption DEF Parted
    <3>2. \A x \in Views : w.views[x].bound = i => u.views[x].bound = i
      BY <1>1, <3>1
    <3> QED
      BY <1>1, <2>1, <2>3, <3>2 DEF Linked
  <2> QED
    BY <2>2, <2>3
<1>5. ASSUME NEW i \in Controllers \ {n} PROVE Owned(u, i)
  <2>1. Owned(w, i)
    BY DEF Nearly
  <2>2. CASE i = j
    BY <1>1, <2>1, <2>2 DEF Owned, Parted
  <2>3. CASE i # j
    <3>1. \A x \in Views : Owns(w.views[x], i) => Owns(u.views[x], i)
      BY <1>1, <2>3 DEF Parted
    <3> QED
      BY <1>1, <2>1, <2>3, <3>1 DEF Owned
  <2> QED
    BY <2>2, <2>3
<1> QED
  BY <1>1, <1>2, <1>3, <1>4, <1>5 DEF InOrderBut

(* The view takes k over from the app or from setEngine.                   *)
LEMMA PartedForExternal ==
  ASSUME NEW w, NEW u, NEW v \in Views, NEW j, NEW k \in Controllers,
         Nearly(w, k), Parted(w, u, v, j), k # j, w.ctl[k].status = "alive",
         NEW managed \in BOOLEAN, w.made[k] = IF managed THEN "view" ELSE "app",
         managed => UsesEngine,
         u.views[v].external = k, u.views[v].managed = managed,
         u.views[v].internal = None
  PROVE  Ready(u, v, k)
<1>1. InOrderBut(u, v) /\ \A i \in Controllers \ {k} : Owned(u, i)
  BY PartedInOrder
<1>2. u.ctl[k] = w.ctl[k] /\ u.made = w.made /\ u.views[v].bound = None
  BY DEF Parted
<1>3. Owned(u, k)
  BY <1>2 DEF Owned, Owns
<1>4. k # None
  BY ViewAssumption
<1>5. \A i \in Controllers : Owned(u, i)
  BY <1>1, <1>3
<1> QED
  BY <1>1, <1>2, <1>4, <1>5 DEF Ready, Active

(* What v may do before it is bound to k or to nothing: assign external    *)
(* and managed.                                                            *)
Assigned(w, v, k, managed) ==
  [w EXCEPT !.views[v].external = k, !.views[v].managed = managed]

AssignedIs(w, u, v, k, managed) ==
  /\ WorldTyped(u) /\ u.ctl = w.ctl /\ u.made = w.made /\ u.crashed = w.crashed
  /\ \A x \in Views \ {v} : u.views[x] = w.views[x]
  /\ u.views[v].external = k /\ u.views[v].managed = managed
  /\ u.views[v].internal = w.views[v].internal /\ u.views[v].bound = w.views[v].bound
  /\ u.views[v].surfaceReady = w.views[v].surfaceReady

LEMMA AssignedFields ==
  ASSUME NEW w, WorldTyped(w), NEW v \in Views, NEW k \in Controllers \cup {None},
         NEW managed \in BOOLEAN
  PROVE  AssignedIs(w, Assigned(w, v, k, managed), v, k, managed)
<1> DEFINE view == [[w.views[v] EXCEPT !.external = k] EXCEPT !.managed = managed]
           u == Retouched(w, v, view)
<1>1. w.views \in [Views -> View] /\ w.views[v] \in View
  BY WorldFields
<1>2. view \in View
  BY <1>1, ViewFieldsTyped
<1>3. /\ view.external = k /\ view.internal = w.views[v].internal
      /\ view.bound = w.views[v].bound
  BY <1>1 DEF View
<1>4. view.managed = managed
  BY <1>1 DEF View
<1>5. view.surfaceReady = w.views[v].surfaceReady
  BY <1>1 DEF View
<1>6. Assigned(w, v, k, managed) = u
  BY <1>1 DEF Assigned, Retouched, WorldTyped
<1> HIDE DEF view
<1>7. /\ WorldTyped(u) /\ u.ctl = w.ctl /\ u.made = w.made /\ u.crashed = w.crashed
      /\ u.views[v] = view /\ \A x \in Views \ {v} : u.views[x] = w.views[x]
  BY <1>2, RetouchedFields
<1> HIDE DEF u
<1> QED
  BY <1>3, <1>4, <1>5, <1>6, <1>7 DEF AssignedIs

(* The controller that v is bound to is held by it; what v was lent or     *)
(* made for it without being bound shows nothing.                          *)
LEMMA BoundIsHeld ==
  ASSUME NEW w, NEW n, Nearly(w, n), NEW v \in Views, NEW u, NEW k, NEW m,
         AssignedIs(w, u, v, k, m), w.views[v].bound # None
  PROVE  /\ w.views[v].bound \in Controllers
         /\ Holds(u, v, w.views[v].bound)
<1> DEFINE b == w.views[v].bound
<1>1. /\ WorldTyped(w) /\ Tied(w, v) /\ Shown(w, v) /\ ControllersOK(w)
      /\ \A x \in Views : Tied(w, x)
  BY DEF Nearly
<1>2. b \in Controllers
  BY <1>1, WorldFields DEF View
<1>3. w.ctl[b].status = "alive" /\ w.ctl[b].attached = v
  BY <1>1 DEF Tied, BoundTied
<1>4. w.ctl[b].observers \subseteq {v}
  <2>1. Linked(w, b) /\ w.ctl[b].observers \subseteq Views
    BY <1>1, <1>2, WorldFields DEF Nearly, Controller
  <2>2. \A x \in Views \ {v} : w.views[x].bound # b
    BY <1>1, <1>3, NotShared
  <2> QED
    BY <2>1, <2>2 DEF Linked
<1>5. ControllerOK(w.ctl[b]) /\ ~w.ctl[b].announce
  BY <1>1, <1>2 DEF ControllersOK
<1>6. w.ctl[b].surface <=> w.views[v].surfaceReady
  BY <1>1 DEF Shown
<1> HIDE DEF b
<1>7. /\ WorldTyped(u) /\ u.ctl[b] = w.ctl[b]
      /\ u.views[v].surfaceReady = w.views[v].surfaceReady
  BY DEF AssignedIs
<1>8. Holds(u, v, b)
  BY <1>3, <1>4, <1>5, <1>6, <1>7 DEF Holds
<1> QED
  BY <1>2, <1>8 DEF b

(* What is left of v after it has been assigned k.                         *)
Leaves(u, v, k, managed, internal) ==
  /\ u.views[v].external = k /\ u.views[v].managed = managed
  /\ u.views[v].internal = internal /\ u.views[v].bound = None

WithoutInternal(w, v) == Retouched(w, v, [w.views[v] EXCEPT !.internal = None])

LEMMA UnboundParts ==
  ASSUME NEW w, NEW n, Nearly(w, n), NEW v \in Views, NEW a, NEW k, NEW m,
         AssignedIs(w, a, v, k, m), w.views[v].bound # None,
         NEW destroy \in BOOLEAN, w.made[w.views[v].bound] = "view" => destroy
  PROVE  LET b == w.views[v].bound
             u == UnbindController(a, v, b, destroy)
         IN /\ Parted(w, u, v, b) /\ Leaves(u, v, k, m, w.views[v].internal)
            /\ Parted(w, WithoutInternal(u, v), v, b)
            /\ Leaves(WithoutInternal(u, v), v, k, m, None)
<1> DEFINE b == w.views[v].bound
           u == UnbindController(a, v, b, destroy)
           view == [u.views[v] EXCEPT !.internal = None]
           t == Retouched(u, v, view)
<1>1. b \in Controllers /\ Holds(a, v, b) /\ b # None
  BY BoundIsHeld
<1>2. a.views[v].bound = b
  BY DEF AssignedIs
<1> HIDE DEF b
<1>3. PartsFrom(a, u, v, b, destroy)
  BY <1>1, <1>2, Unbound
<1> HIDE DEF u
<1>4. /\ WorldTyped(u) /\ u.made = w.made /\ u.crashed = w.crashed
      /\ u.views[v] = [a.views[v] EXCEPT !.bound = None]
      /\ \A x \in Views \ {v} : u.views[x] = w.views[x]
      /\ \A i \in Controllers \ {b} : u.ctl[i] = w.ctl[i]
      /\ LetGo(w.ctl[b], u.ctl[b], destroy)
  BY <1>3 DEF PartsFrom, AssignedIs
<1>5. a.views[v] \in View /\ u.views[v] \in View
  BY <1>4, WorldFields DEF AssignedIs
<1>6. /\ u.views[v].external = k /\ u.views[v].managed = m /\ u.views[v].bound = None
      /\ u.views[v].internal = w.views[v].internal
  <2>1. /\ u.views[v].external = a.views[v].external /\ u.views[v].bound = None
        /\ u.views[v].internal = a.views[v].internal
    BY <1>4, <1>5 DEF View
  <2>2. u.views[v].managed = a.views[v].managed
    BY <1>4, <1>5 DEF View
  <2> QED
    BY <2>1, <2>2 DEF AssignedIs
<1>7. view \in View
  BY <1>5, ViewFieldsTyped
<1>8. view.internal = None /\ view.external = k /\ view.managed = m /\ view.bound = None
  <2>1. view.internal = None /\ view.external = k /\ view.bound = None
    BY <1>5, <1>6 DEF View
  <2>2. view.managed = u.views[v].managed
    BY <1>5 DEF View
  <2> QED
    BY <1>6, <2>1, <2>2
<1>9. WithoutInternal(u, v) = t
  BY DEF WithoutInternal
<1> HIDE DEF view
<1>10. /\ WorldTyped(t) /\ t.ctl = u.ctl /\ t.made = u.made /\ t.crashed = u.crashed
       /\ t.views[v] = view /\ \A x \in Views \ {v} : t.views[x] = u.views[x]
  BY <1>4, <1>7, RetouchedFields
<1> HIDE DEF t
<1>11. \A i \in Controllers : Owns(w.views[v], i) => i = b
  <2>1. Tied(w, v)
    BY DEF Nearly
  <2> QED
    BY <1>1, <2>1, ViewAssumption
       DEF Owns, Tied, BoundTied, InternalTied, ExternalTied, Active, b
<1>12. /\ w.ctl[b].status = "alive" /\ w.ctl[b].attached = v
  BY <1>1 DEF Holds, AssignedIs
<1>13. w.made[b] = "view" => u.ctl[b].status # "alive"
  BY <1>4 DEF LetGo, b
<1>14. Parted(w, u, v, b)
  BY <1>4, <1>6, <1>11, <1>12, <1>13 DEF Parted, LetGo, b
<1>15. Parted(w, t, v, b)
  BY <1>4, <1>8, <1>10, <1>11, <1>12, <1>13 DEF Parted, LetGo, b
<1> QED
  BY <1>6, <1>8, <1>9, <1>10, <1>14, <1>15 DEF Leaves, u, b

LEMMA ReleasedParts ==
  ASSUME NEW w, NEW n, Nearly(w, n), NEW v \in Views, NEW a, NEW k, NEW m,
         AssignedIs(w, a, v, k, m), w.views[v].bound = None,
         w.views[v].external # None,
         NEW destroy \in BOOLEAN, w.made[w.views[v].external] = "view" => destroy
  PROVE  LET p == w.views[v].external
             u == Release(a, v, p, destroy)
         IN /\ Parted(w, u, v, p) /\ Leaves(u, v, k, m, None)
<1> DEFINE p == w.views[v].external
           u == Release(a, v, p, destroy)
           c == w.ctl[p]
<1>1. /\ WorldTyped(w) /\ WorldTyped(a) /\ Tied(w, v) /\ ControllersOK(w)
      /\ \A x \in Views : Tied(w, x)
  BY DEF Nearly, AssignedIs
<1>2. p \in Controllers
  BY <1>1, WorldFields DEF View
<1>3. /\ ControllerOK(c) /\ ~c.announce /\ c.observers \subseteq Views /\ Linked(w, p)
      /\ c \in Controller
  BY <1>1, <1>2, WorldFields DEF ControllersOK, Nearly, Controller
<1>4. w.views[v].internal = None /\ p # None
  BY <1>1 DEF Tied, InternalTied
<1>5. c.attached \in {None, v}
  BY <1>1, <1>3 DEF Tied, ExternalTied, ControllerOK, Quiet
<1>6. \A x \in Views : w.views[x].bound # p
  <2> TAKE x \in Views
  <2>1. CASE x = v
    BY <1>4, <2>1
  <2>2. CASE x # v
    <3>1. SUFFICES ASSUME w.views[x].bound = p PROVE FALSE
      OBVIOUS
    <3>2. Tied(w, x)
      BY <1>1
    <3>3. c.attached = x
      BY <1>4, <3>1, <3>2 DEF Tied, BoundTied
    <3> QED
      BY <1>5, <2>2, <3>3, ControllerAssumption
  <2> QED
    BY <2>1, <2>2
<1>7. c.observers \subseteq {v} /\ ~c.surface
  BY <1>3, <1>6 DEF Linked
<1>8. a.ctl[p] = c
  BY DEF AssignedIs
<1> HIDE DEF p, c
<1>9. OnlyLetsGo(a, u, p, destroy)
  BY <1>1, <1>2, <1>3, <1>5, <1>7, <1>8, Released
<1> HIDE DEF u
<1>10. /\ WorldTyped(u) /\ u.made = w.made /\ u.crashed = w.crashed
       /\ u.views = a.views /\ \A x \in Views \ {v} : u.views[x] = w.views[x]
       /\ \A i \in Controllers \ {p} : u.ctl[i] = w.ctl[i]
       /\ LetGo(c, u.ctl[p], destroy)
  BY <1>8, <1>9 DEF OnlyLetsGo, AssignedIs
<1>11. Leaves(u, v, k, m, None)
  BY <1>4, <1>10 DEF Leaves, AssignedIs
<1>12. \A i \in Controllers : Owns(w.views[v], i) => i = p
  BY <1>4, ViewAssumption DEF Owns, p
<1>13. w.made[p] = "view" => u.ctl[p].status # "alive"
  BY <1>10 DEF LetGo, p
<1>14. Parted(w, u, v, p)
  BY <1>5, <1>10, <1>11, <1>12, <1>13 DEF Parted, LetGo, Leaves, c
<1> QED
  BY <1>11, <1>14 DEF u, p

LEMMA AssignedParts ==
  ASSUME NEW w, NEW n, Nearly(w, n), NEW v \in Views, NEW a, NEW k, NEW m,
         AssignedIs(w, a, v, k, m),
         w.views[v].internal = None, w.views[v].external = None
  PROVE  Parted(w, a, v, None) /\ Leaves(a, v, k, m, None)
<1>1. Tied(w, v) /\ None \notin Controllers
  BY ViewAssumption DEF Nearly
<1>2. w.views[v].bound = None
  BY <1>1 DEF Tied, BoundTied, Active
<1>3. \A i \in Controllers : ~Owns(w.views[v], i)
  BY <1>1 DEF Owns
<1> QED
  BY <1>1, <1>2, <1>3 DEF AssignedIs, Parted, Leaves

(* setExternalBinding with a controller.                                   *)
LEMMA BoundExternal ==
  ASSUME NEW w, NEW v \in Views, NEW k \in Controllers, Nearly(w, k), ~w.crashed,
         w.ctl[k].status = "alive", NEW managed \in BOOLEAN,
         w.made[k] = IF managed THEN "view" ELSE "app", managed => UsesEngine,
         w.views[v].external # k, w.views[v].internal # k, w.views[v].bound # k
  PROVE  Fine(SetExternalBinding(w, v, k, managed))
<1> DEFINE view == w.views[v]
           a == Assigned(w, v, k, managed)
           p == view.external
           i == view.internal
           b == view.bound
           r == BindExternal(a, v, k, p, view.managed)
<1>1. k # None /\ WorldTyped(w) /\ Tied(w, v)
  BY ViewAssumption DEF Nearly
<1>2. SetExternalBinding(w, v, k, managed) = r
  BY <1>1 DEF SetExternalBinding, Assigned
<1>3. AssignedIs(w, a, v, k, managed)
  BY <1>1, AssignedFields
<1> HIDE DEF a
<1>4. a.views[v].bound = b /\ a.views[v].internal = i
  BY <1>3 DEF AssignedIs
<1>5. view \in View
  BY <1>1, WorldFields
<1>6. ASSUME NEW u, NEW j, Parted(w, u, v, j), Leaves(u, v, k, managed, None), k # j,
             r = BindController(u, v, k)
      PROVE  Fine(r)
  <2>1. /\ u.views[v].external = k /\ u.views[v].managed = managed
        /\ u.views[v].internal = None
    BY <1>6 DEF Leaves
  <2>2. Ready(u, v, k)
    BY <1>6, <2>1, PartedForExternal
  <2>3. ~u.crashed
    BY <1>6 DEF Parted
  <2> HIDE DEF r, view
  <2>4. LET c == BindController(u, v, k)
        IN \/ Thrown(c)
           \/ /\ InOrder(c, {}) /\ ~c.crashed
              /\ c.views[v].bound = k
              /\ c.views[v].surfaceReady = u.views[v].surfaceReady
              /\ c.views[v].size = u.views[v].size
    BY <2>2, <2>3, BoundInOrder
  <2> DEFINE c == BindController(u, v, k)
  <2>5. Thrown(c) \/ (InOrder(c, {}) /\ ~c.crashed)
    BY <2>4
  <2>6. r = c
    BY <1>6
  <2> HIDE DEF c
  <2> QED
    BY <2>5, <2>6 DEF Fine
<1>7. CASE p = None /\ i = None
  <2>1. b = None
    BY <1>1, <1>7 DEF Tied, BoundTied, Active
  <2>2. r = BindController(a, v, k)
    BY <1>4, <1>7, <2>1 DEF BindExternal
  <2>3. Parted(w, a, v, None) /\ Leaves(a, v, k, managed, None)
    BY <1>3, <1>7, AssignedParts
  <2> HIDE DEF r
  <2> QED
    BY <1>1, <1>2, <1>6, <2>2, <2>3
<1>8. CASE p = None /\ i # None
  <2> DEFINE u == UnbindController(a, v, b, TRUE)
             t == WithoutInternal(u, v)
  <2>1. b = i
    BY <1>1, <1>8 DEF Tied, InternalTied
  <2>2. /\ Parted(w, t, v, b) /\ Leaves(t, v, k, managed, None)
    BY <1>3, <1>8, <2>1, UnboundParts
  <2>3. WorldTyped(u)
    <3>1. b \in Controllers /\ Holds(a, v, b)
      BY <1>3, <1>8, <2>1, BoundIsHeld
    <3> HIDE DEF b
    <3>2. PartsFrom(a, u, v, b, TRUE)
      BY <1>4, <3>1, Unbound
    <3> QED
      BY <3>2 DEF PartsFrom
  <2>4. UnbindController(a, v, b, b = i \/ (b = p /\ view.managed)) = u
    BY <2>1
  <2>5. r = BindController([u EXCEPT !.views[v].internal = None], v, k)
    <3> HIDE DEF u, t
    <3>1. p \in {None, k, b} /\ b \notin {None, k} /\ i \notin {None, k}
      BY <1>8, <2>1
    <3> HIDE DEF p, i, b
    <3> QED
      BY <1>4, <2>1, <2>4, <3>1 DEF BindExternal
  <2>6. [u EXCEPT !.views[v].internal = None] = t
    <3> HIDE DEF u
    <3> QED
      BY <2>3 DEF WithoutInternal, Retouched, WorldTyped
  <2> HIDE DEF r, t, u
  <2> QED
    BY <1>2, <1>6, <2>2, <2>5, <2>6
<1>9. CASE p # None
  <2>1. i = None /\ b \in {None, p} /\ view.managed \in BOOLEAN
    BY <1>1, <1>5, <1>9 DEF Tied, BoundTied, InternalTied, Active, View
  <2>2. w.made[p] = "view" => view.managed
    BY <1>1, <1>9 DEF Tied, ExternalTied
  <2>3. CASE b = None
    <3> DEFINE u == Release(a, v, p, view.managed)
    <3>1. Parted(w, u, v, p) /\ Leaves(u, v, k, managed, None)
      BY <1>3, <1>9, <2>1, <2>2, <2>3, ReleasedParts
    <3> HIDE DEF u
    <3>2. u.views[v].bound = None /\ u.views[v].internal = None
      BY <3>1 DEF Leaves
    <3>3. r = BindController(u, v, k)
      BY <1>4, <1>9, <2>3, <3>2 DEF BindExternal, u
    <3> HIDE DEF r
    <3> QED
      BY <1>2, <1>6, <3>1, <3>3
  <2>4. CASE b = p
    <3> DEFINE u == UnbindController(a, v, b, view.managed)
    <3>1. Parted(w, u, v, b) /\ Leaves(u, v, k, managed, i)
      BY <1>3, <1>9, <2>1, <2>2, <2>4, UnboundParts
    <3>2. UnbindController(a, v, b, b = i \/ (b = p /\ view.managed)) = u
      <4>1. (b = i \/ (b = p /\ view.managed)) = view.managed
        BY <1>9, <2>1, <2>4
      <4> QED
        BY <4>1
    <3> HIDE DEF u
    <3>3. r = BindController(u, v, k)
      BY <1>4, <1>9, <2>1, <2>4, <3>2 DEF BindExternal
    <3> HIDE DEF r
    <3> QED
      BY <1>2, <1>6, <2>1, <3>1, <3>3
  <2> QED
    BY <2>1, <2>3, <2>4
<1> QED
  BY <1>7, <1>8, <1>9

(* setExternalBinding(null): the view goes back to a controller of its own. *)
LEMMA BoundInternal ==
  ASSUME NEW w, NEW v \in Views, InOrder(w, {}), ~w.crashed, Room(w)
  PROVE  Fine(SetExternalBinding(w, v, None, FALSE))
<1> DEFINE view == w.views[v]
           a == Assigned(w, v, None, FALSE)
           p == view.external
           r == BindInternalAgain(a, v, p, view.managed)
<1>1. /\ WorldTyped(w) /\ Tied(w, v) /\ Nearly(w, None) /\ view \in View
  BY InOrderIsNearly, WorldFields DEF InOrder
<1>2. AssignedIs(w, a, v, None, FALSE)
  BY <1>1, AssignedFields
<1>3. CASE p = None
  <2>1. view.managed = FALSE
    BY <1>1, <1>3 DEF Tied, ExternalTied, View
  <2> QED
    BY <1>3, <2>1 DEF SetExternalBinding, Fine
<1>4. CASE p # None
  <2>1. SetExternalBinding(w, v, None, FALSE) = r
    BY <1>4 DEF SetExternalBinding, Assigned
  <2> HIDE DEF a
  <2>2. /\ view.internal = None /\ view.bound \in {None, p} /\ view.managed \in BOOLEAN
        /\ w.made[p] = "view" => view.managed
        /\ w.ctl[p].status # "free" /\ p \in Controllers
    BY <1>1, <1>4 DEF Tied, BoundTied, InternalTied, ExternalTied, Active, View
  <2>3. ASSUME NEW u, Parted(w, u, v, p), Leaves(u, v, None, FALSE, None),
               LET e == EnsureInternalController(u, v)
               IN r = BindController(e, v, e.views[v].internal)
        PROVE  Fine(r)
    <3> DEFINE e == EnsureInternalController(u, v)
               k == e.views[v].internal
    <3>1. InOrderBut(u, v) /\ \A j \in Controllers : Owned(u, j)
      <4>1. InOrderBut(u, v) /\ \A j \in Controllers \ {None} : Owned(u, j)
        BY <1>1, <2>3, PartedInOrder
      <4> QED
        BY <4>1, ViewAssumption
    <3>2. Loose(u, v)
      BY <2>3, <3>1 DEF Loose, Leaves
    <3>3. Room(u)
      BY <2>2, <2>3 DEF Room, Parted
    <3>4. /\ k \in Controllers /\ Ready(e, v, k) /\ e.crashed = u.crashed
          /\ e.views[v].surfaceReady = u.views[v].surfaceReady
          /\ e.views[v].size = u.views[v].size
      <4> HIDE DEF r, p, view
      <4> QED
        BY <3>2, <3>3, EnsuredReady
    <3>5. ~e.crashed /\ r = BindController(e, v, k)
      BY <2>3, <3>4 DEF Parted
    <3> HIDE DEF e, k, r
    <3>6. LET c == BindController(e, v, k)
          IN \/ Thrown(c)
             \/ /\ InOrder(c, {}) /\ ~c.crashed
                /\ c.views[v].bound = k
                /\ c.views[v].surfaceReady = e.views[v].surfaceReady
                /\ c.views[v].size = e.views[v].size
      BY <3>4, <3>5, BoundInOrder
    <3> DEFINE c == BindController(e, v, k)
    <3>7. (Thrown(c) \/ (InOrder(c, {}) /\ ~c.crashed)) /\ r = c
      BY <3>5, <3>6
    <3> HIDE DEF c
    <3> QED
      BY <3>7 DEF Fine
  <2>4. a.views[v].bound = view.bound
    BY <1>2 DEF AssignedIs
  <2>5. CASE view.bound = None
    <3> DEFINE u == Release(a, v, p, view.managed)
    <3>1. Parted(w, u, v, p) /\ Leaves(u, v, None, FALSE, None)
      BY <1>1, <1>2, <1>4, <2>2, <2>5, ReleasedParts
    <3>2. LET e == EnsureInternalController(u, v)
          IN r = BindController(e, v, e.views[v].internal)
      BY <1>4, <2>4, <2>5 DEF BindInternalAgain
    <3> HIDE DEF u, r
    <3> QED
      BY <2>1, <2>3, <3>1, <3>2
  <2>6. CASE view.bound = p
    <3> DEFINE u == UnbindController(a, v, view.bound, view.managed)
    <3>1. Parted(w, u, v, p) /\ Leaves(u, v, None, FALSE, None)
      BY <1>1, <1>2, <1>4, <2>2, <2>6, UnboundParts
    <3>2. LET e == EnsureInternalController(u, v)
          IN r = BindController(e, v, e.views[v].internal)
      BY <1>4, <2>4, <2>6 DEF BindInternalAgain
    <3> HIDE DEF u, r
    <3> QED
      BY <2>1, <2>3, <3>1, <3>2
  <2> QED
    BY <2>2, <2>5, <2>6
<1> QED
  BY <1>3, <1>4

(* A controller that nobody has yet.                                       *)
LEMMA CreatedNearly ==
  ASSUME NEW w, InOrder(w, {}), Room(w), NEW config \in Configs \cup {None},
         NEW maker \in {"app", "view"}
  PROVE  LET u == Create(w, config, maker)
             k == Fresh(w)
         IN /\ k \in Controllers /\ Nearly(u, k) /\ (maker = "app" => InOrder(u, {}))
            /\ u.crashed = w.crashed /\ u.ctl[k].status = "alive" /\ u.made[k] = maker
            /\ \A x \in Views : /\ u.views[x].bound # k /\ u.views[x].internal # k
                                /\ u.views[x].external # k
<1> DEFINE u == Create(w, config, maker)
           k == Fresh(w)
           n == NewController(config)
<1>1. k \in Controllers /\ w.ctl[k].status = "free" /\ WorldTyped(w) /\ k # None
  BY FreshIsFree, ViewAssumption DEF InOrder
<1>2. /\ WorldTyped(u) /\ u.views = w.views /\ u.crashed = w.crashed
      /\ u.ctl[k] = n /\ u.made[k] = maker
      /\ \A j \in Controllers \ {k} : u.ctl[j] = w.ctl[j] /\ u.made[j] = w.made[j]
  BY <1>1, CreatedFields
<1>3. ControllerOK(n) /\ n.status = "alive" /\ ~n.announce /\ n.surface = FALSE
      /\ n.observers = {}
  BY NewControllerOK
<1> HIDE DEF u, k, n
<1>4. ControllersOK(u)
  BY <1>2, <1>3 DEF InOrder, ControllersOK
<1>5. ASSUME NEW x \in Views
      PROVE  /\ w.views[x].bound # k /\ w.views[x].internal # k /\ w.views[x].external # k
             /\ Tied(u, x) /\ Shown(u, x)
  <2>1. Tied(w, x) /\ Shown(w, x)
    BY DEF InOrder
  <2>2. w.views[x].bound # k /\ w.views[x].internal # k /\ w.views[x].external # k
    BY <1>1, <2>1, NotFree
  <2>3. u.views[x] = w.views[x]
    BY <1>2
  <2> QED
    BY <1>1, <1>2, <2>1, <2>2, <2>3, OthersTied
<1>6. ASSUME NEW j \in Controllers PROVE Linked(u, j)
  <2>1. Linked(w, j)
    BY DEF InOrder
  <2> QED
    BY <1>2, <1>3, <2>1, ViewAssumption DEF Linked
<1>7. ASSUME NEW j \in Controllers \ {k} PROVE Owned(u, j)
  BY <1>2 DEF InOrder, Owned
<1>8. Nearly(u, k)
  BY <1>2, <1>4, <1>5, <1>6, <1>7 DEF Nearly
<1>9. maker = "app" => InOrder(u, {})
  <2> SUFFICES ASSUME maker = "app" PROVE InOrder(u, {})
    OBVIOUS
  <2>1. Owned(u, k)
    BY <1>2 DEF Owned
  <2> QED
    BY <1>2, <1>4, <1>5, <1>6, <1>7, <2>1 DEF InOrder
<1> QED
  BY <1>1, <1>2, <1>3, <1>5, <1>8, <1>9 DEF u, k

LEMMA CreateControllerKeeps ==
  ASSUME IInv, IdentityLeft, NEW config \in Configs \cup {None}, CreateController(config)
  PROVE  IInv'
<1> DEFINE u == Create(World, config, "app")
           k == Fresh(World)
<1>1. InOrder(World, {}) /\ Room(World)
  BY WorldIs DEF IInv, IdentityLeft, Room
<1>2. /\ k \in Controllers /\ Nearly(u, k) /\ ("app" = "app" => InOrder(u, {}))
      /\ u.crashed = World.crashed /\ u.ctl[k].status = "alive" /\ u.made[k] = "app"
      /\ \A x \in Views : /\ u.views[x].bound # k /\ u.views[x].internal # k
                          /\ u.views[x].external # k
  BY <1>1, CreatedNearly
<1>3. Becomes(u)
  BY DEF CreateController
<1> HIDE DEF u
<1> QED
  BY <1>2, <1>3, BecomesOrdered

LEMMA SetControllerKeeps ==
  ASSUME IInv, ~crashed, IdentityLeft, NEW v \in Views,
         NEW k \in Controllers \cup {None}, SetController(v, k)
  PROVE  IInv'
<1> DEFINE u == SetExternalBinding(World, v, k, FALSE)
<1>1. InOrder(World, {}) /\ ~World.crashed /\ Room(World) /\ Tied(World, v)
  BY WorldIs DEF IInv, IdentityLeft, Room, InOrder
<1>2. Becomes(u)
  BY DEF SetController
<1>3. CASE k = None
  <2>1. Fine(u)
    BY <1>1, <1>3, BoundInternal
  <2> HIDE DEF u
  <2> QED
    BY <1>2, <2>1, BecomesFine
<1>4. CASE k # None
  <2>1. k \in Controllers /\ World.made[k] = "app" /\ World.ctl[k].status = "alive"
    BY <1>4, WorldIs DEF SetController, Made
  <2>2. CASE World.views[v].external = k
    <3>1. World.views[v].managed = FALSE
      BY <1>1, <1>4, <2>1, <2>2, WorldEdit, WorldIs DEF Tied, ExternalTied, View
    <3>2. u = World
      BY <2>2, <3>1 DEF SetExternalBinding
    <3> HIDE DEF u
    <3> QED
      BY <1>1, <1>2, <3>2, BecomesOrdered
  <2>3. CASE World.views[v].external # k
    <3>1. World.views[v].internal # k
      BY <1>1, <1>4, <2>1 DEF Tied, InternalTied
    <3>2. World.views[v].bound # k
      BY <1>1, <1>4, <2>3, <3>1 DEF Tied, BoundTied, Active
    <3>3. Nearly(World, k)
      BY <1>1, InOrderIsNearly
    <3>4. World.made[k] = IF FALSE THEN "view" ELSE "app"
      BY <2>1
    <3>5. Fine(u)
      BY <1>1, <2>1, <2>3, <3>1, <3>2, <3>3, <3>4, BoundExternal
    <3> HIDE DEF u
    <3> QED
      BY <1>2, <3>5, BecomesFine
  <2> QED
    BY <2>2, <2>3
<1> QED
  BY <1>3, <1>4

LEMMA SetEngineKeeps ==
  ASSUME IInv, ~crashed, IdentityLeft, NEW v \in Views, NEW given \in BOOLEAN,
         SetEngine(v, given)
  PROVE  IInv'
<1>1. InOrder(World, {}) /\ ~World.crashed /\ Room(World)
  BY WorldIs DEF IInv, IdentityLeft, Room
<1>2. CASE ~given
  <2> DEFINE u == SetExternalBinding(World, v, None, FALSE)
  <2>1. Fine(u)
    BY <1>1, BoundInternal
  <2>2. Becomes(u)
    BY <1>2 DEF SetEngine
  <2> HIDE DEF u
  <2> QED
    BY <2>1, <2>2, BecomesFine
<1>3. CASE given
  <2> DEFINE w == Create(World, None, "view")
             k == Fresh(World)
             u == SetExternalBinding(w, v, k, TRUE)
  <2>1. Becomes(u)
    BY <1>3 DEF SetEngine
  <2>2. /\ k \in Controllers /\ Nearly(w, k) /\ ("view" = "app" => InOrder(w, {}))
        /\ w.crashed = World.crashed /\ w.ctl[k].status = "alive" /\ w.made[k] = "view"
        /\ \A x \in Views : /\ w.views[x].bound # k /\ w.views[x].internal # k
                            /\ w.views[x].external # k
    BY <1>1, CreatedNearly
  <2> HIDE DEF w, k
  <2>3. w.made[k] = (IF TRUE THEN "view" ELSE "app") /\ UsesEngine
    BY <2>2 DEF SetEngine
  <2>4. Fine(u)
    BY <1>1, <2>2, <2>3, BoundExternal
  <2> HIDE DEF u
  <2> QED
    BY <2>1, <2>4, BecomesFine
<1> QED
  BY <1>2, <1>3

---------------------------------------------------------------------------
(* destroy by the app, and a view that leaves its window.                  *)

(* A view that is left with no controller at all, or with one that it does *)
(* not show.                                                               *)
LEMMA PartedAll ==
  ASSUME NEW w, NEW u, NEW v \in Views, NEW j, InOrder(w, {}), Parted(w, u, v, j),
         u.views[v].internal = None, ExternalTied(u, v)
  PROVE  InOrder(u, {})
<1>1. InOrderBut(u, v) /\ \A i \in Controllers : Owned(u, i)
  <2>1. Nearly(w, None)
    BY InOrderIsNearly
  <2>2. InOrderBut(u, v) /\ \A i \in Controllers \ {None} : Owned(u, i)
    BY <2>1, PartedInOrder
  <2> QED
    BY <2>2, ViewAssumption
<1>2. u.views[v].bound = None
  BY DEF Parted
<1>3. Tied(u, v) /\ Shown(u, v)
  BY <1>2 DEF Tied, BoundTied, InternalTied, Shown
<1> QED
  BY <1>1, <1>3 DEF InOrderBut, InOrder

LEMMA ForgottenFields ==
  ASSUME NEW view \in View, NEW k \in Controllers
  PROVE  LET f == OnControllerDestroyed(view, k)
         IN /\ f \in View
            /\ f.bound = IF view.bound = k THEN None ELSE view.bound
            /\ f.internal = IF view.internal = k THEN None ELSE view.internal
            /\ f.external = IF view.external = k THEN None ELSE view.external
            /\ f.managed = (view.managed /\ view.external # k)
            /\ (view.bound # k /\ view.internal # k /\ view.external # k => f = view)
<1> DEFINE b == IF view.bound = k THEN None ELSE view.bound
           m == view.managed /\ view.external # k
           e == IF view.external = k THEN None ELSE view.external
           i == IF view.internal = k THEN None ELSE view.internal
           f == [[[[view EXCEPT !.bound = b] EXCEPT !.managed = m]
                    EXCEPT !.external = e] EXCEPT !.internal = i]
<1>1. OnControllerDestroyed(view, k) = f
  BY DEF OnControllerDestroyed
<1>2. /\ b \in Controllers \cup {None} /\ e \in Controllers \cup {None}
      /\ i \in Controllers \cup {None}
  BY DEF View
<1>3. m \in BOOLEAN
  OBVIOUS
<1>4. view.bound # k /\ view.internal # k /\ view.external # k =>
        b = view.bound /\ e = view.external /\ i = view.internal
  OBVIOUS
<1>5. view.external # k => m = view.managed
  BY DEF View
<1> HIDE DEF b, m, e, i
<1>6. f \in View
  BY <1>2, <1>3, ViewFieldsTyped
<1>7. f.bound = b /\ f.internal = i /\ f.external = e
  BY DEF View
<1>8. f.managed = m
  BY DEF View
<1>9. [[[[view EXCEPT !.bound = view.bound] EXCEPT !.managed = view.managed]
          EXCEPT !.external = view.external] EXCEPT !.internal = view.internal] = view
  <2>1. [view EXCEPT !.bound = view.bound] = view
    BY DEF View
  <2>2. [view EXCEPT !.managed = view.managed] = view
    BY DEF View
  <2>3. [view EXCEPT !.external = view.external] = view
    BY DEF View
  <2>4. [view EXCEPT !.internal = view.internal] = view
    BY DEF View
  <2> QED
    BY <2>1, <2>2, <2>3, <2>4
<1>10. view.bound # k /\ view.internal # k /\ view.external # k => f = view
  <2> SUFFICES ASSUME view.bound # k, view.internal # k, view.external # k PROVE f = view
    OBVIOUS
  <2>1. b = view.bound /\ m = view.managed /\ e = view.external /\ i = view.internal
    BY <1>4, <1>5
  <2> QED
    BY <1>9, <2>1
<1> HIDE DEF f
<1> QED
  BY <1>1, <1>6, <1>7, <1>8, <1>10 DEF b, m, e, i

(* A controller that no view refers to.                                    *)
LEMMA UnusedDestroyed ==
  ASSUME NEW w, NEW u, NEW k \in Controllers, InOrder(w, {}), WorldTyped(u),
         u.made = w.made, \A x \in Views : u.views[x] = w.views[x],
         \A j \in Controllers \ {k} : u.ctl[j] = w.ctl[j],
         w.ctl[k].status = "alive",
         \A x \in Views : /\ w.views[x].bound # k /\ w.views[x].internal # k
                          /\ w.views[x].external # k,
         ControllerOK(u.ctl[k]), ~u.ctl[k].announce, u.ctl[k].status = "destroyed"
  PROVE  InOrder(u, {})
<1>1. u.ctl[k].observers = {} /\ ~u.ctl[k].surface
  BY DEF ControllerOK, Quiet
<1>2. ControllersOK(u)
  BY DEF InOrder, ControllersOK
<1>3. ASSUME NEW x \in Views PROVE Tied(u, x) /\ Shown(u, x)
  <2>1. Tied(w, x) /\ Shown(w, x) /\ WorldTyped(w) /\ u.views[x] = w.views[x]
    BY DEF InOrder
  <2>2. \A j \in Controllers \ {k} : u.ctl[j] = w.ctl[j] /\ u.made[j] = w.made[j]
    OBVIOUS
  <2> QED
    BY <2>1, <2>2, OthersTied
<1>4. ASSUME NEW j \in Controllers PROVE Linked(u, j) /\ Owned(u, j)
  <2>1. Linked(w, j) /\ Owned(w, j) /\ w.ctl[j].observers \subseteq Views
    BY WorldFields DEF InOrder, Controller
  <2>2. CASE j = k
    BY <1>1, <2>1, <2>2 DEF Linked, Owned
  <2>3. CASE j # k
    BY <2>1, <2>3 DEF Linked, Owned
  <2> QED
    BY <2>2, <2>3
<1> QED
  BY <1>2, <1>3, <1>4 DEF InOrder

LEMMA DestroyedByApp ==
  ASSUME NEW w, NEW k \in Controllers, InOrder(w, {}), w.ctl[k].status = "alive"
  PROVE  LET u == DestroyController(w, k)
         IN InOrder(u, {}) /\ u.crashed = w.crashed
<1> DEFINE c == w.ctl[k]
           d == Destroy(c)
           v == c.attached
           u == DestroyController(w, k)
<1>1. /\ WorldTyped(w) /\ ControllerOK(c) /\ ~c.announce /\ k # None
      /\ \A x \in Views : Tied(w, x)
      /\ w.views \in [Views -> View] /\ c \in Controller /\ v \in Views \cup {None}
  BY WorldFields, ViewAssumption DEF InOrder, ControllersOK, Controller
<1>2. /\ ControllerOK(d) /\ d.status = "destroyed" /\ d.announce = c.announce
      /\ ~d.surface /\ d.observers = {} /\ d.attached = None
  BY <1>1, DestroyOK
<1>3. d \in Controller
  BY <1>2 DEF ControllerOK
<1>4. \A x \in Views : x # v => /\ w.views[x].bound # k /\ w.views[x].internal # k
                               /\ w.views[x].external # k
  BY <1>1, NotShared
<1>5. CASE v = None
  <2>1. u = Recontrolled(w, k, d)
    BY <1>5 DEF DestroyController, IsAlive, Recontrolled, WorldTyped
  <2> HIDE DEF d, u
  <2>2. /\ WorldTyped(u) /\ u.views = w.views /\ u.made = w.made
        /\ u.crashed = w.crashed
        /\ u.ctl[k] = d /\ \A j \in Controllers \ {k} : u.ctl[j] = w.ctl[j]
    BY <1>1, <1>3, <2>1, RecontrolledFields
  <2>3. \A x \in Views : /\ w.views[x].bound # k /\ w.views[x].internal # k
                         /\ w.views[x].external # k
    BY <1>4, <1>5, ControllerAssumption
  <2>4. InOrder(u, {})
    BY <1>1, <1>2, <2>2, <2>3, UnusedDestroyed
  <2> QED
    BY <2>2, <2>4 DEF u
<1>6. CASE v \in Views
  <2> DEFINE view == w.views[v]
             f == OnControllerDestroyed(view, k)
  <2>1. view \in View
    BY <1>1, <1>6
  <2>2. u = Edited(w, v, f, k, d)
    <3>1. v # None
      BY <1>6, ControllerAssumption
    <3> DEFINE gone == [w EXCEPT !.ctl[k] = d]
               cs == [w.ctl EXCEPT ![k] = d]
               vs == [w.views EXCEPT ![v] = f]
    <3>2. gone = [w EXCEPT !.ctl = cs]
      BY <1>1 DEF WorldTyped
    <3>3. gone.views = w.views
      BY <1>1 DEF WorldTyped
    <3>4. u = [gone EXCEPT !.views[v] = OnControllerDestroyed(gone.views[v], k)]
      BY <3>1 DEF DestroyController, IsAlive
    <3>5. Edited(w, v, f, k, d) = [w EXCEPT !.ctl = cs, !.views = vs]
      BY <1>1 DEF Edited, WorldTyped
    <3> HIDE DEF gone, u, f
    <3>6. u = [gone EXCEPT !.views[v] = f]
      BY <3>3, <3>4 DEF f
    <3> HIDE DEF d, cs
    <3>7. [gone EXCEPT !.views[v] = f] = [w EXCEPT !.ctl = cs, !.views = vs]
      BY <1>1, <3>2 DEF WorldTyped
    <3> QED
      BY <3>5, <3>6, <3>7
  <2>3. /\ f \in View
        /\ f.bound = IF view.bound = k THEN None ELSE view.bound
        /\ f.internal = IF view.internal = k THEN None ELSE view.internal
        /\ f.external = IF view.external = k THEN None ELSE view.external
        /\ f.managed = (view.managed /\ view.external # k)
        /\ (view.bound # k /\ view.internal # k /\ view.external # k => f = view)
    BY <2>1, ForgottenFields
  <2> HIDE DEF d, u, f
  <2>4. /\ WorldTyped(u) /\ u.made = w.made /\ u.crashed = w.crashed
        /\ u.ctl[k] = d /\ \A j \in Controllers \ {k} : u.ctl[j] = w.ctl[j]
        /\ u.views[v] = f /\ \A x \in Views \ {v} : u.views[x] = w.views[x]
    <3> HIDE DEF v, view
    <3> QED
      BY <1>1, <1>3, <1>6, <2>2, <2>3, EditedFields
  <2>5. CASE view.bound # k /\ view.internal # k /\ view.external # k
    <3>1. \A x \in Views : /\ w.views[x].bound # k /\ w.views[x].internal # k
                           /\ w.views[x].external # k
      BY <1>4, <2>5
    <3>2. \A x \in Views : u.views[x] = w.views[x]
      BY <2>3, <2>4, <2>5
    <3>3. InOrder(u, {})
      BY <1>1, <1>2, <2>4, <3>1, <3>2, UnusedDestroyed
    <3> QED
      BY <2>4, <3>3 DEF u
  <2>6. CASE view.bound = k \/ view.internal = k \/ view.external = k
    <3>1. Tied(w, v)
      BY <1>1, <1>6
    <3>2. /\ view.bound \in {None, k} /\ view.internal \in {None, k}
          /\ view.external \in {None, k}
          /\ view.managed => view.external = k
      <4>1. view.internal # None => view.external = None /\ view.bound = view.internal
        BY <3>1 DEF Tied, InternalTied
      <4>2. view.bound # None =>
              view.bound = IF view.external # None THEN view.external ELSE view.internal
        BY <3>1 DEF Tied, BoundTied, Active
      <4>3. view.managed => view.external # None
        BY <3>1 DEF Tied, ExternalTied
      <4>4. k # None
        BY <1>1
      <4> HIDE DEF view
      <4> QED
        BY <2>6, <4>1, <4>2, <4>3, <4>4
    <3>3. f.bound = None /\ f.internal = None /\ f.external = None /\ ~f.managed
      BY <2>3, <3>2
    <3>4. \A i \in Controllers : Owns(view, i) => i = k
      BY <3>2, ViewAssumption DEF Owns
    <3>5. Parted(w, u, v, k)
      BY <1>1, <1>2, <2>4, <3>2, <3>3, <3>4 DEF Parted
    <3>6. ExternalTied(u, v)
      BY <2>4, <3>3 DEF ExternalTied
    <3>7. InOrder(u, {})
      BY <1>6, <2>4, <3>3, <3>5, <3>6, PartedAll
    <3> QED
      BY <2>4, <3>7 DEF u
  <2> QED
    BY <2>5, <2>6
<1> QED
  BY <1>1, <1>5, <1>6

LEMMA DestroyByAppKeeps ==
  ASSUME IInv, NEW k \in Controllers, DestroyByApp(k)
  PROVE  IInv'
<1> DEFINE u == DestroyController(World, k)
<1>1. World.ctl[k].status = "alive" /\ Becomes(u)
  BY DEF DestroyByApp, IsAlive
<1>2. InOrder(u, {}) /\ u.crashed = World.crashed
  BY <1>1, DestroyedByApp DEF IInv
<1> HIDE DEF u
<1> QED
  BY <1>1, <1>2, BecomesOrdered

(* The controller that the view leaves with its window: its own is         *)
(* destroyed, one of the app only stops reporting to it.                   *)
GivenUp(w, v, k) ==
  IF Owns(w.views[v], k)
  THEN DestroyController(Detach(Unobserve(w, v, k), v, k), k)
  ELSE Unobserve(w, v, k)

LEMMA GivenUpFields ==
  ASSUME NEW w, NEW v \in Views, NEW k \in Controllers, Holds(w, v, k),
         ~w.views[v].surfaceReady
  PROVE  LET u == GivenUp(w, v, k)
             d == u.ctl[k]
         IN /\ WorldTyped(u) /\ u.views = w.views /\ u.made = w.made
            /\ u.crashed = w.crashed
            /\ \A j \in Controllers \ {k} : u.ctl[j] = w.ctl[j]
            /\ ControllerOK(d) /\ ~d.announce /\ ~d.surface /\ d.observers = {}
            /\ d.status # "free"
            /\ Owns(w.views[v], k) => d.status # "alive"
            /\ ~Owns(w.views[v], k) => d.status = "alive" /\ d.attached = v
<1> DEFINE c == w.ctl[k]
           u == GivenUp(w, v, k)
<1>1. /\ WorldTyped(w) /\ ControllerOK(c) /\ ~c.announce /\ c.status = "alive"
      /\ c.observers \subseteq {v} /\ c.attached = v /\ c \in Controller
      /\ ~c.surface
  BY DEF Holds, ControllerOK
<1>2. CASE Owns(w.views[v], k)
  <2>1. u = Release(w, v, k, TRUE)
    BY <1>2 DEF GivenUp, Release
  <2>2. OnlyLetsGo(w, Release(w, v, k, TRUE), k, TRUE)
    BY <1>1, Released
  <2> HIDE DEF u
  <2>3. OnlyLetsGo(w, u, k, TRUE)
    BY <2>1, <2>2
  <2>4. LetGo(c, u.ctl[k], TRUE)
    BY <2>3 DEF OnlyLetsGo
  <2> QED
    BY <1>1, <1>2, <2>3, <2>4 DEF OnlyLetsGo, LetGo, u
<1>3. CASE ~Owns(w.views[v], k)
  <2> DEFINE o == Rebound(c, {}, v)
             r == Recontrolled(w, k, o)
  <2>1. u = r
    <3>1. u = Unobserve(w, v, k)
      BY <1>3 DEF GivenUp
    <3>2. [c EXCEPT !.observers = {}] = Rebound(c, {}, c.attached)
      BY <1>1, ReboundOnce
    <3>3. Rebound(c, {}, c.attached) = o
      BY <1>1
    <3>4. Unobserve(w, v, k) = Recontrolled(w, k, [c EXCEPT !.observers = {}])
      BY <1>1, Unattached
    <3> HIDE DEF o, u
    <3> QED
      BY <3>1, <3>2, <3>3, <3>4
  <2>2. /\ ControllerOK(o) /\ o.status = "alive" /\ o.observers = {}
        /\ o.attached = v /\ o.announce = c.announce /\ o.surface = c.surface
    BY <1>1, ReboundOK
  <2>3. o \in Controller
    BY <2>2 DEF ControllerOK
  <2> HIDE DEF o
  <2>4. /\ WorldTyped(r) /\ r.views = w.views /\ r.made = w.made
        /\ r.crashed = w.crashed
        /\ r.ctl[k] = o /\ \A j \in Controllers \ {k} : r.ctl[j] = w.ctl[j]
    BY <1>1, <2>3, RecontrolledFields
  <2> HIDE DEF r, u
  <2> QED
    BY <1>1, <1>3, <2>1, <2>2, <2>4 DEF u
<1> QED
  BY <1>2, <1>3

WithoutBound(w, v, k) ==
  [GivenUp(w, v, k) EXCEPT !.views[v].bound = None,
                           !.views[v].internal = IF @ = k THEN None ELSE @]

LEMMA WindowLeft ==
  ASSUME NEW w, NEW v \in Views, NEW k \in Controllers, InOrder(w, {}),
         w.views[v].bound = k, ~w.views[v].surfaceReady
  PROVE  LET u == WithoutBound(w, v, k)
         IN InOrder(u, {}) /\ u.crashed = w.crashed
<1> DEFINE view == w.views[v]
           freed == GivenUp(w, v, k)
           rest == [[view EXCEPT !.bound = None]
                      EXCEPT !.internal = IF view.internal = k THEN None
                                          ELSE view.internal]
           last == Retouched(freed, v, rest)
<1>1. WorldTyped(w) /\ Tied(w, v) /\ view \in View /\ Nearly(w, None) /\ k # None
  BY WorldFields, InOrderIsNearly, ViewAssumption DEF InOrder
<1>2. Holds(w, v, k) /\ w.ctl[k].status = "alive" /\ w.ctl[k].attached = v
  <2>1. AssignedIs(w, w, v, view.external, view.managed)
    BY <1>1 DEF AssignedIs
  <2>2. Holds(w, v, w.views[v].bound)
    BY <1>1, <2>1, BoundIsHeld
  <2> QED
    BY <2>2 DEF Holds
<1>3. /\ WorldTyped(freed) /\ freed.views = w.views /\ freed.made = w.made
      /\ freed.crashed = w.crashed
      /\ \A j \in Controllers \ {k} : freed.ctl[j] = w.ctl[j]
      /\ ControllerOK(freed.ctl[k]) /\ ~freed.ctl[k].announce /\ ~freed.ctl[k].surface
      /\ freed.ctl[k].observers = {} /\ freed.ctl[k].status # "free"
      /\ Owns(view, k) => freed.ctl[k].status # "alive"
      /\ ~Owns(view, k) => freed.ctl[k].status = "alive" /\ freed.ctl[k].attached = v
  BY <1>2, GivenUpFields
<1> HIDE DEF freed
<1>4. /\ view.internal # None => view.external = None /\ view.internal = k
      /\ view.external \in {None, k}
      /\ view.external = None => view.internal = k
      /\ view.managed => view.external = k /\ UsesEngine
  <2>1. view.internal # None => view.external = None /\ view.bound = view.internal
    BY <1>1 DEF Tied, InternalTied
  <2>2. view.bound = IF view.external # None THEN view.external ELSE view.internal
    BY <1>1 DEF Tied, BoundTied, Active
  <2>3. view.managed => view.external # None /\ UsesEngine
    BY <1>1 DEF Tied, ExternalTied
  <2> HIDE DEF view
  <2>4. view.bound = k
    BY DEF view
  <2> QED
    BY <1>1, <2>1, <2>2, <2>3, <2>4
<1>5. rest \in View /\ rest.bound = None /\ rest.internal = None
      /\ rest.external = view.external
  BY <1>1, <1>4 DEF View
<1>6. rest.managed = view.managed
  BY <1>1 DEF View
<1>7. [freed EXCEPT !.views[v].bound = None,
                    !.views[v].internal = IF @ = k THEN None ELSE @] = last
  <2>1. /\ freed.views[v] = view /\ freed.views \in [Views -> View]
    BY <1>3, WorldFields
  <2> QED
    BY <1>1, <1>3, <2>1 DEF Retouched, WorldTyped, View
<1> HIDE DEF rest
<1>8. /\ WorldTyped(last) /\ last.ctl = freed.ctl /\ last.made = freed.made
      /\ last.crashed = freed.crashed
      /\ last.views[v] = rest /\ \A x \in Views \ {v} : last.views[x] = freed.views[x]
  BY <1>3, <1>5, RetouchedFields
<1> HIDE DEF last, view
<1>9. /\ w.views[v] = view /\ Tied(w, v)
      /\ w.made[k] = IF Owns(view, k) THEN "view" ELSE "app"
  <2>1. view.internal = k => w.made[k] = "view"
    BY <1>1 DEF Tied, InternalTied, view
  <2>2. view.external = k => w.made[k] = IF view.managed THEN "view" ELSE "app"
    BY <1>1 DEF Tied, ExternalTied, view
  <2> QED
    BY <1>1, <1>4, <2>1, <2>2 DEF Owns, view
<1>10. Parted(w, last, v, k)
  <2>1. \A i \in Controllers : Owns(view, i) => i = k
    BY <1>4, ViewAssumption DEF Owns
  <2>2. w.made[k] = "view" => last.ctl[k].status # "alive"
    BY <1>3, <1>8, <1>9
  <2>3. last.ctl[k].status = "free" <=> w.ctl[k].status = "free"
    BY <1>2, <1>3, <1>8
  <2>4. /\ ControllerOK(last.ctl[k]) /\ ~last.ctl[k].announce
        /\ ~last.ctl[k].surface /\ last.ctl[k].observers = {}
    BY <1>3, <1>8
  <2>5. w.views[v].bound \in {None, k}
    OBVIOUS
  <2> QED
    BY <1>2, <1>3, <1>5, <1>8, <1>9, <2>1, <2>2, <2>3, <2>4, <2>5 DEF Parted
<1>11. ExternalTied(last, v)
  <2>1. view.external = k => last.made[k] = IF view.managed THEN "view" ELSE "app"
    BY <1>1, <1>3, <1>8 DEF Tied, ExternalTied, view
  <2>2. view.external = k /\ ~view.managed => ~Owns(view, k)
    BY <1>1, <1>4 DEF Owns
  <2>3. view.external = k /\ ~view.managed => last.ctl[k].status = "alive"
    BY <1>3, <1>8, <2>2
  <2>4. last.ctl[k].status # "free"
    BY <1>3, <1>8
  <2>5. last.ctl[k].status = "alive" => last.ctl[k].attached = v
    BY <1>3, <1>8
  <2>6. last.views[v].external = view.external /\ last.views[v].managed = view.managed
    BY <1>5, <1>6, <1>8
  <2> QED
    BY <1>1, <1>4, <2>1, <2>3, <2>4, <2>5, <2>6 DEF ExternalTied
<1>12. InOrder(last, {})
  <2>1. last.views[v].internal = None
    BY <1>5, <1>8
  <2> QED
    BY <1>10, <1>11, <2>1, PartedAll
<1> QED
  BY <1>3, <1>7, <1>8, <1>12 DEF freed, WithoutBound

LEMMA DetachFromWindowKeeps ==
  ASSUME IInv, NEW v \in Views, DetachFromWindow(v)
  PROVE  IInv'
<1> DEFINE view == [views[v] EXCEPT !.window = FALSE]
           left == Retouched(World, v, view)
           k == views[v].bound
<1>1. views[v] \in View /\ World.views = views /\ InOrder(World, {}) /\ ~views[v].surfaceReady
  BY WorldEdit, WorldIs DEF IInv, DetachFromWindow
<1>2. view \in View /\ SameView(views[v], view) /\ view.defaultCamera = views[v].defaultCamera
  BY <1>1, FlingAndWindow
<1>3. [World EXCEPT !.views[v].window = FALSE] = left
  BY <1>1 DEF Retouched, World
<1>4. /\ view.bound = k /\ view.internal = views[v].internal
      /\ view.external = views[v].external
  BY <1>1 DEF View
<1>5. view.managed = views[v].managed /\ view.surfaceReady = views[v].surfaceReady
  BY <1>1 DEF View
<1> HIDE DEF view
<1>6. /\ InOrder(left, {}) /\ left.crashed = World.crashed /\ left.ctl = World.ctl
      /\ left.views[v] = view
      /\ Room(World) => Room(left)
  BY <1>1, <1>2, TouchedInOrder
<1> HIDE DEF left
<1>7. CASE k = None
  <2>1. Becomes(left)
    BY <1>3, <1>7 DEF DetachFromWindow
  <2> QED
    BY <1>6, <2>1, BecomesOrdered
<1>8. CASE k # None
  <2> DEFINE owned == k = views[v].internal \/ (k = views[v].external /\ views[v].managed)
             unobserved == Unobserve(left, v, k)
             freed == IF owned THEN DestroyController(Detach(unobserved, v, k), k)
                               ELSE unobserved
             last == WithoutBound(left, v, k)
  <2>1. k \in Controllers
    BY <1>1, <1>8 DEF View
  <2>2. owned <=> Owns(left.views[v], k)
    BY <1>4, <1>5, <1>6 DEF Owns
  <2>3. freed = GivenUp(left, v, k)
    BY <2>2 DEF GivenUp
  <2>4. Becomes([freed EXCEPT !.views[v].bound = None,
                              !.views[v].internal = IF @ = k THEN None ELSE @])
    BY <1>1, <1>3, <1>8 DEF DetachFromWindow
  <2> HIDE DEF freed
  <2>5. Becomes(last)
    BY <2>3, <2>4 DEF WithoutBound
  <2>6. InOrder(last, {}) /\ last.crashed = left.crashed
    <3>1. left.views[v].bound = k /\ ~left.views[v].surfaceReady
      BY <1>1, <1>4, <1>5, <1>6
    <3> HIDE DEF k
    <3> QED
      BY <1>6, <2>1, <3>1, WindowLeft
  <2> HIDE DEF last
  <2> QED
    BY <1>6, <2>5, <2>6, BecomesOrdered
<1> QED
  BY <1>7, <1>8

---------------------------------------------------------------------------
(* Every step keeps the invariant.                                         *)

LEMMA AppKeeps ==
  ASSUME IInv, ~crashed, IdentityLeft, App
  PROVE  IInv'
<1>1. CASE \E config \in Configs \cup {None} : CreateController(config)
  BY <1>1, CreateControllerKeeps
<1>2. CASE \E k \in Controllers :
             DestroyByApp(k) \/ \E call \in Calls : CallController(k, call)
  <2>1. PICK k \in Controllers :
               DestroyByApp(k) \/ \E call \in Calls : CallController(k, call)
    BY <1>2
  <2>2. CASE DestroyByApp(k)
    BY <2>2, DestroyByAppKeeps
  <2>3. CASE \E call \in Calls : CallController(k, call)
    BY <2>3, CallControllerKeeps
  <2> QED
    BY <2>1, <2>2, <2>3
<1>3. ASSUME NEW v \in Views,
             \/ \E k \in Controllers \cup {None} : SetController(v, k)
             \/ \E given \in BOOLEAN : SetEngine(v, given)
             \/ \E config \in Configs : SetConfig(v, config)
             \/ \E call \in Calls : CallView(v, call)
             \/ StopViewAnimation(v)
      PROVE  IInv'
  <2>1. CASE \E k \in Controllers \cup {None} : SetController(v, k)
    BY <2>1, SetControllerKeeps
  <2>2. CASE \E given \in BOOLEAN : SetEngine(v, given)
    BY <2>2, SetEngineKeeps
  <2>3. CASE \E config \in Configs : SetConfig(v, config)
    BY <2>3, SetConfigKeeps
  <2>4. CASE \E call \in Calls : CallView(v, call)
    BY <2>4, CallViewKeeps
  <2>5. CASE StopViewAnimation(v)
    BY <2>5, StopViewAnimationKeeps
  <2> QED
    BY <1>3, <2>1, <2>2, <2>3, <2>4, <2>5
<1> QED
  BY <1>1, <1>2, <1>3 DEF App

LEMMA AndroidKeeps ==
  ASSUME IInv, ~crashed, IdentityLeft, Android
  PROVE  IInv'
<1>1. ASSUME NEW v \in Views,
             \/ AttachToWindow(v) \/ DetachFromWindow(v)
             \/ SurfaceCreated(v) \/ SurfaceDestroyed(v)
             \/ \E size \in Sizes : SurfaceChanged(v, size)
      PROVE  IInv'
  <2>1. CASE AttachToWindow(v)
    BY <2>1, AttachToWindowKeeps
  <2>2. CASE DetachFromWindow(v)
    BY <2>2, DetachFromWindowKeeps
  <2>3. CASE SurfaceCreated(v)
    BY <2>3, SurfaceCreatedKeeps
  <2>4. CASE SurfaceDestroyed(v)
    BY <2>4, SurfaceDestroyedKeeps
  <2>5. CASE \E size \in Sizes : SurfaceChanged(v, size)
    BY <2>5, SurfaceChangedKeeps
  <2> QED
    BY <1>1, <2>1, <2>2, <2>3, <2>4, <2>5
<1>2. ASSUME NEW k \in Controllers, CameraFrameFires(k) \/ AnimationEnds(k)
      PROVE  IInv'
  BY <1>2, FramesKeep
<1>3. ASSUME NEW k \in Controllers, NEW camera \in Cameras, AnimationStep(k, camera)
      PROVE  IInv'
  BY <1>3, FramesKeep
<1> QED
  BY <1>1, <1>2, <1>3 DEF Android

LEMMA UserKeeps ==
  ASSUME IInv, ~crashed, IdentityLeft, User
  PROVE  IInv'
<1>1. PICK v \in Views :
        \/ StartFling(v) \/ StopFling(v)
        \/ \E camera \in Cameras : Pan(v, camera) \/ Pinch(v, camera)
        \/ \E camera \in Cameras, ends \in BOOLEAN : FlingFrame(v, camera, ends)
  BY DEF User
<1>2. CASE \E camera \in Cameras : Pinch(v, camera)
  BY <1>2, PinchKeeps
<1>3. CASE \/ StartFling(v) \/ StopFling(v)
           \/ \E camera \in Cameras : Pan(v, camera)
           \/ \E camera \in Cameras, ends \in BOOLEAN : FlingFrame(v, camera, ends)
  BY <1>3, TouchesKeep
<1> QED
  BY <1>1, <1>2, <1>3

LEMMA StepKeepsOrder == IInv /\ [Next]_vars => IInv'
<1> SUFFICES ASSUME IInv, [Next]_vars PROVE IInv'
  OBVIOUS
<1>1. CASE Next
  BY <1>1, AppKeeps, AndroidKeeps, UserKeeps DEF Next
<1>2. CASE UNCHANGED vars
  <2>1. World' = World
    BY <1>2 DEF World, vars
  <2> QED
    BY <2>1 DEF IInv
<1> QED
  BY <1>1, <1>2

THEOREM AlwaysInOrder == Spec => []IInv
<1>1. Init => IInv
  BY InitInOrder
<1>2. IInv /\ [Next]_vars => IInv'
  BY StepKeepsOrder
<1> QED
  BY <1>1, <1>2, PTL DEF Spec

---------------------------------------------------------------------------
(* What holds in every reachable state.                                    *)

LEMMA InOrderFacts ==
  ASSUME IInv
  PROVE  /\ WorldTyped(World)
         /\ \A k \in Controllers : /\ ControllerOK(ctl[k])
                                   /\ Linked(World, k) /\ Owned(World, k)
         /\ \A v \in Views : Tied(World, v) /\ Shown(World, v)
         /\ World.views = views /\ World.ctl = ctl /\ World.made = made
  BY WorldIs DEF IInv, InOrder, ControllersOK

(* Every variable keeps its type, and a controller has a renderer exactly  *)
(* while it is alive: destroy closes it, and no method creates one after.  *)
THEOREM ViewTypesKept == Spec => []ViewTypeOK
<1>1. IInv => ViewTypeOK
  <2> SUFFICES ASSUME IInv PROVE ViewTypeOK
    OBVIOUS
  <2>1. WorldTyped(World) /\ \A k \in Controllers : ControllerOK(ctl[k])
    BY InOrderFacts
  <2>2. /\ views \in [Views -> View] /\ ctl \in [Controllers -> Controller]
        /\ made \in [Controllers -> {"app", "view", None}] /\ crashed \in BOOLEAN
    BY <2>1 DEF WorldTyped, World
  <2> QED
    BY <2>1, <2>2 DEF ViewTypeOK, ControllerOK, Alive
<1> QED
  BY <1>1, AlwaysInOrder, PTL

(* The renderer has the controller's camera, or a frame that brings it is  *)
(* posted: scheduleCameraToNative and cancelScheduledNativeCameraPush let  *)
(* no older camera overtake a newer one.                                   *)
THEOREM CameraStaysInSync == Spec => []CameraInSync
<1>1. IInv => CameraInSync
  BY InOrderFacts DEF CameraInSync, Alive, ControllerOK, CameraKept
<1> QED
  BY <1>1, AlwaysInOrder, PTL

(* The renderer shows the layers that the controller has recorded, also    *)
(* after recreateNativeRenderer.                                           *)
THEOREM LayersStayAgreed == Spec => []LayersAgree
<1>1. IInv => LayersAgree
  BY InOrderFacts DEF LayersAgree, Alive, ControllerOK, LayersKept, Agree
<1> QED
  BY <1>1, AlwaysInOrder, PTL

(* After destroy no frame is posted, no animation runs and nobody listens. *)
THEOREM DestroyedIsQuiet == Spec => []DestroyedStaysQuiet
<1>1. IInv => DestroyedStaysQuiet
  BY InOrderFacts DEF DestroyedStaysQuiet, ControllerOK, Quiet
<1> QED
  BY <1>1, AlwaysInOrder, PTL

(* fitBounds waits for a size and for nothing else.                        *)
THEOREM FitOnlyWaitsForSize == Spec => []FitWaitsForSize
<1>1. IInv => FitWaitsForSize
  BY InOrderFacts DEF FitWaitsForSize, Alive, ControllerOK
<1> QED
  BY <1>1, AlwaysInOrder, PTL

(* The view's defaultCamera is the camera of its own controller.           *)
THEOREM CameraIsRemembered == Spec => []ViewRemembersCamera
<1>1. IInv => ViewRemembersCamera
  BY InOrderFacts DEF ViewRemembersCamera, Tied, InternalTied
<1> QED
  BY <1>1, AlwaysInOrder, PTL

(* A renderer has a surface exactly while it is bound to a view that has   *)
(* one: none is drawn to after surfaceDestroyed.                           *)
THEOREM SurfaceIsTheViews == Spec => []SurfaceFollowsView
<1>1. IInv => SurfaceFollowsView
  <2> SUFFICES ASSUME IInv, NEW k \in Controllers, ctl[k].status = "alive"
               PROVE  ctl[k].native.surface
                        <=> \E v \in Views : views[v].bound = k /\ views[v].surfaceReady
    BY DEF SurfaceFollowsView, Alive
  <2>1. /\ ctl[k].native.surface = ctl[k].surface
        /\ ctl[k].surface => \E v \in Views : views[v].bound = k
    BY InOrderFacts DEF ControllerOK, SurfaceKept, Linked
  <2>2. \A v \in Views : views[v].bound = k => (ctl[k].surface <=> views[v].surfaceReady)
    BY InOrderFacts, ViewAssumption DEF Shown
  <2> QED
    BY <2>1, <2>2
<1> QED
  BY <1>1, AlwaysInOrder, PTL

(* A renderer that draws to a view's surface knows its size.               *)
THEOREM SizeIsTheViews == Spec => []SizeFollowsView
<1>1. IInv => SizeFollowsView
  <2> SUFFICES ASSUME IInv, NEW v \in Views, NEW k, k = views[v].bound, k # None,
                      views[v].surfaceReady, views[v].size > 0
               PROVE  ctl[k].native.size = views[v].size
    BY DEF SizeFollowsView
  <2>1. k \in Controllers
    BY InOrderFacts, WorldFields DEF View
  <2>2. ctl[k].surface /\ ctl[k].size = views[v].size
    BY InOrderFacts DEF Shown
  <2>3. ctl[k].status = "alive"
    BY InOrderFacts DEF Tied, BoundTied
  <2> QED
    BY <2>1, <2>2, <2>3, InOrderFacts DEF ControllerOK, SurfaceKept
<1> QED
  BY <1>1, AlwaysInOrder, PTL

(* bound, attached and observed agree.                                     *)
THEOREM BindingStaysMutual == Spec => []BindingMutual
<1>1. IInv => BindingMutual
  <2> SUFFICES ASSUME IInv, NEW v \in Views
               PROVE  /\ \A k \in Controllers : v \in ctl[k].observers => views[v].bound = k
                      /\ views[v].bound # None =>
                           /\ views[v].bound = Active(views[v])
                           /\ views[v].bound \in Alive
                           /\ ctl[views[v].bound].attached = v
                           /\ v \in ctl[views[v].bound].observers
    BY DEF BindingMutual, Active
  <2>1. \A k \in Controllers : v \in ctl[k].observers => views[v].bound = k
    BY InOrderFacts DEF Linked
  <2>2. views[v].bound \in Controllers \cup {None}
    BY InOrderFacts, WorldFields DEF View
  <2> QED
    BY <2>1, <2>2, InOrderFacts DEF Tied, BoundTied, Alive
<1> QED
  BY <1>1, AlwaysInOrder, PTL

(* No view forgets a live controller that was created for it.              *)
THEOREM NoRendererIsLeaked == Spec => []NoRendererLeaked
<1>1. IInv => NoRendererLeaked
  BY InOrderFacts DEF NoRendererLeaked, Alive, Owned, Owns
<1> QED
  BY <1>1, AlwaysInOrder, PTL

(* The view's own controller has the view's template and cache directory.  *)
THEOREM InternalHasViewConfig == Spec => []InternalUsesViewConfig
<1>1. IInv => InternalUsesViewConfig
  BY InOrderFacts DEF InternalUsesViewConfig, Shown
<1> QED
  BY <1>1, AlwaysInOrder, PTL

(* In an app with one view that never calls setEngine no check or require  *)
(* of OsmMapController fails, whatever controllers the app creates, gives  *)
(* to the view and destroys: the view reaches no destroyed controller, and *)
(* attachToView never finds the controller at another view.                *)
THEOREM ChecksNeverFail ==
  ASSUME ~UsesEngine, \A u, v \in Views : u = v
  PROVE  Spec => []NoCheckFails
<1>1. IInv => NoCheckFails
  BY WorldIs DEF IInv, ChecksMayFail, NoCheckFails
<1> QED
  BY <1>1, AlwaysInOrder, PTL
===========================================================================
