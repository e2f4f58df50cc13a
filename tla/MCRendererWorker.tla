------------------------- MODULE MCRendererWorker -------------------------
(* Values for TLC: a near camera that shows t1, and on a wide screen t2    *)
(* too, one to the east that shows t3, and on a wide screen twice t2, and  *)
(* one of t4 that is more than MaxZoomDistance zoom levels further out.    *)
EXTENDS RendererWorkerClient, TLC

CONSTANTS t1, t2, t3, t4, here, east, far, invalid, narrow, wide, refused

MCTiles == {t1, t2, t3, t4}
MCCameras == {here, east, far}
MCScreens == {narrow, wide}
View(c, s) == [camera |-> c, screen |-> s]
MCInitialView == View(here, wide)
MCVisibleTiles ==
  [v \in [camera : MCCameras, screen : MCScreens] |->
     CASE v.camera = here -> IF v.screen = wide THEN <<t1, t2>> ELSE <<t1>>
       [] v.camera = east -> IF v.screen = wide THEN <<t2, t3, t2>> ELSE <<t2>>
       [] v.camera = far  -> <<t4>>]
MCPrefetchTier ==
  [v \in [camera : MCCameras, screen : MCScreens] |->
     IF v = View(here, narrow) THEN t2 :> 2 @@ t3 :> 2 ELSE <<>>]
MCTierPriorities == 0 :> {1} @@ 1 :> {1} @@ 2 :> {1}
MCPriorities == {1}
MCZoom == t1 :> 5 @@ t2 :> 5 @@ t3 :> 5 @@ t4 :> 2
MCTileBytes == t1 :> 2 @@ t2 :> 1 @@ t3 :> 1 @@ t4 :> 1
MCIdleBudgets == {2}
MCFaults == {"start", "network"}
BothLayers == {"base", "roads"}

(* What the UI can do to the surface, the cameras and its layers, with     *)
(* cameras, sizes and opacities that are refused.                            *)
MCUiCommands ==
  [type : {"SurfaceCreated", "SurfaceDestroyed"}]
  \cup [type : {"Resize"}, screen : {narrow, wide, refused}]
  \cup [type : {"SetCamera"}, camera : {east, far, invalid}]
  \cup [type : {"SetLayerVisible"}, layer : {"base"}, visible : BOOLEAN]
  \cup [type : {"RemoveLayer"}, layer : {"base"}]
  \cup [type : {"SetLayerOpacity"}, layer : {"base"}, opacity : {"none"}]
  \cup [type : {"AddTileLayer"}, layer : {"roads"}, opacity : {"some", "invalid"}]
===========================================================================
