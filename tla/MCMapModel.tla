----------------------------- MODULE MCMapModel -----------------------------
(* Values for TLC: the markers of an OsmTileEngine, and the frames and the *)
(* layers of a renderer. They share no state, so that a behaviour of this  *)
(* instance has one of the three at work.                                  *)
EXTENDS MarkerEngine, MapFrame, LayerStack

Init == EngineInit /\ FrameInit /\ StackInit

FrameIdle == surface = NoScreen /\ lastCamera = NoCamera

Next ==
  \/ FrameIdle /\ layers = <<>> /\ EngineNext /\ UNCHANGED <<frameVars, layers>>
  \/ callsMade = 0 /\ layers = <<>> /\ FrameNext /\ UNCHANGED <<engineVars, layers>>
  \/ callsMade = 0 /\ FrameIdle /\ StackNext /\ UNCHANGED <<engineVars, frameVars>>

Spec == Init /\ [][Next]_<<engineVars, frameVars, layers>>

---------------------------------------------------------------------------
(* The world has eight pixels at zoom 0, and grid cells are two wide and   *)
(* high. Marker 1 is beside marker 2, in its cell at zoom 0 only, or at    *)
(* the north pole; marker 3 is on the antimeridian.                        *)

CONSTANTS app1, app2

MCCallers == {app1, app2}
Symmetry == Permutations(MCCallers)

MarkerOf(id, lat, lon, low, high) ==
  [id |-> id, lat |-> lat, lon |-> lon, minZoom |-> low, maxZoom |-> high]
Cafe == MarkerOf(1, 1, 1, 0, 1)
CafeMoved == MarkerOf(1, 5, -4, 0, 0)
Hotel == MarkerOf(2, 1, 0, 0, 1)
Ferry == MarkerOf(3, 1, 4, 0, 1)
BadId == MarkerOf(-1, 1, 1, 0, 1)
BadZooms == MarkerOf(2, 1, 1, 1, 0)
BadZoom == MarkerOf(2, 1, 1, 0, 3)
BadPlace == MarkerOf(2, 6, 1, 0, 1)

BoundsOf(south, west, north, east) ==
  [south |-> south, west |-> west, north |-> north, east |-> east]

MCRequests ==
  [op : {"setViewport"}, bounds : {BoundsOf(0, 0, 2, 2)}, zoom : {0, 3}]
  \cup [op : {"setViewport"},
        bounds : {BoundsOf(-4, 3, 5, -3), BoundsOf(2, 0, 0, 2)}, zoom : {1}]
  \cup [op : {"replace"}, markers : {<<Cafe, Hotel>>, <<Hotel, BadZooms>>}]
  \cup [op : {"upsert"},
        markers : {<<CafeMoved, Ferry>>, <<Hotel, CafeMoved, Cafe>>,
                   <<Hotel, BadId>>, <<BadZoom>>, <<BadPlace>>}]
  \cup [op : {"remove"}, id : {1, -1}]
  \cup [op : {"clear", "visible", "clustered"}]
  \cup [op : {"clusteredAll"}, zoom : {-1, 0, 2, 3, 5}]
---------------------------------------------------------------------------
(* Cameras on both sides of the antimeridian, at a pole, at whole and      *)
(* fractional zooms, and some that are refused; a screen of several rows   *)
(* of tiles, and one that is wider than the world and lower than a tile.   *)
Camera(zoom, scale, lats, lons) == [lat : lats, lon : lons, zoom : {zoom}, scale : {scale}]

MCCameras ==
  Camera(0, 3, {2}, {1}) \cup Camera(1, 2, {5}, {-4, 2}) \cup Camera(1, 3, {0}, {-3, 4})
  \cup Camera(2, 2, {-2, 0}, {0}) \cup Camera(2, 2, {1}, {1, 4}) \cup Camera(2, 3, {0}, {0})
  \cup Camera(1, 2, {6}, {0}) \cup Camera(1, 2, {0}, {5})

MCScreens == {[width |-> 12, height |-> 13], [width |-> 37, height |-> 5]}
---------------------------------------------------------------------------
(* Layers of each kind at two heights, one of which changes its kind, and  *)
(* some that are refused.                                                  *)
Layer(id, kind, zIndexes, low, high, opacity) ==
  [id : {id}, kind : {kind}, zIndex : zIndexes, visible : {TRUE},
   opacity : {opacity}, minZoom : {low}, maxZoom : {high}]

MCLayers ==
  Layer(1, "tile", {0, 1}, 0, 30, "opaque") \cup Layer(2, "tile", {0}, 0, 30, "opaque")
  \cup Layer(2, "vector", {0}, 0, 30, "opaque")
  \cup Layer(3, "marker", {0, -1}, 0, 30, "opaque")
  \cup Layer(3, "tile", {0}, 2, 1, "opaque") \cup Layer(1, "tile", {0}, 0, 31, "opaque")
  \cup Layer(2, "vector", {1}, 0, 30, "refused")
===========================================================================
