----------------------------- MODULE MCMapView -----------------------------
(* Values for TLC: which calls the app makes, and where a fit leads.       *)
EXTENDS MapView, TLC

CONSTANTS b

MCFitCamera == [bounds \in {b} |-> [size \in Sizes |-> MaxZoom]]

(* A layer that is added, hidden, faded and removed, and cameras: a fit     *)
(* with an animation stands for animateCamera, too.                        *)
ManyCalls ==
  {[op |-> "SetCamera", camera |-> 2],
   [op |-> "FitBounds", bounds |-> b, animate |-> TRUE],
   [op |-> "StopAnimation"],
   [op |-> "AddTileLayer", id |-> "roads", opacity |-> 2, hasTemplate |-> FALSE],
   [op |-> "SetLayerVisible", id |-> "roads", visible |-> FALSE],
   [op |-> "SetLayerOpacity", id |-> "roads", opacity |-> 0],
   [op |-> "RemoveLayer", id |-> "roads"]}

FewCalls == {[op |-> "SetCamera", camera |-> 2]}

Symmetry == Permutations(Configs) \cup Permutations(Views)
===========================================================================
