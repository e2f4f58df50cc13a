-------------------------- MODULE MCTilePipeline --------------------------
(* Values for TLC: two tiles, one screen, and two cameras that share tile  *)
(* a or, in the safety run, have a tile each.                              *)
EXTENDS TilePipeline, TLC

CONSTANTS a, b, here, east

MCTiles == {a, b}
MCPriorities == {1, 2}
MCCameras == {here, east}
Hither == [camera |-> here, screen |-> "screen"]
Yonder == [camera |-> east, screen |-> "screen"]
MCVisibleTiles == Hither :> <<a>> @@ Yonder :> <<a, b>>
ApartTiles == Hither :> <<a>> @@ Yonder :> <<b>>
NoPrefetch == Hither :> <<>> @@ Yonder :> <<>>
MCTierPriorities == 0 :> {1, 2} @@ 1 :> {1} @@ 2 :> {1}
MCZoom == a :> 5 @@ b :> 5
MCTileBytes == a :> 1 @@ b :> 1
MCIdleBudgets == {2}
NoFaults == {}
LoadFaults == {"network", "undecodable", "io", "panic"}
MCUiCommands ==
  {[type |-> "Resize", screen |-> "screen"], [type |-> "SetCamera", camera |-> east]}
ThereAndBack == MCUiCommands \cup {[type |-> "SetCamera", camera |-> here]}
===========================================================================
