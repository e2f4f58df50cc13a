--------------------------- MODULE MCTileLoader ---------------------------
(* Values for TLC.                                                         *)
EXTENDS TileLoaderClient

MCPriorities == {1, 2}
MCFaults == {"network", "undecodable", "start"}
===========================================================================
