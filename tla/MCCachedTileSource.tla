------------------------- MODULE MCCachedTileSource -------------------------
(* Values for TLC: load_tile on two threads of the app, and a loader.      *)
EXTENDS CachedTileSource, TLC

CONSTANTS app1, app2, loader, f1, f2, f3, f4

MCCallers == {app1, app2, loader}
MCInodes == {f1, f2, f3, f4}
Symmetry == Permutations({app1, app2}) \cup Permutations(MCInodes)
===========================================================================
