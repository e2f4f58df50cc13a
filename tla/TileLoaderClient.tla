-------------------------- MODULE TileLoaderClient --------------------------
(***************************************************************************)
(* The tile loader with the most general client the rest of the code can   *)
(* be to it: a renderer that asks for any tile, at any priority, in the    *)
(* order of its request generations, that may ask again for a tile it has  *)
(* asked for, and that reads answers whenever it likes; AndroidMapRenderer,*)
(* which sends one Shutdown at any time, after which requests of the       *)
(* renderer may still arrive. CachedTileSource has the other users of the  *)
(* cache directory.                                                        *)
(***************************************************************************)
EXTENDS TileLoader

CONSTANTS
  MaxRequests,     \* bound: requests the client makes in one behaviour
  MaxGeneration    \* bound: the last request generation

VARIABLES
  generation,      \* the renderer's request_generation
  requestsMade,    \* requests made so far
  shutdownSent     \* whether AndroidMapRenderer has been dropped

clientVars == <<generation, requestsMade, shutdownSent>>
vars == <<tileRequests, commands, loaderPc, workerPc, loaderVars, clientVars>>

ClientInit ==
  /\ ChannelsInit
  /\ LoaderInit
  /\ generation = 0
  /\ requestsMade = 0
  /\ shutdownSent = FALSE

ClientRequests(t, p) ==
  /\ requestsMade < MaxRequests
  /\ SendToLoader(Load([id |-> t, generation |-> generation, priority |-> p]))
  /\ requestsMade' = requestsMade + 1
  /\ UNCHANGED <<commands, loaderPc, workerPc, loaderVars, generation,
                 shutdownSent>>

ClientMovesCamera ==
  /\ generation < MaxGeneration
  /\ generation' = generation + 1
  /\ UNCHANGED <<tileRequests, commands, loaderPc, workerPc, loaderVars,
                 requestsMade, shutdownSent>>

ClientReads ==
  /\ commands # <<>>
  /\ commands' = Tail(commands)
  /\ UNCHANGED <<tileRequests, loaderPc, workerPc, loaderVars, clientVars>>

ClientDrops ==
  /\ ~shutdownSent
  /\ shutdownSent' = TRUE
  /\ SendToLoader(LoaderShutdown)
  /\ UNCHANGED <<commands, loaderPc, workerPc, loaderVars, generation,
                 requestsMade>>

Client ==
  \/ \E t \in Tiles, p \in PriorityLevels : ClientRequests(t, p)
  \/ ClientMovesCamera \/ ClientReads \/ ClientDrops

LoaderStep == LoaderNext /\ UNCHANGED clientVars

(* The whole system has stopped: the thread that owned it has returned.    *)
Terminated ==
  /\ loaderPc = "stopped"
  /\ UNCHANGED vars

Next == LoaderStep \/ Client \/ Terminated

(* Each thread keeps running, each fetch ends (HTTP requests time out      *)
(* after 10 s, file operations return) and each decoder finishes.          *)
Fairness ==
  /\ WF_vars(LoaderThread /\ UNCHANGED <<workerPc, clientVars>>)
  /\ WF_vars(FetchTask /\ UNCHANGED <<workerPc, clientVars>>)
  /\ WF_vars(DecoderThreads /\ UNCHANGED <<workerPc, clientVars>>)

Spec == ClientInit /\ [][Next]_vars
FairSpec == Spec /\ Fairness

---------------------------------------------------------------------------
(* A request that the loader has accepted does not stay with it for ever:  *)
(* it is answered or discarded, and the tile can be asked for again.       *)
InFlightEnds == \A t \in Tiles : t \in inFlight ~> t \notin inFlight

(* The thread that drops the renderer joins the loader: the loader returns *)
(* once it has been told to, whatever it still had to do.                  *)
ShutdownEnds == shutdownSent ~> loaderPc = "stopped"
===========================================================================
