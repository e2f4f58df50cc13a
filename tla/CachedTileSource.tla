-------------------------- MODULE CachedTileSource --------------------------
(***************************************************************************)
(* CachedTileSource on its FileTileCache, with everybody who uses them:    *)
(* the callers of OsmTileEngine::load_tile, and the loader threads of the  *)
(* renderers that share an engine's source. A load looks in the cache,     *)
(* downloads what is missing, stores it and returns it. A loader also      *)
(* removes the file of a tile that it could not load or decode, some time  *)
(* after the load. It loads a tile once at a time (TileLoader shows it).   *)
(***************************************************************************)
EXTENDS FileTileCache

CONSTANTS
  Loaders,     \* the callers that are loaders; the others are load_tile
  Downloads,   \* what a download gives: "good", "bad" or "error"
  MaxLoads     \* bound: loads in one behaviour

ASSUME SourceAssumption ==
  /\ Loaders \subseteq Callers
  /\ "good" \in Contents
  /\ Downloads \subseteq Contents \cup {"error"}
  /\ MaxLoads \in Nat

VARIABLES
  loads,       \* what each caller is doing, and with which tile
  loadsMade

sourceVars == <<storeVars, loads, loadsMade>>

NoLoad == [step |-> "idle"]
Load(step, t, bytes) == [step |-> step, id |-> t, bytes |-> bytes]

Outcome == Contents \cup {"error"}
Loading ==
  [step : {"get", "download", "put", "loaded", "remove"},
   id : Tiles, bytes : Outcome \cup {"none"}]

(* With the types, that no load ever gives a tile that was half written.   *)
SourceTypeOK ==
  /\ StoreTypeOK
  /\ loads \in [Callers -> {NoLoad} \cup Loading]
  /\ loadsMade \in 0..MaxLoads

SourceInit ==
  /\ StoreInit
  /\ loads = [c \in Callers |-> NoLoad]
  /\ loadsMade = 0

Moves(c, load) == loads' = [loads EXCEPT ![c] = load]

StartLoad(c, t) ==
  /\ loads[c] = NoLoad
  /\ loadsMade < MaxLoads
  /\ loadsMade' = loadsMade + 1
  /\ Begin(c, [op |-> "open", id |-> t])
  /\ Moves(c, Load("get", t, "none"))

GetReturns(c) ==
  /\ loads[c].step = "get"
  /\ End(c)
  /\ LET found == calls[c].value IN
     Moves(c, IF found = "none" THEN Load("download", loads[c].id, "none")
              ELSE Load("loaded", loads[c].id, found))
  /\ UNCHANGED loadsMade

Download(c) ==
  /\ loads[c].step = "download"
  /\ \E bytes \in Downloads :
       IF bytes = "error"
       THEN /\ Moves(c, Load("loaded", loads[c].id, "error"))
            /\ UNCHANGED storeVars
       ELSE /\ Moves(c, Load("put", loads[c].id, bytes))
            /\ Begin(c, [op |-> "create", id |-> loads[c].id, bytes |-> bytes])
  /\ UNCHANGED loadsMade

(* A put that fails fails the load, though the bytes are there.            *)
PutReturns(c) ==
  /\ loads[c].step = "put"
  /\ End(c)
  /\ Moves(c, Load("loaded", loads[c].id,
                   IF calls[c].value = "ok" THEN loads[c].bytes ELSE "error"))
  /\ UNCHANGED loadsMade

(* load_tile hands its result to the app; a loader decodes it, and removes *)
(* the file when there is no tile to show for it.                          *)
LoadReturns(c) ==
  /\ loads[c].step = "loaded"
  /\ IF c \in Loaders /\ loads[c].bytes # "good"
     THEN /\ Begin(c, [op |-> "unlink", id |-> loads[c].id])
          /\ Moves(c, Load("remove", loads[c].id, loads[c].bytes))
     ELSE Moves(c, NoLoad) /\ UNCHANGED storeVars
  /\ UNCHANGED loadsMade

(* An error of the removal is only logged.                                 *)
RemoveReturns(c) ==
  /\ loads[c].step = "remove"
  /\ End(c)
  /\ Moves(c, NoLoad)
  /\ UNCHANGED loadsMade

CacheSteps(c) ==
  /\ CallStep(c) \/ OperationFails(c)
  /\ UNCHANGED <<loads, loadsMade>>

ProcessDies ==
  /\ Dies
  /\ loads' = [c \in Callers |-> NoLoad]
  /\ UNCHANGED loadsMade

Next ==
  \/ \E c \in Callers :
       \/ \E t \in Tiles : StartLoad(c, t)
       \/ GetReturns(c) \/ Download(c) \/ PutReturns(c) \/ LoadReturns(c)
       \/ RemoveReturns(c) \/ CacheSteps(c)
  \/ ProcessDies

Spec == SourceInit /\ [][Next]_sourceVars

---------------------------------------------------------------------------
(* What the loader's log message calls the files it removes: the cached    *)
(* tiles that turned out to be undecodable.                                *)
OnlyUndecodableRemoved ==
  [][\A t \in Tiles :
       Stored(t) # "none" /\ Stored(t)' = "none" => Stored(t) = "bad"]_tileFile
===========================================================================
