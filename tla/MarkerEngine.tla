---------------------------- MODULE MarkerEngine ----------------------------
(***************************************************************************)
(* The markers of OsmTileEngine: the calls of the UniFFI facade, which     *)
(* check and convert their arguments, lock the MapState, work on it, and   *)
(* unlock it when they return. Numbers arrive as 64-bit signed integers    *)
(* and are checked once as such, before the lock, and once as ids, zooms   *)
(* and coordinates. Names, kinds and the averaged coordinates of clusters  *)
(* are left out. Nothing panics under the lock, so it is never poisoned.   *)
(***************************************************************************)
EXTENDS WebMercator, FiniteSets, SequencesExt

CONSTANTS
  Callers, Requests, Radius, NoViewport,
  MaxU32,      \* u32::MAX
  MaxCalls     \* bound: calls in one behaviour

Marker == [id : Int, lat : Int, lon : Int, minZoom : Int, maxZoom : Int]
Bounds == [south : Int, west : Int, north : Int, east : Int]
Request ==
  [op : {"setViewport"}, bounds : Bounds, zoom : Int]
  \cup [op : {"replace", "upsert"}, markers : Seq(Marker)]
  \cup [op : {"remove"}, id : Int]
  \cup [op : {"clear", "visible", "clustered"}]
  \cup [op : {"clusteredAll"}, zoom : Int]

ASSUME EngineAssumption ==
  /\ Requests \subseteq Request
  /\ Radius \in Nat \ {0}
  /\ MaxU32 \in Nat /\ MaxU32 > MaxZoom
  /\ MaxCalls \in Nat

VARIABLES
  markers,     \* MapState.markers
  viewport,    \* MapState.viewport
  lock,        \* who holds map_state: a set of at most one caller
  calls,       \* the calls that are running, by caller
  callsMade

stateVars == <<markers, viewport>>
engineVars == <<stateVars, lock, calls, callsMade>>

Idle == [op |-> "idle"]
Answer(items) == [op |-> "answer", items |-> items]
Failure(error) == [op |-> "failure", error |-> error]
Call(pc, r) == [op |-> pc, request |-> r]

EngineTypeOK ==
  /\ \A id \in DOMAIN markers : markers[id].id = id /\ ValidPoint(markers[id])
  /\ viewport # NoViewport => ValidBounds(viewport.bounds) /\ ValidZoom(viewport.zoom)
  /\ lock \subseteq Callers /\ Cardinality(lock) <= 1
  /\ \A c \in Callers : calls[c].op \in {"idle", "answer", "failure", "convert", "lock", "run"}
  /\ callsMade \in 0..MaxCalls

EngineInit ==
  /\ markers = [id \in {} |-> id]
  /\ viewport = NoViewport
  /\ lock = {}
  /\ calls = [c \in Callers |-> Idle]
  /\ callsMade = 0

Becomes(c, call) == calls' = [calls EXCEPT ![c] = call]

Begin(c, r) ==
  /\ calls[c] = Idle
  /\ callsMade < MaxCalls
  /\ callsMade' = callsMade + 1
  /\ Becomes(c, Call("convert", r))
  /\ UNCHANGED <<stateVars, lock>>

(* i64_to_u32, i64_to_marker_id and the constructors they feed. The zoom   *)
(* of clusteredAll is only checked to fit.                                 *)
FitsU32(n) == n \in 0..MaxU32

(* Mutant of MarkerConverts: numbers only have to fit.                     *)
MarkerFits(m) ==
  /\ m.id >= 0
  /\ FitsU32(m.minZoom) /\ FitsU32(m.maxZoom)

MarkerConverts(m) ==
  /\ m.id >= 0
  /\ FitsU32(m.minZoom) /\ FitsU32(m.maxZoom)
  /\ ValidPoint(m)
  /\ ValidZoom(m.minZoom) /\ ValidZoom(m.maxZoom)
  /\ m.minZoom <= m.maxZoom

Converts(r) ==
  CASE r.op = "setViewport" -> ValidBounds(r.bounds) /\ FitsU32(r.zoom) /\ ValidZoom(r.zoom)
    [] r.op \in {"replace", "upsert"} ->
         \A i \in DOMAIN r.markers : MarkerConverts(r.markers[i])
    [] r.op = "remove" -> r.id >= 0
    [] r.op = "clusteredAll" -> FitsU32(r.zoom)
    [] OTHER -> TRUE

Convert(c) ==
  /\ calls[c].op = "convert"
  /\ Becomes(c, IF Converts(calls[c].request) THEN [calls[c] EXCEPT !.op = "lock"]
                ELSE Failure("invalid input"))
  /\ UNCHANGED <<stateVars, lock, callsMade>>

(* Mutant of Lock: the lock does not exclude anybody.                      *)
LockShared(c) ==
  /\ calls[c].op = "lock"
  /\ lock' = {c}
  /\ Becomes(c, [calls[c] EXCEPT !.op = "run"])
  /\ UNCHANGED <<stateVars, callsMade>>

Lock(c) ==
  /\ calls[c].op = "lock"
  /\ lock = {}
  /\ lock' = {c}
  /\ Becomes(c, [calls[c] EXCEPT !.op = "run"])
  /\ UNCHANGED <<stateVars, callsMade>>

Runs(c, op) == calls[c].op = "run" /\ calls[c].request.op = op

(* The guard is dropped with the frame of the call.                        *)
Return(c, answer) ==
  /\ lock' = lock \ {c}
  /\ Becomes(c, answer)
  /\ UNCHANGED callsMade

SetViewport(c) ==
  /\ Runs(c, "setViewport")
  /\ viewport' = [bounds |-> calls[c].request.bounds, zoom |-> calls[c].request.zoom]
  /\ Return(c, Answer(<<>>))
  /\ UNCHANGED markers

(* HashMap::insert.                                                        *)
Inserted(map, m) ==
  [id \in DOMAIN map \cup {m.id} |-> IF id = m.id THEN m ELSE map[id]]

InsertedAll(map, batch) == FoldLeft(Inserted, map, batch)

(* A new map is filled and put in the place of the old one.                *)
ReplaceMarkers(c) ==
  /\ Runs(c, "replace")
  /\ markers' = InsertedAll([id \in {} |-> id], calls[c].request.markers)
  /\ Return(c, Answer(<<>>))
  /\ UNCHANGED viewport

(* upsert_markers inserts into the map itself, one marker after another.   *)
UpsertMarker(c) ==
  /\ Runs(c, "upsert")
  /\ LET batch == calls[c].request.markers IN
     IF batch = <<>>
     THEN Return(c, Answer(<<>>)) /\ UNCHANGED markers
     ELSE /\ markers' = Inserted(markers, Head(batch))
          /\ Becomes(c, [calls[c] EXCEPT !.request.markers = Tail(batch)])
          /\ UNCHANGED <<lock, callsMade>>
  /\ UNCHANGED viewport

RemoveMarker(c) ==
  /\ Runs(c, "remove")
  /\ markers' = [id \in DOMAIN markers \ {calls[c].request.id} |-> markers[id]]
  /\ Return(c, Answer(<<>>))
  /\ UNCHANGED viewport

ClearMarkers(c) ==
  /\ Runs(c, "clear")
  /\ markers' = [id \in {} |-> id]
  /\ Return(c, Answer(<<>>))
  /\ UNCHANGED viewport

---------------------------------------------------------------------------
(* The queries.                                                            *)

(* sort_by_key, for keys that differ: the i-th has i - 1 others below it.  *)
SortedBy(S, key) ==
  [i \in 1..Cardinality(S) |->
     CHOOSE x \in S : Cardinality({y \in S : key[y] < key[x]}) = i - 1]

ById(ms) == SortedBy(ms, [m \in ms |-> m.id])

AtZoom(zoom) ==
  {m \in {markers[id] : id \in DOMAIN markers} : m.minZoom <= zoom /\ zoom <= m.maxZoom}

MarkersAtZoom(zoom) == ById(AtZoom(zoom))

MarkersInViewport ==
  ById({m \in AtZoom(viewport.zoom) : BoundsContain(viewport.bounds, m)})

Cell(m, zoom) ==
  <<WorldX(m.lon, zoom) \div Radius, WorldY(m.lat, zoom) \div Radius>>

(* The HashMap of cells, each with its markers in the order they came.     *)
Pushed(cells, cell, m) ==
  [k \in DOMAIN cells \cup {cell} |->
     IF k # cell THEN cells[k]
     ELSE IF k \in DOMAIN cells THEN Append(cells[k], m) ELSE <<m>>]

CellsOf(ms, zoom) ==
  FoldLeft(LAMBDA cells, m : Pushed(cells, Cell(m, zoom), m), [k \in {} |-> <<>>], ms)

ClusterMarkers(ms, zoom) ==
  LET cells == CellsOf(ms, zoom)
      smallest == [cell \in DOMAIN cells |->
                     Min({cells[cell][i].id : i \in DOMAIN cells[cell]})]
      order == SortedBy(DOMAIN cells, smallest)
      item(cell) ==
        LET members == ById({cells[cell][i] : i \in DOMAIN cells[cell]}) IN
        IF Len(members) = 1 THEN [type |-> "marker", marker |-> members[1]]
        ELSE [type |-> "cluster", zoom |-> zoom, cell |-> cell,
              ids |-> [i \in DOMAIN members |-> members[i].id]]
  IN [i \in DOMAIN order |-> item(order[i])]

VisibleMarkers(c) ==
  /\ Runs(c, "visible")
  /\ Return(c, IF viewport = NoViewport THEN Failure("state")
               ELSE Answer(MarkersInViewport))
  /\ UNCHANGED stateVars

ClusteredMarkers(c) ==
  /\ Runs(c, "clustered")
  /\ Return(c, IF viewport = NoViewport THEN Failure("state")
               ELSE Answer(ClusterMarkers(MarkersInViewport, viewport.zoom)))
  /\ UNCHANGED stateVars

ClusteredAll(c) ==
  /\ Runs(c, "clusteredAll")
  /\ LET zoom == calls[c].request.zoom IN
     Return(c, IF ~ValidZoom(zoom) THEN Failure("invalid input")
               ELSE Answer(ClusterMarkers(MarkersAtZoom(zoom), zoom)))
  /\ UNCHANGED stateVars

End(c) ==
  /\ calls[c].op \in {"answer", "failure"}
  /\ Becomes(c, Idle)
  /\ UNCHANGED <<stateVars, lock, callsMade>>

EngineNext ==
  \E c \in Callers :
    \/ \E r \in Requests : Begin(c, r)
    \/ Convert(c) \/ Lock(c)
    \/ SetViewport(c) \/ ReplaceMarkers(c) \/ UpsertMarker(c)
    \/ RemoveMarker(c) \/ ClearMarkers(c)
    \/ VisibleMarkers(c) \/ ClusteredMarkers(c) \/ ClusteredAll(c)
    \/ End(c)

EngineSpec == EngineInit /\ [][EngineNext]_engineVars

---------------------------------------------------------------------------
(* Calls look atomic: an upsert has its effect when it gets the lock,      *)
(* although it then goes through the map marker by marker; every other     *)
(* call has it in the step that works on the map.                          *)
Upserting == {c \in Callers : Runs(c, "upsert")}

StoreSeen ==
  IF Upserting = {} THEN markers
  ELSE InsertedAll(markers, calls[CHOOSE c \in Upserting : TRUE].request.markers)

CallSeen(c) ==
  IF calls[c].op \notin {"convert", "lock", "run"} THEN calls[c]
  ELSE IF c \in Upserting THEN Answer(<<>>) ELSE calls[c].request

Service == INSTANCE AtomicMarkers WITH
  store <- StoreSeen, shown <- viewport, calls <- [c \in Callers |-> CallSeen(c)]

EngineIsAtomic == Service!Spec
===========================================================================
