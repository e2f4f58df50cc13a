--------------------------- MODULE AtomicMarkers ---------------------------
(***************************************************************************)
(* What OsmTileEngine promises about its markers to callers on any number  *)
(* of threads: every call takes effect at one instant between its start    *)
(* and its return; a call with an invalid argument fails and changes       *)
(* nothing; of several markers with one id in a batch the last one counts; *)
(* a query answers with the markers that are visible, each of them once,   *)
(* on its own or in the cluster of its grid cell, in the order of their    *)
(* smallest ids.                                                           *)
(***************************************************************************)
EXTENDS WebMercator, FiniteSets

CONSTANTS
  Callers,     \* threads of the app
  Requests,    \* the calls this instance's app makes
  Radius,      \* DEFAULT_CLUSTER_RADIUS_PX
  NoViewport

VARIABLES
  store,       \* the markers, by id
  shown,       \* the viewport, or NoViewport
  calls        \* what each caller waits for, or has been given

serviceVars == <<store, shown, calls>>

Idle == [op |-> "idle"]
Answer(items) == [op |-> "answer", items |-> items]
Failure(error) == [op |-> "failure", error |-> error]

ValidMarker(m) ==
  /\ m.id >= 0
  /\ ValidPoint(m)
  /\ ValidZoom(m.minZoom) /\ ValidZoom(m.maxZoom) /\ m.minZoom <= m.maxZoom

Valid(r) ==
  CASE r.op = "setViewport" -> ValidBounds(r.bounds) /\ ValidZoom(r.zoom)
    [] r.op \in {"replace", "upsert"} -> \A i \in DOMAIN r.markers : ValidMarker(r.markers[i])
    [] r.op = "remove" -> r.id >= 0
    [] r.op = "clusteredAll" -> ValidZoom(r.zoom)
    [] OTHER -> TRUE

(* The store that a batch makes of an older one.                           *)
BatchIds(batch) == {batch[i].id : i \in DOMAIN batch}
LastWith(batch, id) ==
  batch[CHOOSE i \in DOMAIN batch :
          batch[i].id = id /\ \A j \in DOMAIN batch : batch[j].id = id => j <= i]
Merged(old, batch) ==
  [id \in DOMAIN old \cup BatchIds(batch) |->
     IF id \in BatchIds(batch) THEN LastWith(batch, id) ELSE old[id]]

NoMarkers == [id \in {} |-> id]

StoreAfter(r) ==
  CASE r.op = "replace" -> Merged(NoMarkers, r.markers)
    [] r.op = "upsert" -> Merged(store, r.markers)
    [] r.op = "remove" -> [id \in DOMAIN store \ {r.id} |-> store[id]]
    [] r.op = "clear" -> NoMarkers
    [] OTHER -> store

VisibleIds(zoom) ==
  {id \in DOMAIN store : zoom \in store[id].minZoom..store[id].maxZoom}

(* The i-th id has i - 1 others below it.                                  *)
InOrder(ids) ==
  [i \in 1..Cardinality(ids) |->
     CHOOSE id \in ids : Cardinality({other \in ids : other < id}) = i - 1]

(* The grid cells of a zoom level, and the markers that share one.         *)
CellOf(m, zoom) ==
  <<WorldX(m.lon, zoom) \div Radius, WorldY(m.lat, zoom) \div Radius>>

Items(ids, zoom) ==
  LET cell(id) == CellOf(store[id], zoom)
      together(id) == {other \in ids : cell(other) = cell(id)}
      leaders == {id \in ids : \A other \in together(id) : id <= other}
      item(id) ==
        IF together(id) = {id} THEN [type |-> "marker", marker |-> store[id]]
        ELSE [type |-> "cluster", zoom |-> zoom, cell |-> cell(id),
              ids |-> InOrder(together(id))]
  IN [i \in 1..Cardinality(leaders) |-> item(InOrder(leaders)[i])]

ShownIds == {id \in VisibleIds(shown.zoom) : BoundsContain(shown.bounds, store[id])}

Result(r) ==
  CASE r.op = "visible" -> [i \in 1..Cardinality(ShownIds) |-> store[InOrder(ShownIds)[i]]]
    [] r.op = "clustered" -> Items(ShownIds, shown.zoom)
    [] r.op = "clusteredAll" -> Items(VisibleIds(r.zoom), r.zoom)
    [] OTHER -> <<>>

Init ==
  /\ store = NoMarkers
  /\ shown = NoViewport
  /\ calls = [c \in Callers |-> Idle]

Begin(c) ==
  /\ calls[c] = Idle
  /\ \E r \in Requests : calls' = [calls EXCEPT ![c] = r]
  /\ UNCHANGED <<store, shown>>

Waiting(c) == calls[c].op \notin {"idle", "answer", "failure"}

Reject(c) ==
  /\ Waiting(c)
  /\ ~Valid(calls[c])
  /\ calls' = [calls EXCEPT ![c] = Failure("invalid input")]
  /\ UNCHANGED <<store, shown>>

NotReady(c) ==
  /\ calls[c].op \in {"visible", "clustered"}
  /\ shown = NoViewport
  /\ calls' = [calls EXCEPT ![c] = Failure("state")]
  /\ UNCHANGED <<store, shown>>

Effect(c) ==
  /\ Waiting(c)
  /\ Valid(calls[c])
  /\ calls[c].op \in {"visible", "clustered"} => shown # NoViewport
  /\ LET r == calls[c] IN
       /\ store' = StoreAfter(r)
       /\ shown' = IF r.op = "setViewport"
                   THEN [bounds |-> r.bounds, zoom |-> r.zoom] ELSE shown
       /\ calls' = [calls EXCEPT ![c] = Answer(Result(r))]

End(c) ==
  /\ calls[c].op \in {"answer", "failure"}
  /\ calls' = [calls EXCEPT ![c] = Idle]
  /\ UNCHANGED <<store, shown>>

Next == \E c \in Callers :
          Begin(c) \/ Reject(c) \/ NotReady(c) \/ Effect(c) \/ End(c)

Spec == Init /\ [][Next]_serviceVars
===========================================================================
