-------------------------- MODULE AtomicTileCache --------------------------
(***************************************************************************)
(* What the tile cache promises whoever calls it: every get, put and       *)
(* remove takes effect at one instant between its call and its return, or  *)
(* fails without an effect, and a crash of the process costs the calls     *)
(* that were running and nothing that was stored.                          *)
(*                                                                         *)
(* FileTileCache implements it with files; TileLoader and TilePipeline use *)
(* it as it stands here, as the function disk.                             *)
(***************************************************************************)
CONSTANTS
  Tiles,
  Callers,    \* the threads and tasks that call the cache
  Contents    \* what a tile's bytes can be

NoTile == "none"

VARIABLES
  stored,     \* the bytes of each tile, or NoTile
  calls       \* what each caller is waiting for, or has been given

cacheVars == <<stored, calls>>

Request ==
  [op : {"get", "remove"}, id : Tiles]
  \cup [op : {"put"}, id : Tiles, bytes : Contents]
Answer(value) == [op |-> "answer", value |-> value]
Idle == [op |-> "idle"]

Init ==
  /\ stored \in [Tiles -> Contents \cup {NoTile}]
  /\ calls = [c \in Callers |-> Idle]

Begin(c) ==
  /\ calls[c] = Idle
  /\ \E request \in Request : calls' = [calls EXCEPT ![c] = request]
  /\ UNCHANGED stored

Get(c) ==
  /\ calls[c].op = "get"
  /\ calls' = [calls EXCEPT ![c] = Answer(stored[calls[c].id])]
  /\ UNCHANGED stored

Put(c) ==
  /\ calls[c].op = "put"
  /\ stored' = [stored EXCEPT ![calls[c].id] = calls[c].bytes]
  /\ calls' = [calls EXCEPT ![c] = Answer("ok")]

Remove(c) ==
  /\ calls[c].op = "remove"
  /\ stored' = [stored EXCEPT ![calls[c].id] = NoTile]
  /\ calls' = [calls EXCEPT ![c] = Answer("ok")]

(* A get may fail even once it has found the tile.                         *)
Fail(c) ==
  /\ \/ calls[c].op \in {"get", "put", "remove"}
     \/ calls[c].op = "answer" /\ calls[c].value \in Contents
  /\ calls' = [calls EXCEPT ![c] = Answer("error")]
  /\ UNCHANGED stored

End(c) ==
  /\ calls[c].op = "answer"
  /\ calls' = [calls EXCEPT ![c] = Idle]
  /\ UNCHANGED stored

(* The process dies and is started again.                                  *)
Crash ==
  /\ calls' = [c \in Callers |-> Idle]
  /\ UNCHANGED stored

Next ==
  \/ \E c \in Callers :
       Begin(c) \/ Get(c) \/ Put(c) \/ Remove(c) \/ Fail(c) \/ End(c)
  \/ Crash

Spec == Init /\ [][Next]_cacheVars
===========================================================================
