--------------------------- MODULE TileChannels ---------------------------
(***************************************************************************)
(* The two mpsc channels between the threads of the Android renderer, and  *)
(* the program counters of the two threads that own their receivers.       *)
(*                                                                         *)
(*   tileRequests : Sender<TileLoaderRequest>, read by the tile loader     *)
(*   commands     : Sender<RenderCommand>, read by the renderer worker     *)
(*                                                                         *)
(* Both are unbounded in the code and first in, first out. A receiver      *)
(* lives as long as its thread: once the thread has returned a send fails, *)
(* every caller only logs the failure, and what the channel still held is  *)
(* gone.                                                                   *)
(***************************************************************************)
EXTENDS Integers, Sequences, FiniteSets

CONSTANTS
  Tiles,          \* the tile ids the instance talks about
  PriorityLevels, \* the f32 priorities requests are compared by
  Faults          \* what the environment may do wrong in this instance

(* "network": an HTTP request fails.    "undecodable": a server answers    *)
(* with bytes that are no image.        "io": a file operation fails.      *)
(* "panic": a fetch task or a decoder panics.  "start": no tokio runtime.  *)
FaultKinds == {"network", "undecodable", "io", "panic", "start"}

ASSUME ChannelsAssumption ==
  /\ PriorityLevels \subseteq Int
  /\ Faults \subseteq FaultKinds

VARIABLES
  tileRequests,   \* messages sent to the tile loader, oldest first
  commands,       \* messages sent to the renderer worker, oldest first
  loaderPc,       \* where the tile loader thread is in its loop
  workerPc        \* where the renderer worker thread is in its loop

(* TileLoadRequest, with the one field of its TileRequestMetadata. *)
TileLoadRequest ==
  [id : Tiles, generation : Nat, priority : PriorityLevels]

(* TileLoaderRequest::Load and TileLoaderRequest::Shutdown. *)
Load(request) == [type |-> "Load", request |-> request]
LoaderShutdown == [type |-> "Shutdown"]

TileLoaderRequest ==
  [type : {"Load"}, request : TileLoadRequest] \cup {LoaderShutdown}

(* RenderCommand::TileLoaded. The pixels matter only by being there: ok    *)
(* says whether the option holds a decoded tile. Exactly the commands with *)
(* a tile carry no error.                                                  *)
TileLoaded(id, ok) == [type |-> "TileLoaded", id |-> id, ok |-> ok]
TileLoadedCommand == [type : {"TileLoaded"}, id : Tiles, ok : BOOLEAN]

LoaderPcs ==
  {"starting", "spawn", "receive", "join", "drain", "joining", "stopped"}
WorkerPcs == {"starting", "loop", "sending", "evicting", "drawing", "stopped"}

(* Sender::send: the message is queued while the receiving thread lives.   *)
SendToLoader(message) ==
  tileRequests' = IF loaderPc = "stopped" THEN tileRequests
                  ELSE Append(tileRequests, message)

SendToWorker(command) ==
  commands' = IF workerPc = "stopped" THEN commands
              ELSE Append(commands, command)

(* The tiles that some message of a channel asks for or answers.           *)
RequestedIds ==
  {tileRequests[i].request.id :
     i \in {j \in DOMAIN tileRequests : tileRequests[j].type = "Load"}}
AnsweredIds ==
  {commands[i].id :
     i \in {j \in DOMAIN commands : commands[j].type = "TileLoaded"}}

ChannelsInit ==
  /\ tileRequests = <<>>
  /\ commands = <<>>
  /\ loaderPc = "starting"
  /\ workerPc = "starting"
===========================================================================
