----------------------- MODULE RendererWorkerClient -----------------------
(***************************************************************************)
(* The renderer worker with the most general surroundings it can have: a   *)
(* UI that sends any of UiCommands through JNI, and a tile loader that     *)
(* answers every request well or badly, or discards it.                    *)
(***************************************************************************)
EXTENDS RendererWorker

CONSTANTS
  UiCommands,      \* the commands this instance's UI sends
  MaxUiCommands,   \* bound: how many of them in one behaviour
  MaxBacklog       \* bound: commands waiting for the worker

ASSUME ClientAssumption == UiCommands \subseteq UiCommand

VARIABLES
  sentByUi         \* commands sent so far

vars == <<tileRequests, commands, loaderPc, workerPc, workerVars, sentByUi>>

ClientInit ==
  /\ ChannelsInit
  /\ WorkerInit
  /\ sentByUi = 0

UiSends(c) ==
  /\ sentByUi < MaxUiCommands
  /\ Len(commands) < MaxBacklog
  /\ SendToWorker(c)
  /\ sentByUi' = sentByUi + 1
  /\ UNCHANGED <<tileRequests, loaderPc, workerPc, workerVars>>

(* The loader takes its messages in any order: it has threads of its own.  *)
LoaderHandles(i) ==
  tileRequests' = SubSeq(tileRequests, 1, i - 1)
                    \o SubSeq(tileRequests, i + 1, Len(tileRequests))

LoaderAnswers(i, ok) ==
  /\ ok \/ "network" \in Faults
  /\ Len(commands) < MaxBacklog
  /\ SendToWorker(TileLoaded(tileRequests[i].request.id, ok))
  /\ LoaderHandles(i)
  /\ UNCHANGED <<loaderPc, workerPc, workerVars, sentByUi>>

LoaderDiscards(i) ==
  /\ LoaderHandles(i)
  /\ UNCHANGED <<commands, loaderPc, workerPc, workerVars, sentByUi>>

Client ==
  \/ \E c \in UiCommands : UiSends(c)
  \/ \E i \in DOMAIN tileRequests :
       LoaderDiscards(i) \/ \E ok \in BOOLEAN : LoaderAnswers(i, ok)

(* The worker has returned, or blocks in recv with nothing left to do and  *)
(* a UI that has nothing more to say.                                      *)
AtRest ==
  /\ \/ workerPc = "stopped"
     \/ /\ workerPc = "loop" /\ ~needsRender /\ commands = <<>>
        /\ sentByUi = MaxUiCommands
        /\ tileRequests = <<>>
  /\ UNCHANGED vars

Next ==
  \/ WorkerThread /\ UNCHANGED sentByUi
  \/ Client
  \/ AtRest

Spec == ClientInit /\ [][Next]_vars
===========================================================================
