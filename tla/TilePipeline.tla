--------------------------- MODULE TilePipeline ---------------------------
(***************************************************************************)
(* AndroidMapRenderer: the renderer worker and the tile loader, connected  *)
(* by their two channels, and the thread that owns them: the UI thread,    *)
(* which sends commands through JNI and at last drops the renderer.        *)
(*                                                                         *)
(* Drop tells the worker and then the loader to shut down, and joins the   *)
(* worker and then the loader; the UI thread blocks in both joins.         *)
(***************************************************************************)
EXTENDS TileLoader, RendererWorker

CONSTANTS
  UiCommands,      \* the commands this instance's UI sends
  MaxUiCommands    \* bound: how many of them in one behaviour

(* The worker's Shutdown comes from Drop only.                             *)
ASSUME PipelineAssumption ==
  /\ UiCommands \subseteq UiCommand \ [type : {"Shutdown"}]
  /\ MaxUiCommands \in Nat

VARIABLES
  owner,           \* where the owning thread is
  sentByUi         \* commands sent so far

ownerVars == <<owner, sentByUi>>
vars == <<tileRequests, commands, loaderPc, workerPc, loaderVars, workerVars,
          ownerVars>>

Init ==
  /\ ChannelsInit
  /\ LoaderInit
  /\ WorkerInit
  /\ owner = "open"
  /\ sentByUi = 0

UiSends(c) ==
  /\ owner = "open"
  /\ sentByUi < MaxUiCommands
  /\ SendToWorker(c)
  /\ sentByUi' = sentByUi + 1
  /\ UNCHANGED <<tileRequests, loaderPc, workerPc, loaderVars, workerVars,
                 owner>>

DropStopsWorker ==
  /\ owner = "open"
  /\ owner' = "closing"
  /\ SendToWorker([type |-> "Shutdown"])
  /\ UNCHANGED <<tileRequests, loaderPc, workerPc, loaderVars, workerVars,
                 sentByUi>>

DropStopsLoader ==
  /\ owner = "closing"
  /\ owner' = "joiningWorker"
  /\ SendToLoader(LoaderShutdown)
  /\ UNCHANGED <<commands, loaderPc, workerPc, loaderVars, workerVars,
                 sentByUi>>

DropJoinsWorker ==
  /\ owner = "joiningWorker"
  /\ workerPc = "stopped"
  /\ owner' = "joiningLoader"
  /\ UNCHANGED <<tileRequests, commands, loaderPc, workerPc, loaderVars,
                 workerVars, sentByUi>>

DropJoinsLoader ==
  /\ owner = "joiningLoader"
  /\ loaderPc = "stopped"
  /\ owner' = "dropped"
  /\ UNCHANGED <<tileRequests, commands, loaderPc, workerPc, loaderVars,
                 workerVars, sentByUi>>

Drop ==
  DropStopsWorker \/ DropStopsLoader \/ DropJoinsWorker \/ DropJoinsLoader

Loader == LoaderNext /\ UNCHANGED <<workerVars, ownerVars>>
Worker == WorkerThread /\ UNCHANGED <<loaderVars, ownerVars>>
Owner == Drop \/ \E c \in UiCommands : UiSends(c)

(* The renderer is gone; nothing is left of it but the cache directory.    *)
Dropped == owner = "dropped" /\ UNCHANGED vars

Next == Loader \/ Worker \/ Owner \/ Dropped

Spec == Init /\ [][Next]_vars

---------------------------------------------------------------------------
(* Fairness. The operating system runs every thread. The worker calls      *)
(* recv and render_if_due in turn, so neither waiting commands nor a due   *)
(* frame can keep the other from its turn for ever: hence strong fairness  *)
(* for each. HTTP requests time out and file operations return, so fetch   *)
(* tasks finish; decoding ends. The 250 ms of camera motion pass. Once     *)
(* Drop has begun it runs on; nothing forces the UI to drop or to speak.   *)
WorkerSteps(A) == A /\ UNCHANGED <<loaderVars, ownerVars>>
LoaderSteps(A) == A /\ UNCHANGED <<workerPc, workerVars, ownerVars>>

Fairness ==
  /\ WF_vars(WorkerSteps(WorkerStarts \/ WorkerFailsToStart))
  /\ SF_vars(WorkerSteps(ReceiveCommand))
  /\ SF_vars(WorkerSteps(RenderFrame))
  /\ WF_vars(WorkerSteps(ContinueFrame))
  /\ WF_vars(WorkerSteps(MotionExpires))
  /\ WF_vars(LoaderSteps(LoaderThread))
  /\ WF_vars(LoaderSteps(FetchTask))
  /\ WF_vars(LoaderSteps(DecoderThreads))
  /\ WF_vars(Drop /\ owner # "open")

FairSpec == Spec /\ Fairness

---------------------------------------------------------------------------
(* What the renderer as a whole promises.                                  *)

WorkerRuns == workerPc \in {"loop", "sending", "evicting", "drawing"}
LoaderRuns == loaderPc \notin {"joining", "stopped"}

(* A tile the worker counts as pending, and therefore does not ask for     *)
(* again, is on its way: requested, in one of the loader's stages, or      *)
(* answered. It can get lost in two ways only: the loader discards the     *)
(* request as out of date, or the task that holds the tile panics.         *)
PendingAccounted ==
  WorkerRuns /\ LoaderRuns =>
    pendingLoads \subseteq
      RequestedIds \cup StageIds \cup AnsweredIds
        \cup superseded \cup orphaned

(* The pixels of a tile that was fetched well are on disk when the worker  *)
(* gets them: an answer with a tile is an answer that outlives the app. An *)
(* older answer may be on its way still when a later load of the tile fails*)
(* and the loader removes the file; then the later answer says so.         *)
IsLastAnswer(i) ==
  /\ commands[i].type = "TileLoaded"
  /\ \A j \in DOMAIN commands :
       j > i /\ commands[j].type = "TileLoaded" => commands[j].id # commands[i].id

AnsweredTilesAreCached ==
  \A i \in DOMAIN commands :
    IsLastAnswer(i) /\ commands[i].ok => disk[commands[i].id] = "good"

(* A tile the user should be looking at.                                   *)
Wanted(t) ==
  /\ WorkerRuns
  /\ viewport
  /\ HasVisibleTileLayer
  /\ t \in VisibleSet(view)

InMemory(t) == Lru!ContainsKey(loaded, t)

(* A visible tile is loaded in the end, if it stays visible.               *)
VisibleTileLoads ==
  \A t \in Tiles : Wanted(t) ~> (InMemory(t) \/ ~Wanted(t))

(* The same, as long as no pending request has been discarded. A discarded *)
(* request also takes away one of the slots the others need.               *)
VisibleTileLoadsUnlessDiscarded ==
  \A t \in Tiles :
    Wanted(t) ~> (InMemory(t) \/ ~Wanted(t) \/ pendingLoads \cap superseded # {})

(* Dropping the renderer never blocks the UI thread for ever.              *)
DropEnds == owner = "closing" ~> owner = "dropped"
===========================================================================
