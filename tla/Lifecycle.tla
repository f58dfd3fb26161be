------------------------------ MODULE Lifecycle ------------------------------
(***************************************************************************)
(* Start-up and shutdown of the node under the GUI: QmlInitExecutor        *)
(* (qml/initexecutor.cpp) runs the node's blocking calls on two serial     *)
(* executors, QmlShutdownCoordinator (qml/shutdowncoordinator.{h,cpp})     *)
(* drains the participants in two phases around the interruption of the    *)
(* node, NodeModel (qml/models/nodemodel.cpp) turns user and node requests *)
(* into one shutdown request, and run() in qml/bitcoin.cpp wires them.     *)
(*                                                                         *)
(* The two executors are used through what SerialExecutor promises, which  *)
(* BackendExecutor implements: tasks in order, completions in order, none  *)
(* after stop, drained when all tasks ran.  The node is external.          *)
(***************************************************************************)
EXTENDS Integers, Sequences, FiniteSets

CONSTANTS Before,    \* participants drained before the node is interrupted
          After,     \* participants drained after it
          NodeModel  \* the participant among After that is the NodeModel

ASSUME ParticipantsAssumption ==
  /\ IsFiniteSet(Before) /\ IsFiniteSet(After)
  /\ Before \cap After = {}
  /\ NodeModel \in After

Participants == Before \cup After

\* m_init_and_shutdown_executor and m_interrupt_executor
Executors == {"init", "interrupt"}

VARIABLES
  coordinator,  \* QmlShutdownCoordinator: requested, pending, the phase flags
  completed,    \* participants whose completed flag is set
  participant,  \* what each participant is doing
  nodeModel,    \* NodeModel: requests, fatal error, readiness, polling
  executor,     \* QmlInitExecutor: its request flags
  worker,       \* QmlInitExecutor::WorkerState
  queue,        \* tasks accepted by each executor and not started
  running,      \* the step of the task that each executor is running
  results,      \* completions not yet delivered to the GUI thread
  phase,        \* each executor as SerialExecutor sees it
  node,         \* external: the node behind interfaces::Node
  exit          \* how far the application is in leaving run()

vars == <<coordinator, completed, participant, nodeModel, executor, worker,
          queue, running, results, phase, node, exit>>

guiVars == <<coordinator, completed, participant, nodeModel, executor>>
taskVars == <<queue, running, results, phase>>

Init ==
  /\ coordinator = [requested |-> FALSE, pending |-> 0,
                    drainingBefore |-> FALSE, drainingAfter |-> FALSE]
  /\ completed = {}
  /\ participant = [p \in Participants |-> "working"]
  /\ nodeModel = [shutdown |-> FALSE, initialization |-> FALSE, fatal |-> FALSE,
                  ready |-> FALSE, polling |-> FALSE, poll |-> "none"]
  /\ executor = [initialize |-> FALSE, interrupt |-> FALSE, shutdown |-> FALSE,
                 runaway |-> FALSE, appShutdownComplete |-> FALSE, emitted |-> FALSE]
  /\ worker = [factory |-> TRUE, subscription |-> FALSE, stopping |-> FALSE, threw |-> FALSE]
  /\ queue = [x \in Executors |-> <<>>]
  /\ running = [x \in Executors |-> "idle"]
  /\ results = [x \in Executors |-> <<>>]
  /\ phase = [x \in Executors |-> "open"]
  /\ node = [app |-> "base", shutdownRequested |-> FALSE]
  /\ exit = "no"

----------------------------------------------------------------------------
(* QmlInitExecutor: requests, each of them an idempotent submit. *)

Accepts(x, task) ==
  queue' = [queue EXCEPT ![x] = IF phase[x] = "open" THEN Append(@, task) ELSE @]

\* QmlInitExecutor::initialize
Initialize ==
  IF executor.initialize \/ executor.shutdown \/ executor.runaway
  THEN UNCHANGED <<executor, queue>>
  ELSE /\ executor' = [executor EXCEPT !.initialize = TRUE]
       /\ Accepts("init", "initialize")

\* QmlInitExecutor::interrupt
Interrupt ==
  IF executor.interrupt \/ executor.runaway
  THEN UNCHANGED <<executor, worker, queue>>
  ELSE /\ executor' = [executor EXCEPT !.interrupt = TRUE]
       /\ worker' = [worker EXCEPT !.stopping = TRUE]
       /\ Accepts("interrupt", "interrupt")

\* QmlInitExecutor::shutdown
ShutdownNode ==
  IF executor.shutdown \/ executor.runaway
  THEN UNCHANGED <<executor, worker, queue>>
  ELSE /\ executor' = [executor EXCEPT !.shutdown = TRUE]
       /\ worker' = [worker EXCEPT !.stopping = TRUE]
       /\ Accepts("init", "shutdown")

----------------------------------------------------------------------------
(* QmlShutdownCoordinator *)

PhaseSizeOfAll(ps) == Cardinality(Participants)
\* m_pending_participants at the start of a phase
PhaseSize(ps) == Cardinality(ps)

\* begin() of every participant of a phase.  None of them finishes inside it:
\* each waits for a worker thread whose end is announced by a later event.
BeginAll(ps) ==
  participant' = [p \in Participants |->
                    IF p \in ps /\ participant[p] = "working" THEN "draining" ELSE participant[p]]

\* QmlShutdownCoordinator::requestShutdown
RequestCoordinated ==
  IF coordinator.requested
  THEN UNCHANGED <<coordinator, participant, executor, worker, queue>>
  ELSE IF Before = {}
  THEN /\ coordinator' = [coordinator EXCEPT !.requested = TRUE, !.pending = 0]
       /\ Interrupt
       /\ UNCHANGED participant
  ELSE /\ coordinator' = [coordinator EXCEPT !.requested = TRUE,
                            !.pending = PhaseSize(Before), !.drainingBefore = TRUE]
       /\ BeginAll(Before)
       /\ UNCHANGED <<executor, worker, queue>>

IgnoredOnlyOutsidePhase(p) ==
  ~(IF p \in Before THEN coordinator.drainingBefore ELSE coordinator.drainingAfter)

\* Was this finished signal counted already, or outside its phase?
Ignored(p) ==
  \/ p \in completed
  \/ ~(IF p \in Before THEN coordinator.drainingBefore ELSE coordinator.drainingAfter)

\* A participant announces that it is drained; it may say so more than once.
\* The slot of add() and participantFinished.
ParticipantFinished(p) ==
  /\ exit = "no"
  /\ participant[p] \in {"draining", "drained"}
  /\ participant' = [participant EXCEPT ![p] = "drained"]
  /\ \/ /\ Ignored(p)
        /\ UNCHANGED <<coordinator, completed, executor, worker, queue>>
     \/ /\ ~Ignored(p)
        /\ completed' = completed \cup {p}
        /\ \/ /\ coordinator.pending # 1
              /\ coordinator' = [coordinator EXCEPT !.pending = @ - 1]
              /\ UNCHANGED <<executor, worker, queue>>
           \/ /\ coordinator.pending = 1
              /\ p \in Before
              /\ coordinator' = [coordinator EXCEPT !.pending = 0, !.drainingBefore = FALSE]
              /\ Interrupt
           \/ /\ coordinator.pending = 1
              /\ p \in After
              /\ coordinator' = [coordinator EXCEPT !.pending = 0]
              /\ ShutdownNode
  /\ UNCHANGED <<nodeModel, running, results, phase, node, exit>>

DrainingStillReady == [nodeModel EXCEPT !.polling = FALSE]
\* NodeModel::beginShutdown ends the readiness of the node and the polling.
DrainingNodeModel == [nodeModel EXCEPT !.ready = FALSE, !.polling = FALSE]

\* QmlShutdownCoordinator::drainAfterInterrupt, on interruptResult.  NodeModel
\* is a participant, so the list is never empty.
DrainAfterInterrupt ==
  IF coordinator.drainingAfter
  THEN UNCHANGED <<coordinator, participant, nodeModel>>
  ELSE /\ coordinator' = [coordinator EXCEPT !.drainingAfter = TRUE, !.pending = PhaseSize(After)]
       /\ BeginAll(After)
       /\ nodeModel' = DrainingNodeModel

----------------------------------------------------------------------------
(* NodeModel and the wiring of run() *)

\* NodeModel::requestShutdown, with the coordinator it is connected to; after
\* a fatal error the process leaves with std::_Exit instead.  nm is the node
\* model as the caller leaves it.
RequestShutdown(nm) ==
  IF nm.fatal
  THEN /\ exit' = "fatal"
       /\ nodeModel' = nm
       /\ UNCHANGED <<coordinator, participant, executor, worker, queue>>
  ELSE IF nm.shutdown
  THEN /\ nodeModel' = nm
       /\ UNCHANGED <<coordinator, participant, executor, worker, queue, exit>>
  ELSE /\ nodeModel' = [nm EXCEPT !.shutdown = TRUE, !.polling = FALSE]
       /\ RequestCoordinated
       /\ UNCHANGED exit

\* QML asks for the node to be initialized: startNodeInitializionThread
RequestInitialize ==
  /\ exit = "no"
  /\ ~nodeModel.initialization
  /\ nodeModel' = [nodeModel EXCEPT !.initialization = TRUE]
  /\ Initialize
  /\ UNCHANGED <<coordinator, completed, participant, worker, running, results, phase, node, exit>>

\* The last window is closed, a quit event arrives, or the user dismisses the
\* page of a fatal error.
UserQuits ==
  /\ exit = "no"
  /\ RequestShutdown(nodeModel)
  /\ UNCHANGED <<completed, running, results, phase, node>>

\* startShutdownPolling, once the main window is shown
StartShutdownPolling ==
  /\ exit = "no"
  /\ ~nodeModel.polling /\ ~nodeModel.fatal /\ ~nodeModel.shutdown
  /\ nodeModel' = [nodeModel EXCEPT !.polling = TRUE]
  /\ UNCHANGED <<coordinator, completed, participant, executor, worker, taskVars, node, exit>>

\* timerEvent of the polling timer
PollTimer ==
  /\ exit = "no"
  /\ nodeModel.polling /\ nodeModel.poll = "none" /\ participant[NodeModel] = "working"
  /\ nodeModel' = [nodeModel EXCEPT !.poll = "asked"]
  /\ UNCHANGED <<coordinator, completed, participant, executor, worker, taskVars, node, exit>>

\* The worker thread reads shutdownRequested() and posts what it saw.
PollAnswered ==
  /\ exit = "no"
  /\ nodeModel.poll = "asked"
  /\ nodeModel' = [nodeModel EXCEPT !.poll = IF node.shutdownRequested THEN "requested" ELSE "quiet"]
  /\ UNCHANGED <<coordinator, completed, participant, executor, worker, taskVars, node, exit>>

PollNeverDone == nodeModel
\* m_shutdown_poll_pending is reset before anything else.
PollDone == [nodeModel EXCEPT !.poll = "none"]

PollHandledDespiteFatal ==
  /\ exit = "no"
  /\ nodeModel.poll \in {"requested", "quiet"}
  /\ LET nm == PollDone
     IN IF nodeModel.poll = "requested"
        THEN RequestShutdown(nm)
        ELSE /\ nodeModel' = nm
             /\ UNCHANGED <<coordinator, participant, executor, worker, queue, exit>>
  /\ UNCHANGED <<completed, running, results, phase, node>>

\* The answer is handled; one that was in flight when a fatal error was
\* reported acknowledges nothing.
PollHandled ==
  /\ exit = "no"
  /\ nodeModel.poll \in {"requested", "quiet"}
  /\ LET nm == PollDone
     IN IF nodeModel.poll = "requested" /\ ~nodeModel.fatal
        THEN RequestShutdown(nm)
        ELSE /\ nodeModel' = nm
             /\ UNCHANGED <<coordinator, participant, executor, worker, queue, exit>>
  /\ UNCHANGED <<completed, running, results, phase, node>>

----------------------------------------------------------------------------
(* Worker threads: the tasks of QmlInitExecutor and the node they call. *)

StartTask(x, task) ==
  /\ running[x] = "idle" /\ queue[x] # <<>> /\ Head(queue[x]) = task
  /\ queue' = [queue EXCEPT ![x] = Tail(@)]

\* The task ends with a result, which is posted while the executor is open.
EndTask(x, result) ==
  /\ running' = [running EXCEPT ![x] = "idle"]
  /\ results' = [results EXCEPT ![x] = IF phase[x] = "open" THEN Append(@, result) ELSE @]

StartInitialize ==
  /\ exit = "no"
  /\ StartTask("init", "initialize")
  /\ running' = [running EXCEPT !["init"] = "appInitMain"]
  /\ node' = [node EXCEPT !.app = "initializing"]
  /\ UNCHANGED <<guiVars, worker, results, phase, exit>>

AppInitMainReturns ==
  /\ exit = "no"
  /\ running["init"] = "appInitMain"
  /\ running' = [running EXCEPT !["init"] = "checkSubscribe"]
  /\ \E app \in {"up", "failed"} : node' = [node EXCEPT !.app = app]
  /\ UNCHANGED <<guiVars, worker, queue, results, phase, exit>>

\* appInitMain, or the subscription after it, throws
InitializeThrows ==
  /\ exit = "no"
  /\ running["init"] \in {"appInitMain", "subscribe"}
  /\ worker' = [worker EXCEPT !.threw = TRUE]
  /\ node' = [node EXCEPT !.app = "failed"]
  /\ EndTask("init", [task |-> "initialize", outcome |-> "threw", stop |-> FALSE])
  /\ UNCHANGED <<guiVars, queue, phase, exit>>

\* The conditions are read one moment before the subscription is made: both
\* stopping and shutdownRequested() may change in between.
CheckSubscribe ==
  /\ exit = "no"
  /\ running["init"] = "checkSubscribe"
  /\ IF node.app = "up" /\ worker.factory /\ ~worker.stopping /\ ~node.shutdownRequested
     THEN /\ worker' = [worker EXCEPT !.factory = FALSE]
          /\ running' = [running EXCEPT !["init"] = "subscribe"]
     ELSE /\ running' = [running EXCEPT !["init"] = "report"]
          /\ UNCHANGED worker
  /\ UNCHANGED <<guiVars, queue, results, phase, node, exit>>

Subscribe ==
  /\ exit = "no"
  /\ running["init"] = "subscribe"
  /\ running' = [running EXCEPT !["init"] = "report"]
  /\ worker' = [worker EXCEPT !.subscription = TRUE]
  /\ UNCHANGED <<guiVars, queue, results, phase, node, exit>>

ReportInitialize ==
  /\ exit = "no"
  /\ running["init"] = "report"
  /\ EndTask("init", [task |-> "initialize",
                      outcome |-> IF node.app = "up" THEN "success" ELSE "failure",
                      stop |-> node.shutdownRequested])
  /\ UNCHANGED <<guiVars, worker, queue, phase, node, exit>>

\* node->startShutdown(), which may throw after it set the flag
RunInterrupt ==
  /\ exit = "no"
  /\ StartTask("interrupt", "interrupt")
  /\ node' = [node EXCEPT !.shutdownRequested = TRUE]
  /\ \E outcome \in {"success", "threw"} :
       EndTask("interrupt", [task |-> "interrupt", outcome |-> outcome, stop |-> FALSE])
  /\ UNCHANGED <<guiVars, worker, phase, exit>>

RetireNothing == worker
\* WorkerState::retireSubscription
RetireSubscription == [worker EXCEPT !.subscription = FALSE, !.factory = FALSE]

AlwaysCleansUp == TRUE
\* initialization_threw is looked at when the shutdown task starts.
MayCleanUp == ~worker.threw

\* The shutdown task never cleans up after an initialization that threw.
StartShutdown ==
  /\ exit = "no"
  /\ StartTask("init", "shutdown")
  /\ IF ~MayCleanUp
     THEN /\ EndTask("init", [task |-> "shutdown", outcome |-> "failure", stop |-> FALSE])
          /\ UNCHANGED <<worker, node>>
     ELSE /\ worker' = RetireSubscription
          /\ node' = [node EXCEPT !.app = "stopping"]
          /\ running' = [running EXCEPT !["init"] = "appShutdown"]
          /\ UNCHANGED results
  /\ UNCHANGED <<guiVars, phase, exit>>

AppShutdownReturns ==
  /\ exit = "no"
  /\ running["init"] = "appShutdown"
  /\ \/ /\ node' = [node EXCEPT !.app = "stopped"]
        /\ EndTask("init", [task |-> "shutdown", outcome |-> "success", stop |-> FALSE])
     \/ /\ node' = [node EXCEPT !.app = "broken"]
        /\ EndTask("init", [task |-> "shutdown", outcome |-> "threw", stop |-> FALSE])
  /\ UNCHANGED <<guiVars, worker, queue, phase, exit>>

\* external: a signal or the stop RPC sets the node's shutdown flag
NodeStops ==
  /\ exit = "no"
  /\ ~node.shutdownRequested
  /\ node' = [node EXCEPT !.shutdownRequested = TRUE]
  /\ UNCHANGED <<guiVars, worker, taskVars, exit>>

----------------------------------------------------------------------------
(* Completions on the GUI thread. *)

NextResult(x, task) ==
  /\ exit = "no"
  /\ phase[x] = "open"
  /\ results[x] # <<>> /\ Head(results[x]).task = task
  /\ results' = [results EXCEPT ![x] = Tail(@)]

\* handleRunawayException of QmlInitExecutor and, through runawayException,
\* of NodeModel
HandleRunaway(x, task) ==
  /\ NextResult(x, task)
  /\ Head(results[x]).outcome = "threw"
  /\ executor' = [executor EXCEPT !.runaway = TRUE]
  /\ nodeModel' = [nodeModel EXCEPT !.fatal = TRUE, !.shutdown = TRUE, !.polling = FALSE]
  /\ UNCHANGED <<coordinator, completed, participant, worker, queue, running, phase, node, exit>>

\* Whether a result of initialize still means anything to NodeModel.
AcceptsResult ==
  ~executor.runaway /\ participant[NodeModel] = "working" /\ ~nodeModel.fatal

\* NodeModel::initializeResult.  When initialization failed because a dialog
\* was shown and dismissed, the model asks for shutdown on its own.
InitializeResult(result, dialogShown) ==
  IF ~AcceptsResult
  THEN UNCHANGED <<coordinator, participant, nodeModel, executor, worker, queue, exit>>
  ELSE IF \/ result.outcome = "success" /\ (nodeModel.shutdown \/ result.stop)
          \/ result.outcome = "failure" /\ (dialogShown \/ result.stop)
  THEN RequestShutdown(nodeModel)
  ELSE /\ nodeModel' = [nodeModel EXCEPT !.ready = result.outcome = "success"]
       /\ UNCHANGED <<coordinator, participant, executor, worker, queue, exit>>

HandleInitializeResult ==
  /\ NextResult("init", "initialize")
  /\ Head(results["init"]).outcome # "threw"
  /\ \E dialogShown \in BOOLEAN : InitializeResult(Head(results["init"]), dialogShown)
  /\ UNCHANGED <<completed, running, phase, node>>

HandleInterruptResult ==
  /\ NextResult("interrupt", "interrupt")
  /\ Head(results["interrupt"]).outcome # "threw"
  /\ IF executor.runaway
     THEN UNCHANGED <<coordinator, participant, nodeModel>>
     ELSE DrainAfterInterrupt
  /\ UNCHANGED <<completed, executor, worker, queue, running, phase, node, exit>>

HandleShutdownResult ==
  /\ NextResult("init", "shutdown")
  /\ Head(results["init"]).outcome # "threw"
  /\ IF Head(results["init"]).outcome = "failure"
     THEN UNCHANGED <<executor, phase>>
     ELSE /\ executor' = [executor EXCEPT !.appShutdownComplete = TRUE]
          /\ phase' = [x \in Executors |-> "stopping"]
  /\ UNCHANGED <<coordinator, completed, participant, nodeModel, worker, queue, running, node, exit>>

OtherNotAsked(x) == ~executor.runaway /\ executor.appShutdownComplete
\* The condition of finishShutdown when x has just drained.
ShutdownDone(x) ==
  /\ ~executor.runaway /\ executor.appShutdownComplete
  /\ \A y \in Executors \ {x} : phase[y] = "drained"

\* An executor is drained; finishShutdown emits shutdownResult once both are.
ExecutorDrained(x) ==
  /\ exit = "no"
  /\ phase[x] = "stopping" /\ queue[x] = <<>> /\ running[x] = "idle"
  /\ phase' = [phase EXCEPT ![x] = "drained"]
  /\ executor' = [executor EXCEPT !.emitted = @ \/ ShutdownDone(x)]
  /\ UNCHANGED <<coordinator, completed, participant, nodeModel, worker, queue, running,
                 results, node, exit>>

\* shutdownAll calls back: finished is emitted and run() leaves its event loop.
Finished ==
  /\ exit = "no"
  /\ executor.emitted
  /\ exit' = "clean"
  /\ UNCHANGED <<guiVars, worker, taskVars, node>>

----------------------------------------------------------------------------

Runaway ==
  \/ HandleRunaway("init", "initialize") \/ HandleRunaway("init", "shutdown")
  \/ HandleRunaway("interrupt", "interrupt")

GuiStep ==
  \/ PollHandled
  \/ HandleInitializeResult \/ HandleInterruptResult \/ HandleShutdownResult
  \/ Runaway \/ Finished

InitWorkerStep ==
  \/ StartInitialize \/ AppInitMainReturns \/ InitializeThrows
  \/ CheckSubscribe \/ Subscribe \/ ReportInitialize
  \/ StartShutdown \/ AppShutdownReturns

Next ==
  \/ RequestInitialize \/ UserQuits \/ StartShutdownPolling \/ PollTimer
  \/ PollAnswered \/ NodeStops
  \/ GuiStep \/ InitWorkerStep \/ RunInterrupt
  \/ \E p \in Participants : ParticipantFinished(p)
  \/ \E x \in Executors : ExecutorDrained(x)

\* The event loop and the worker threads keep running, appInitMain and
\* appShutdown return, and participants that were told to drain do so.
Fairness ==
  /\ WF_vars(HandleInitializeResult) /\ WF_vars(HandleInterruptResult)
  /\ WF_vars(HandleShutdownResult) /\ WF_vars(Runaway)
  /\ WF_vars(PollHandled) /\ WF_vars(Finished)
  /\ WF_vars(InitWorkerStep) /\ WF_vars(RunInterrupt)
  /\ WF_vars(PollTimer) /\ WF_vars(PollAnswered)
  /\ \A p \in Participants : WF_vars(ParticipantFinished(p))
  /\ \A x \in Executors : WF_vars(ExecutorDrained(x))

Spec == Init /\ [][Next]_vars
FairSpec == Spec /\ Fairness

----------------------------------------------------------------------------
(* Properties *)

\* Every variable stays in the set of values the code can give it.
TypeOK ==
  /\ coordinator \in [requested : BOOLEAN, pending : Nat,
                      drainingBefore : BOOLEAN, drainingAfter : BOOLEAN]
  /\ completed \subseteq Participants
  /\ participant \in [Participants -> {"working", "draining", "drained"}]
  /\ nodeModel \in [shutdown : BOOLEAN, initialization : BOOLEAN, fatal : BOOLEAN,
                    ready : BOOLEAN, polling : BOOLEAN,
                    poll : {"none", "asked", "requested", "quiet"}]
  /\ executor \in [initialize : BOOLEAN, interrupt : BOOLEAN, shutdown : BOOLEAN,
                   runaway : BOOLEAN, appShutdownComplete : BOOLEAN, emitted : BOOLEAN]
  /\ worker \in [factory : BOOLEAN, subscription : BOOLEAN, stopping : BOOLEAN, threw : BOOLEAN]
  /\ queue \in [Executors -> Seq({"initialize", "shutdown", "interrupt"})]
  /\ running \in [Executors -> {"idle", "appInitMain", "checkSubscribe", "subscribe",
                                "report", "appShutdown"}]
  /\ results \in [Executors -> Seq([task : {"initialize", "shutdown", "interrupt"},
                                    outcome : {"success", "failure", "threw"},
                                    stop : BOOLEAN])]
  /\ phase \in [Executors -> {"open", "stopping", "drained"}]
  /\ node \in [app : {"base", "initializing", "up", "failed", "stopping", "stopped", "broken"},
               shutdownRequested : BOOLEAN]
  /\ exit \in {"no", "clean", "fatal"}

\* The node is taken down only when it was interrupted, every participant has
\* drained its calls into it, and the block clock's subscription is gone.
AppShutdownOnlyWhenQuiescent ==
  node.app \in {"stopping", "stopped"} =>
    /\ node.shutdownRequested
    /\ \A p \in Participants : participant[p] = "drained"
    /\ ~worker.subscription

\* A node whose initialization threw is never cleaned up, even when shutdown
\* was queued behind the initialization before the GUI heard of the exception.
NeverCleansUpFailedNode ==
  worker.threw => node.app \notin {"stopping", "stopped", "broken"}

\* The GUI believes the node ready only while it is up: a late result of
\* initialize cannot make it ready again once shutdown takes the node down.
ReadyOnlyWhileUp == nodeModel.ready => node.app = "up"

\* run() leaves its event loop normally only when the node was shut down, both
\* executors drained and nothing went fatally wrong.
CleanExitAfterAppShutdown ==
  exit = "clean" =>
    /\ node.app = "stopped" /\ ~nodeModel.fatal
    /\ \A x \in Executors : phase[x] = "drained"

\* The node's life as the GUI arranges it is safe: it is taken down once, when
\* nobody uses it, never after it threw, and the process leaves only after that.
LifecycleIsSafe ==
  /\ TypeOK
  /\ AppShutdownOnlyWhenQuiescent
  /\ NeverCleansUpFailedNode
  /\ ReadyOnlyWhileUp
  /\ CleanExitAfterAppShutdown

\* After a fatal error the process ends when the user dismisses it, never by
\* the late answer of a poll or of the node (requestShutdown, timerEvent).
FatalErrorWaitsForUser == [][exit = "no" /\ exit' = "fatal" => UserQuits]_vars

\* A requested shutdown ends: the application leaves, or an exception of the
\* node is shown to the user.
ShutdownCompletes == coordinator.requested ~> (exit = "clean" \/ nodeModel.fatal)

\* The process ends in an orderly way: every requested shutdown comes to an
\* end, and a fatal error is left on the screen until the user dismisses it.
ExitIsOrderly == FatalErrorWaitsForUser /\ ShutdownCompletes

\* While the model polls, a stop of the node from outside leads to shutdown.
NodeStopNoticed == (node.shutdownRequested /\ nodeModel.polling) ~> nodeModel.shutdown

============================================================================
