--------------------------- MODULE StartupProofs ---------------------------
(***************************************************************************)
(* The safety of start-up and shutdown for any set of participants, and of *)
(* the start-up's dialogs and its wizard for any threads, calls and        *)
(* directories.                                                            *)
(*                                                                         *)
(* LifecycleIsSafe is not inductive: that the node is taken down quietly   *)
(* rests on the order in which the coordinator drained its two phases, on  *)
(* the tasks each executor can still hold, and on what a result that is    *)
(* still queued says about a node that has moved on.  SafetyInv states     *)
(* these.                                                                  *)
(*                                                                         *)
(* DialogsAreKept rests on what the queue of calls holds: each call once,  *)
(* only calls that were made, and one result of the initialization.        *)
(* FinishedSelectionIsChecked rests on what the requests on their way say: *)
(* one that carries the newest id is about the directory that is selected. *)
(***************************************************************************)
EXTENDS MCStartup, FiniteSetTheorems, SequenceTheorems, TLAPS

(***************************************************************************)
(* Start-up and shutdown                                                   *)
(***************************************************************************)
Result == [task : {"initialize", "shutdown", "interrupt"},
           outcome : {"success", "failure", "threw"}, stop : BOOLEAN]

\* The steps of the initialize task, and the node from appShutdown on.
InitSteps == {"appInitMain", "checkSubscribe", "subscribe", "report"}
Down == {"stopping", "stopped", "broken"}

\* The initialize task has run: it is neither queued nor running.
InitializeEnded ==
  /\ executor.initialize
  /\ queue["init"] \in {<<>>, <<"shutdown">>}
  /\ running["init"] \notin InitSteps

\* Each task is queued at most once, initialize before shutdown, and the state
\* of the node tells which of them has run.
TaskInv ==
  /\ queue["init"] \in {<<>>, <<"initialize">>, <<"shutdown">>, <<"initialize", "shutdown">>}
  /\ queue["init"] \in {<<"initialize">>, <<"initialize", "shutdown">>} =>
       executor.initialize /\ node.app = "base" /\ running["init"] = "idle"
  /\ queue["init"] \in {<<"shutdown">>, <<"initialize", "shutdown">>} => executor.shutdown
  /\ ~executor.initialize /\ ~executor.shutdown => node.app = "base"
  /\ running["init"] \in InitSteps =>
       /\ executor.initialize
       /\ queue["init"] \in {<<>>, <<"shutdown">>}
       /\ node.app \in {"initializing", "up", "failed"}
  /\ node.app \in Down =>
       /\ executor.shutdown
       /\ queue["init"] = <<>>
       /\ running["init"] = IF node.app = "stopping" THEN "appShutdown" ELSE "idle"
  /\ running["init"] = "appShutdown" => node.app = "stopping"

\* An exception of initialize leaves a failed node, and the subscription is
\* gone from appShutdown on.
WorkerInv ==
  /\ worker.threw => InitializeEnded /\ node.app = "failed"
  /\ node.app \in Down => ~worker.subscription

\* What a result on its way to the GUI thread still says about the node.
InitResultInv(r) ==
  /\ r.task = "initialize" =>
       InitializeEnded /\ (r.outcome = "success" => node.app \in {"up"} \cup Down)
  /\ r.task = "shutdown" /\ r.outcome = "success" => node.app = "stopped"

InitResults == {results["init"][i] : i \in 1..Len(results["init"])}

ResultInv ==
  /\ \A r \in InitResults : InitResultInv(r)
  /\ results["interrupt"] # <<>> => node.shutdownRequested /\ executor.interrupt
  /\ executor.appShutdownComplete => node.app = "stopped"
  /\ executor.emitted =>
       /\ executor.appShutdownComplete /\ ~executor.runaway
       /\ \A x \in Executors : phase[x] = "drained"
  /\ nodeModel.fatal => executor.runaway
  /\ exit = "clean" => executor.emitted

\* The two phases follow one another around the interruption of the node, and
\* the coordinator counts the participants of the phase that are not drained.
CoordinatorInv ==
  /\ ~coordinator.requested => completed = {}
  /\ ~coordinator.drainingAfter => completed \cap After = {}
  /\ coordinator.drainingBefore =>
       /\ coordinator.requested /\ ~executor.interrupt
       /\ coordinator.pending = Cardinality(Before \ completed)
  /\ coordinator.drainingAfter =>
       /\ executor.interrupt /\ node.shutdownRequested
       /\ coordinator.pending = Cardinality(After \ completed)
  /\ executor.interrupt => coordinator.requested /\ Before \subseteq completed
  /\ executor.shutdown => coordinator.drainingAfter /\ Participants \subseteq completed
  /\ queue["interrupt"] # <<>> => executor.interrupt
  /\ \A p \in completed : participant[p] = "drained"

\* The GUI calls the node ready only before NodeModel drains.
ReadyInv ==
  nodeModel.ready =>
    participant[NodeModel] = "working" /\ InitializeEnded /\ node.app = "up"

SafetyInv == TaskInv /\ WorkerInv /\ ResultInv /\ CoordinatorInv /\ ReadyInv

----------------------------------------------------------------------------
(* Types.  The requests are steps of several actions, so each has a lemma. *)

Task == {"initialize", "shutdown", "interrupt"}
CoordinatorType == [requested : BOOLEAN, pending : Nat,
                    drainingBefore : BOOLEAN, drainingAfter : BOOLEAN]
ParticipantType == [Participants -> {"working", "draining", "drained"}]
NodeModelType == [shutdown : BOOLEAN, initialization : BOOLEAN, fatal : BOOLEAN,
                  ready : BOOLEAN, polling : BOOLEAN,
                  poll : {"none", "asked", "requested", "quiet"}]
ExecutorType == [initialize : BOOLEAN, interrupt : BOOLEAN, shutdown : BOOLEAN,
                 runaway : BOOLEAN, appShutdownComplete : BOOLEAN, emitted : BOOLEAN]
WorkerType == [factory : BOOLEAN, subscription : BOOLEAN, stopping : BOOLEAN, threw : BOOLEAN]

\* What the requests of the GUI thread change.
RequestType ==
  /\ coordinator \in CoordinatorType
  /\ participant \in ParticipantType
  /\ executor \in ExecutorType
  /\ worker \in WorkerType
  /\ queue \in [Executors -> Seq(Task)]

\* Executors accept a task at the end of their queue, or not at all.
LEMMA AcceptsType ==
  ASSUME queue \in [Executors -> Seq(Task)], NEW x \in Executors, NEW task \in Task,
         Accepts(x, task)
  PROVE  queue' \in [Executors -> Seq(Task)]
<1>1. Append(queue[x], task) \in Seq(Task)
  OBVIOUS
<1> QED
  BY <1>1 DEF Accepts

LEMMA InterruptType ==
  ASSUME RequestType, Interrupt
  PROVE  executor' \in ExecutorType /\ worker' \in WorkerType /\ queue' \in [Executors -> Seq(Task)]
<1>1. CASE executor.interrupt \/ executor.runaway
  BY <1>1 DEF Interrupt, RequestType
<1>2. CASE ~(executor.interrupt \/ executor.runaway)
  <2>1. queue' \in [Executors -> Seq(Task)]
    BY <1>2, AcceptsType DEF Interrupt, RequestType, Executors, Task
  <2> QED
    BY <1>2, <2>1 DEF Interrupt, RequestType, ExecutorType, WorkerType
<1> QED
  BY <1>1, <1>2

LEMMA ShutdownNodeType ==
  ASSUME RequestType, ShutdownNode
  PROVE  executor' \in ExecutorType /\ worker' \in WorkerType /\ queue' \in [Executors -> Seq(Task)]
<1>1. CASE executor.shutdown \/ executor.runaway
  BY <1>1 DEF ShutdownNode, RequestType
<1>2. CASE ~(executor.shutdown \/ executor.runaway)
  <2>1. queue' \in [Executors -> Seq(Task)]
    BY <1>2, AcceptsType DEF ShutdownNode, RequestType, Executors, Task
  <2> QED
    BY <1>2, <2>1 DEF ShutdownNode, RequestType, ExecutorType, WorkerType
<1> QED
  BY <1>1, <1>2

\* The number of participants of a phase.
LEMMA PhaseSizeType == PhaseSize(Before) \in Nat /\ PhaseSize(After) \in Nat
  BY ParticipantsAssumption, FS_CardinalityType DEF PhaseSize

LEMMA RequestCoordinatedType ==
  ASSUME RequestType, RequestCoordinated
  PROVE  RequestType'
<1>1. CASE coordinator.requested
  BY <1>1 DEF RequestCoordinated, RequestType
<1>2. CASE ~coordinator.requested /\ Before = {}
  <2>2. /\ coordinator' = [coordinator EXCEPT !.requested = TRUE, !.pending = 0]
        /\ participant' = participant /\ Interrupt
    BY <1>2 DEF RequestCoordinated
  <2>1. coordinator' \in CoordinatorType
    BY <2>2 DEF RequestType, CoordinatorType
  <2> QED
    BY <2>1, <2>2, InterruptType DEF RequestType
<1>3. CASE ~coordinator.requested /\ Before # {}
  <2>1. coordinator' \in CoordinatorType
    BY <1>3, PhaseSizeType DEF RequestCoordinated, RequestType, CoordinatorType
  <2>2. participant' \in ParticipantType
    BY <1>3 DEF RequestCoordinated, RequestType, ParticipantType, BeginAll
  <2> QED
    BY <1>3, <2>1, <2>2 DEF RequestCoordinated, RequestType
<1> QED
  BY <1>1, <1>2, <1>3

LEMMA RequestShutdownType ==
  ASSUME RequestType, NEW nm \in NodeModelType, exit \in {"no", "clean", "fatal"},
         RequestShutdown(nm)
  PROVE  RequestType' /\ nodeModel' \in NodeModelType /\ exit' \in {"no", "clean", "fatal"}
<1>1. CASE nm.fatal
  BY <1>1 DEF RequestShutdown, RequestType
<1>2. CASE ~nm.fatal /\ nm.shutdown
  BY <1>2 DEF RequestShutdown, RequestType
<1>3. CASE ~nm.fatal /\ ~nm.shutdown
  BY <1>3, RequestCoordinatedType DEF RequestShutdown, NodeModelType
<1> QED
  BY <1>1, <1>2, <1>3

\* What the tasks and the node change.
LifecycleTaskType ==
  /\ running \in [Executors -> {"idle", "appInitMain", "checkSubscribe", "subscribe",
                                "report", "appShutdown"}]
  /\ results \in [Executors -> Seq(Result)]
  /\ phase \in [Executors -> {"open", "stopping", "drained"}]
  /\ node \in [app : {"base", "initializing", "up", "failed", "stopping", "stopped", "broken"},
               shutdownRequested : BOOLEAN]

\* The type invariant by the parts the lemmas use.
Types ==
  /\ RequestType /\ LifecycleTaskType
  /\ nodeModel \in NodeModelType
  /\ completed \subseteq Participants
  /\ exit \in {"no", "clean", "fatal"}

LEMMA TypeParts == TypeOK <=> Types
  BY DEF TypeOK, Types, LifecycleTaskType, RequestType, CoordinatorType, ParticipantType, NodeModelType,
         ExecutorType, WorkerType, Task, Result

LEMMA TypePartsPrime == TypeOK' <=> Types'
  BY DEF TypeOK, Types, LifecycleTaskType, RequestType, CoordinatorType, ParticipantType, NodeModelType,
         ExecutorType, WorkerType, Task, Result

LEMMA StartTaskType ==
  ASSUME queue \in [Executors -> Seq(Task)], NEW x \in Executors, NEW task, StartTask(x, task)
  PROVE  queue' \in [Executors -> Seq(Task)]
<1>1. Tail(queue[x]) \in Seq(Task)
  BY DEF StartTask
<1> QED
  BY <1>1 DEF StartTask

LEMMA EndTaskType ==
  ASSUME LifecycleTaskType, NEW x \in Executors, NEW r \in Result, EndTask(x, r),
         node' \in [app : {"base", "initializing", "up", "failed", "stopping", "stopped", "broken"},
                   shutdownRequested : BOOLEAN],
         phase' = phase
  PROVE  LifecycleTaskType'
<1>1. Append(results[x], r) \in Seq(Result)
  BY DEF LifecycleTaskType
<1>2. results' \in [Executors -> Seq(Result)]
  BY <1>1 DEF EndTask, LifecycleTaskType
<1> QED
  BY <1>2 DEF EndTask, LifecycleTaskType

LEMMA NextResultType ==
  ASSUME results \in [Executors -> Seq(Result)], NEW x \in Executors, NEW task, NextResult(x, task)
  PROVE  results' \in [Executors -> Seq(Result)] /\ Head(results[x]) \in Result
<1>1. Tail(results[x]) \in Seq(Result) /\ Head(results[x]) \in Result
  BY DEF NextResult
<1> QED
  BY <1>1 DEF NextResult

LEMMA InitType == Init => TypeOK
<1> SUFFICES ASSUME Init PROVE TypeOK
  OBVIOUS
<1>1. \A S : <<>> \in Seq(S)
  OBVIOUS
<1> QED
  BY <1>1 DEF Init, TypeOK

\* One participant less to wait for.
LEMMA CountDown ==
  ASSUME NEW S, IsFiniteSet(S), NEW C, NEW p \in S \ C
  PROVE  /\ Cardinality(S \ C) \in Nat /\ Cardinality(S \ C) >= 1
         /\ Cardinality(S \ (C \cup {p})) = Cardinality(S \ C) - 1
         /\ Cardinality(S \ C) = 1 => S \subseteq C \cup {p}
<1> DEFINE D == S \ C
<1>1. IsFiniteSet(D) /\ D \ {p} = S \ (C \cup {p})
  BY FS_Subset
<1>2. IsFiniteSet(D \ {p}) /\ Cardinality(D \ {p}) = Cardinality(D) - 1
  BY <1>1, FS_RemoveElement
<1>3. Cardinality(D) \in Nat /\ Cardinality(D \ {p}) \in Nat
  BY <1>1, <1>2, FS_CardinalityType
<1>4. Cardinality(D) = 1 => D \ {p} = {}
  BY <1>2, <1>3, FS_EmptySet
<1>5. Cardinality(D) >= 1
  BY <1>2, <1>3
<1>6. Cardinality(S \ (C \cup {p})) = Cardinality(D) - 1
  BY <1>1, <1>2, Zenon
<1>7. Cardinality(D) = 1 => S \subseteq C \cup {p}
  BY <1>4, Zenon
<1> QED
  BY <1>3, <1>5, <1>6, <1>7

\* A finished signal that counts belongs to the phase whose participants are
\* being counted.
LEMMA NotIgnored ==
  ASSUME CoordinatorInv, NEW p \in Participants, ~Ignored(p)
  PROVE  /\ coordinator.pending \in Nat /\ coordinator.pending >= 1
         /\ p \in Before => /\ coordinator.drainingBefore /\ p \in Before \ completed
                            /\ coordinator.pending = 1 => Before \subseteq completed \cup {p}
                            /\ coordinator.pending - 1 = Cardinality(Before \ (completed \cup {p}))
         /\ p \in After => /\ coordinator.drainingAfter /\ p \in After \ completed
                           /\ coordinator.pending = 1 => After \subseteq completed \cup {p}
                           /\ coordinator.pending - 1 = Cardinality(After \ (completed \cup {p}))
<1>1. CASE p \in Before
  <2>1. coordinator.drainingBefore /\ p \in Before \ completed /\ p \notin After
    BY <1>1, ParticipantsAssumption DEF Ignored
  <2>2. coordinator.pending = Cardinality(Before \ completed)
    BY <2>1 DEF CoordinatorInv
  <2>3. /\ Cardinality(Before \ completed) \in Nat /\ Cardinality(Before \ completed) >= 1
        /\ Cardinality(Before \ (completed \cup {p})) = Cardinality(Before \ completed) - 1
        /\ Cardinality(Before \ completed) = 1 => Before \subseteq completed \cup {p}
    BY <2>1, CountDown, ParticipantsAssumption, Zenon
  <2> QED
    BY <2>1, <2>2, <2>3, Zenon
<1>2. CASE p \in After
  <2>1. coordinator.drainingAfter /\ p \in After \ completed /\ p \notin Before
    BY <1>2, ParticipantsAssumption DEF Ignored
  <2>2. coordinator.pending = Cardinality(After \ completed)
    BY <2>1 DEF CoordinatorInv
  <2>3. /\ Cardinality(After \ completed) \in Nat /\ Cardinality(After \ completed) >= 1
        /\ Cardinality(After \ (completed \cup {p})) = Cardinality(After \ completed) - 1
        /\ Cardinality(After \ completed) = 1 => After \subseteq completed \cup {p}
    BY <2>1, CountDown, ParticipantsAssumption, Zenon
  <2> QED
    BY <2>1, <2>2, <2>3, Zenon
<1> QED
  BY <1>1, <1>2 DEF Participants

\* Each action keeps the types.  That the count of pending participants does
\* not fall below zero needs the invariant of the coordinator.
LEMMA NextType == Types /\ CoordinatorInv /\ [Next]_vars => Types'
<1> SUFFICES ASSUME Types, CoordinatorInv, [Next]_vars PROVE Types'
  OBVIOUS
<1> USE DEF Types, LifecycleTaskType, RequestType
<1>1. CASE UNCHANGED vars
  BY <1>1 DEF vars, RequestType, LifecycleTaskType
<1>2. CASE RequestInitialize
  <2>1. executor' \in ExecutorType /\ queue' \in [Executors -> Seq(Task)]
    <3>1. CASE UNCHANGED <<executor, queue>>
      BY <3>1 DEF RequestType
    <3>2. CASE executor' = [executor EXCEPT !.initialize = TRUE] /\ Accepts("init", "initialize")
      BY <3>2, AcceptsType DEF RequestType, ExecutorType, Executors, Task
    <3> QED
      BY <1>2, <3>1, <3>2 DEF RequestInitialize, Initialize
  <2>2. nodeModel' \in NodeModelType
    BY <1>2 DEF RequestInitialize, NodeModelType
  <2> QED
    BY <1>2, <2>1, <2>2 DEF RequestInitialize, RequestType
<1>3. CASE UserQuits
  <2>1. RequestType' /\ nodeModel' \in NodeModelType /\ exit' \in {"no", "clean", "fatal"}
    BY <1>3, RequestShutdownType DEF UserQuits
  <2> QED
    BY <1>3, <2>1 DEF UserQuits
<1>4. CASE StartShutdownPolling \/ PollTimer \/ PollAnswered
  <2>1. nodeModel' \in NodeModelType
    BY <1>4 DEF StartShutdownPolling, PollTimer, PollAnswered, NodeModelType
  <2> QED
    BY <1>4, <2>1 DEF StartShutdownPolling, PollTimer, PollAnswered, taskVars, RequestType
<1>5. CASE NodeStops
  BY <1>5 DEF NodeStops, guiVars, taskVars, RequestType
<1>6. CASE PollHandled
  <2>1. PollDone \in NodeModelType
    BY DEF PollDone, NodeModelType
  <2>2. RequestType' /\ nodeModel' \in NodeModelType /\ exit' \in {"no", "clean", "fatal"}
    <3>1. CASE RequestShutdown(PollDone)
      BY <2>1, <3>1, RequestShutdownType
    <3>2. CASE nodeModel' = PollDone /\ UNCHANGED <<coordinator, participant, executor, worker, queue, exit>>
      BY <2>1, <3>2 DEF RequestType
    <3> QED
      BY <1>6, <3>1, <3>2 DEF PollHandled
  <2> QED
    BY <1>6, <2>2 DEF PollHandled
<1>7. CASE HandleInitializeResult
  <2>1. results' \in [Executors -> Seq(Result)] /\ Head(results["init"]) \in Result
    BY <1>7, NextResultType DEF HandleInitializeResult, Executors
  <2>2. PICK dialogShown \in BOOLEAN : InitializeResult(Head(results["init"]), dialogShown)
    BY <1>7 DEF HandleInitializeResult
  <2>3. RequestType' /\ nodeModel' \in NodeModelType /\ exit' \in {"no", "clean", "fatal"}
    <3>1. CASE RequestShutdown(nodeModel)
      BY <3>1, RequestShutdownType
    <3>2. CASE UNCHANGED <<coordinator, participant, nodeModel, executor, worker, queue, exit>>
      BY <3>2 DEF RequestType
    <3>3. CASE /\ nodeModel' = [nodeModel EXCEPT !.ready = Head(results["init"]).outcome = "success"]
               /\ UNCHANGED <<coordinator, participant, executor, worker, queue, exit>>
      BY <3>3 DEF RequestType, NodeModelType
    <3> QED
      BY <2>2, <3>1, <3>2, <3>3 DEF InitializeResult
  <2> QED
    BY <1>7, <2>1, <2>3 DEF HandleInitializeResult
<1>8. CASE HandleInterruptResult
  <2>1. results' \in [Executors -> Seq(Result)]
    BY <1>8, NextResultType DEF HandleInterruptResult, Executors
  <2>2. /\ coordinator' \in CoordinatorType /\ participant' \in ParticipantType
        /\ nodeModel' \in NodeModelType
    <3>1. CASE UNCHANGED <<coordinator, participant, nodeModel>>
      BY <3>1 DEF RequestType
    <3>2. CASE DrainAfterInterrupt /\ ~coordinator.drainingAfter
      <4>1. coordinator' \in CoordinatorType
        BY <3>2, PhaseSizeType DEF DrainAfterInterrupt, RequestType, CoordinatorType
      <4>2. participant' \in ParticipantType
        BY <3>2 DEF DrainAfterInterrupt, BeginAll, RequestType, ParticipantType
      <4>3. nodeModel' \in NodeModelType
        BY <3>2 DEF DrainAfterInterrupt, DrainingNodeModel, NodeModelType
      <4> QED
        BY <4>1, <4>2, <4>3
    <3> QED
      BY <1>8, <3>1, <3>2 DEF HandleInterruptResult, DrainAfterInterrupt
  <2> QED
    BY <1>8, <2>1, <2>2 DEF HandleInterruptResult, RequestType
<1>9. CASE HandleShutdownResult
  <2>1. results' \in [Executors -> Seq(Result)]
    BY <1>9, NextResultType DEF HandleShutdownResult, Executors
  <2>2. executor' \in ExecutorType /\ phase' \in [Executors -> {"open", "stopping", "drained"}]
    BY <1>9 DEF HandleShutdownResult, ExecutorType, RequestType
  <2> QED
    BY <1>9, <2>1, <2>2 DEF HandleShutdownResult, RequestType
<1>10. ASSUME NEW x \in Executors, NEW task \in Task, HandleRunaway(x, task) PROVE Types'
  <2>1. results' \in [Executors -> Seq(Result)]
    BY <1>10, NextResultType DEF HandleRunaway
  <2>2. executor' \in ExecutorType /\ nodeModel' \in NodeModelType
    BY <1>10 DEF HandleRunaway, ExecutorType, NodeModelType, RequestType
  <2> QED
    BY <1>10, <2>1, <2>2 DEF HandleRunaway, RequestType
<1>11. CASE Finished
  BY <1>11 DEF Finished, guiVars, taskVars, RequestType
<1>12. CASE StartInitialize
  <2>1. queue' \in [Executors -> Seq(Task)]
    BY <1>12, StartTaskType DEF StartInitialize, RequestType, Executors
  <2> QED
    BY <1>12, <2>1 DEF StartInitialize, guiVars, RequestType
<1>13. CASE AppInitMainReturns
  BY <1>13 DEF AppInitMainReturns, guiVars, RequestType
<1>14. CASE InitializeThrows
  <2> DEFINE r == [task |-> "initialize", outcome |-> "threw", stop |-> FALSE]
  <2>1. r \in Result
    BY DEF Result
  <2> HIDE DEF r
  <2>2. EndTask("init", r)
    BY <1>14 DEF InitializeThrows, r
  <2> QED
    BY <1>14, <2>1, <2>2, EndTaskType DEF InitializeThrows, guiVars, RequestType, WorkerType, Executors
<1>15. CASE CheckSubscribe
  BY <1>15 DEF CheckSubscribe, guiVars, RequestType, WorkerType
<1>16. CASE Subscribe
  BY <1>16 DEF Subscribe, guiVars, RequestType, WorkerType
<1>17. CASE ReportInitialize
  <2> DEFINE r == [task |-> "initialize", outcome |-> IF node.app = "up" THEN "success" ELSE "failure",
                   stop |-> node.shutdownRequested]
  <2>1. r \in Result
    BY DEF Result
  <2> HIDE DEF r
  <2>2. EndTask("init", r)
    BY <1>17 DEF ReportInitialize, r
  <2> QED
    BY <1>17, <2>1, <2>2, EndTaskType DEF ReportInitialize, guiVars, RequestType, Executors
<1>18. CASE RunInterrupt
  <2>1. PICK outcome \in {"success", "threw"} :
          EndTask("interrupt", [task |-> "interrupt", outcome |-> outcome, stop |-> FALSE])
    BY <1>18 DEF RunInterrupt
  <2> DEFINE r == [task |-> "interrupt", outcome |-> outcome, stop |-> FALSE]
  <2>2. r \in Result
    BY DEF Result
  <2> HIDE DEF r
  <2>3. EndTask("interrupt", r)
    BY <2>1 DEF r
  <2>4. queue' \in [Executors -> Seq(Task)]
    BY <1>18, StartTaskType DEF RunInterrupt, RequestType, Executors
  <2> QED
    BY <1>18, <2>2, <2>3, <2>4, EndTaskType DEF RunInterrupt, guiVars, RequestType, Executors
<1>19. CASE StartShutdown
  <2>1. queue' \in [Executors -> Seq(Task)]
    BY <1>19, StartTaskType DEF StartShutdown, RequestType, Executors
  <2> DEFINE r == [task |-> "shutdown", outcome |-> "failure", stop |-> FALSE]
  <2>2. r \in Result
    BY DEF Result
  <2> HIDE DEF r
  <2>3. CASE ~MayCleanUp
    <3>1. EndTask("init", r) /\ UNCHANGED <<worker, node>>
      BY <1>19, <2>3 DEF StartShutdown, r
    <3> QED
      BY <1>19, <2>1, <2>2, <3>1, EndTaskType DEF StartShutdown, guiVars, RequestType, Executors
  <2>4. CASE MayCleanUp
    <3>1. /\ worker' = RetireSubscription
          /\ node' = [node EXCEPT !.app = "stopping"]
          /\ running' = [running EXCEPT !["init"] = "appShutdown"]
          /\ UNCHANGED <<results, guiVars, phase, exit>>
      BY <1>19, <2>4 DEF StartShutdown
    <3> QED
      BY <2>1, <3>1 DEF guiVars, RetireSubscription, WorkerType
  <2> QED
    BY <2>3, <2>4
<1>20. CASE AppShutdownReturns
  <2>1. PICK outcome \in {"success", "threw"} :
          EndTask("init", [task |-> "shutdown", outcome |-> outcome, stop |-> FALSE])
    BY <1>20 DEF AppShutdownReturns
  <2> DEFINE r == [task |-> "shutdown", outcome |-> outcome, stop |-> FALSE]
  <2>2. r \in Result
    BY DEF Result
  <2> HIDE DEF r
  <2>3. EndTask("init", r)
    BY <2>1 DEF r
  <2>4. node' \in [app : {"base", "initializing", "up", "failed", "stopping", "stopped", "broken"},
                   shutdownRequested : BOOLEAN]
    BY <1>20 DEF AppShutdownReturns
  <2> QED
    BY <1>20, <2>2, <2>3, <2>4, EndTaskType DEF AppShutdownReturns, guiVars, RequestType, Executors
<1>21. ASSUME NEW p \in Participants, ParticipantFinished(p) PROVE Types'
  <2>1. participant' \in ParticipantType /\ completed' \subseteq Participants
    BY <1>21 DEF ParticipantFinished, ParticipantType, RequestType
  <2>2. RequestType'
    <3>1. CASE UNCHANGED <<coordinator, completed, executor, worker, queue>>
      BY <2>1, <3>1 DEF RequestType
    <3>2. CASE /\ ~Ignored(p)
               /\ coordinator' = [coordinator EXCEPT !.pending = @ - 1]
               /\ UNCHANGED <<executor, worker, queue>>
      <4>1. coordinator.pending \in Nat /\ coordinator.pending >= 1
        BY <1>21, <3>2, NotIgnored, Zenon
      <4>2. coordinator.pending - 1 \in Nat
        BY <4>1
      <4>3. coordinator' \in CoordinatorType
        BY <3>2, <4>2 DEF CoordinatorType
      <4> QED
        BY <2>1, <3>2, <4>3
    <3>3. CASE Interrupt /\ coordinator' = [coordinator EXCEPT !.pending = 0, !.drainingBefore = FALSE]
      BY <2>1, <3>3, InterruptType DEF RequestType, CoordinatorType
    <3>4. CASE ShutdownNode /\ coordinator' = [coordinator EXCEPT !.pending = 0]
      BY <2>1, <3>4, ShutdownNodeType DEF RequestType, CoordinatorType
    <3> QED
      BY <1>21, <3>1, <3>2, <3>3, <3>4 DEF ParticipantFinished
  <2> QED
    BY <1>21, <2>1, <2>2 DEF ParticipantFinished
<1>22. ASSUME NEW x \in Executors, ExecutorDrained(x) PROVE Types'
  <2>1. executor' \in ExecutorType
    BY <1>22 DEF ExecutorDrained, ExecutorType, RequestType, ShutdownDone
  <2> QED
    BY <1>22, <2>1 DEF ExecutorDrained, RequestType
<1> QED
  BY <1>1, <1>2, <1>3, <1>4, <1>5, <1>6, <1>7, <1>8, <1>9, <1>10, <1>11, <1>12, <1>13, <1>14,
     <1>15, <1>16, <1>17, <1>18, <1>19, <1>20, <1>21, <1>22
  DEF Next, GuiStep, InitWorkerStep, Runaway, Executors, Task

----------------------------------------------------------------------------
(* Each part of the invariant survives steps that leave its state alone. *)

\* The queues that the init executor can have.
LEMMA QueueShapes ==
  /\ Append(<<>>, "initialize") = <<"initialize">>
  /\ Append(<<>>, "shutdown") = <<"shutdown">>
  /\ Append(<<"initialize">>, "shutdown") = <<"initialize", "shutdown">>
  /\ Tail(<<"initialize">>) = <<>> /\ Tail(<<"shutdown">>) = <<>>
  /\ Tail(<<"initialize", "shutdown">>) = <<"shutdown">>
  /\ Head(<<"initialize">>) = "initialize" /\ Head(<<"shutdown">>) = "shutdown"
  /\ Head(<<"initialize", "shutdown">>) = "initialize"
<1>1. Append(<<>>, "initialize") = <<"initialize">> /\ Append(<<>>, "shutdown") = <<"shutdown">>
  OBVIOUS
<1>2. Append(<<"initialize">>, "shutdown") = <<"initialize", "shutdown">>
  <2> DEFINE s == Append(<<"initialize">>, "shutdown")
             t == <<"initialize", "shutdown">>
  <2>1. s \in Seq({"initialize", "shutdown"}) /\ t \in Seq({"initialize", "shutdown"})
    OBVIOUS
  <2>2. Len(s) = 2 /\ Len(t) = 2 /\ s[1] = t[1] /\ s[2] = t[2]
    OBVIOUS
  <2> HIDE DEF s, t
  <2>3. \A i \in 1..Len(s) : s[i] = t[i]
    BY <2>2
  <2> QED
    BY <2>1, <2>2, <2>3, SeqEqual DEF s, t
<1>3. Tail(<<"initialize">>) = <<>> /\ Tail(<<"shutdown">>) = <<>>
  OBVIOUS
<1>4. Tail(<<"initialize", "shutdown">>) = <<"shutdown">>
  OBVIOUS
<1>5. /\ Head(<<"initialize">>) = "initialize" /\ Head(<<"shutdown">>) = "shutdown"
      /\ Head(<<"initialize", "shutdown">>) = "initialize"
  OBVIOUS
<1> QED
  BY <1>1, <1>2, <1>3, <1>4, <1>5

LEMMA ShapesDiffer ==
  /\ <<"initialize">> # <<>> /\ <<"shutdown">> # <<>> /\ <<"initialize", "shutdown">> # <<>>
  /\ <<"initialize">> # <<"shutdown">> /\ <<"initialize">> # <<"initialize", "shutdown">>
  /\ <<"shutdown">> # <<"initialize", "shutdown">>
  OBVIOUS

\* The init executor and the node move neither forward nor back.
SameTasks ==
  /\ queue'["init"] = queue["init"] /\ running'["init"] = running["init"]
  /\ executor'.initialize = executor.initialize /\ executor'.shutdown = executor.shutdown
  /\ node'.app = node.app

\* Results are delivered from the front, and nothing else happens to them.
ResultsKept ==
  \A x \in Executors :
    \/ results'[x] = results[x]
    \/ results[x] # <<>> /\ results'[x] = Tail(results[x])

LEMMA TaskFrame ==
  ASSUME TaskInv, SameTasks
  PROVE  TaskInv' /\ (InitializeEnded' <=> InitializeEnded)
  BY DEF TaskInv, SameTasks, InitializeEnded

LEMMA WorkerFrame ==
  ASSUME TaskInv, WorkerInv, SameTasks, worker'.threw = worker.threw,
         worker'.subscription = worker.subscription
  PROVE  WorkerInv'
  BY TaskFrame DEF WorkerInv, SameTasks

LEMMA ReadyFrame ==
  ASSUME TaskInv, ReadyInv, SameTasks, nodeModel'.ready => nodeModel.ready,
         participant'[NodeModel] = participant[NodeModel]
  PROVE  ReadyInv'
  BY TaskFrame DEF ReadyInv, SameTasks

\* What a queued result says stays true.
LEMMA KeptResults ==
  ASSUME Types, ResultInv, ResultsKept,
         \A r \in Result : InitResultInv(r) => InitResultInv(r)'
  PROVE  /\ \A r \in InitResults' : InitResultInv(r)'
         /\ results'["interrupt"] # <<>> => results["interrupt"] # <<>>
<1>1. results["init"] \in Seq(Result)
  BY DEF Types, LifecycleTaskType, Executors
<1>2. InitResults' \subseteq InitResults
  <2>1. CASE results'["init"] = results["init"]
    BY <2>1 DEF InitResults
  <2>2. CASE results["init"] # <<>> /\ results'["init"] = Tail(results["init"])
    <3>1. ASSUME NEW i \in 1..Len(Tail(results["init"]))
          PROVE  i + 1 \in 1..Len(results["init"]) /\ Tail(results["init"])[i] = results["init"][i + 1]
      BY <1>1, <2>2, <3>1
    <3> QED
      BY <2>2, <3>1 DEF InitResults
  <2> QED
    BY <2>1, <2>2 DEF ResultsKept, Executors
<1>3. InitResults \subseteq Result
  BY <1>1 DEF InitResults
<1> QED
  BY <1>2, <1>3 DEF ResultsKept, ResultInv, Executors

\* The GUI and the executors agree on how far they are.
SameEnd ==
  /\ executor'.appShutdownComplete = executor.appShutdownComplete
  /\ executor'.emitted = executor.emitted /\ executor'.runaway = executor.runaway
  /\ phase' = phase /\ nodeModel'.fatal = nodeModel.fatal
  /\ exit' \in {exit, "fatal"}

LEMMA ResultFrame ==
  ASSUME Types, TaskInv, ResultInv, SameTasks, SameEnd, ResultsKept,
         executor.interrupt => executor'.interrupt,
         node.shutdownRequested => node'.shutdownRequested
  PROVE  ResultInv'
<1>1. \A r \in Result : InitResultInv(r) => InitResultInv(r)'
  BY TaskFrame DEF InitResultInv, SameTasks
<1>2. /\ \A r \in InitResults' : InitResultInv(r)'
      /\ results'["interrupt"] # <<>> => results["interrupt"] # <<>>
  BY <1>1, KeptResults
<1>3. \A x \in Executors : phase'[x] = phase[x]
  BY DEF SameEnd
<1>4. exit \in {"no", "clean", "fatal"}
  BY DEF Types
<1>5. executor'.appShutdownComplete => node'.app = "stopped"
  BY DEF ResultInv, SameEnd, SameTasks
<1> QED
  BY <1>2, <1>3, <1>4, <1>5 DEF ResultInv, SameEnd

\* Interrupting the node is asked of the other executor.
LEMMA InterruptEffect ==
  ASSUME Types, Interrupt
  PROVE  /\ queue'["init"] = queue["init"]
         /\ executor'.initialize = executor.initialize /\ executor'.shutdown = executor.shutdown
         /\ executor'.appShutdownComplete = executor.appShutdownComplete
         /\ executor'.emitted = executor.emitted /\ executor'.runaway = executor.runaway
         /\ executor.interrupt => executor'.interrupt
         /\ executor'.interrupt \/ (queue' = queue /\ executor' = executor)
         /\ worker'.threw = worker.threw /\ worker'.subscription = worker.subscription
<1>1. CASE UNCHANGED <<executor, worker, queue>>
  BY <1>1
<1>2. CASE /\ executor' = [executor EXCEPT !.interrupt = TRUE]
           /\ worker' = [worker EXCEPT !.stopping = TRUE]
           /\ Accepts("interrupt", "interrupt")
  <2>1. queue'["init"] = queue["init"]
    BY <1>2 DEF Accepts, Types, RequestType, Executors
  <2> QED
    BY <1>2, <2>1 DEF Types, RequestType, ExecutorType, WorkerType
<1> QED
  BY <1>1, <1>2 DEF Interrupt

\* The state of the coordinator after its first request.
LEMMA RequestCoordinatedInv ==
  ASSUME Types, CoordinatorInv, RequestCoordinated, completed' = completed,
         node'.shutdownRequested = node.shutdownRequested
  PROVE  /\ CoordinatorInv'
         /\ participant'[NodeModel] = participant[NodeModel]
         /\ Interrupt \/ UNCHANGED <<executor, worker, queue>>
<1> USE DEF Types, RequestType
<1>1. CASE coordinator.requested
  <2>1. UNCHANGED <<coordinator, participant, executor, worker, queue>>
    BY <1>1 DEF RequestCoordinated
  <2> QED
    BY <2>1 DEF CoordinatorInv
<1>2. CASE ~coordinator.requested /\ Before = {}
  <2>1. /\ coordinator' = [coordinator EXCEPT !.requested = TRUE, !.pending = 0]
        /\ participant' = participant /\ Interrupt
    BY <1>2 DEF RequestCoordinated
  <2>2. /\ coordinator'.requested /\ coordinator'.drainingBefore = coordinator.drainingBefore
        /\ coordinator'.drainingAfter = coordinator.drainingAfter
    BY <2>1 DEF CoordinatorType
  <2>3. ~coordinator.drainingBefore /\ ~coordinator.drainingAfter /\ completed = {}
    BY <1>2 DEF CoordinatorInv
  <2>4. ~executor'.shutdown
    BY <2>1, <2>3, InterruptEffect DEF CoordinatorInv
  <2>5. queue'["interrupt"] # <<>> => executor'.interrupt
    BY <2>1, InterruptEffect DEF CoordinatorInv
  <2> QED
    BY <1>2, <2>1, <2>2, <2>3, <2>4, <2>5 DEF CoordinatorInv
<1>3. CASE ~coordinator.requested /\ Before # {}
  <2>1. /\ coordinator' = [coordinator EXCEPT !.requested = TRUE,
                             !.pending = PhaseSize(Before), !.drainingBefore = TRUE]
        /\ BeginAll(Before) /\ UNCHANGED <<executor, worker, queue>>
    BY <1>3 DEF RequestCoordinated
  <2>2. /\ coordinator'.requested /\ coordinator'.drainingBefore
        /\ coordinator'.pending = PhaseSize(Before)
        /\ coordinator'.drainingAfter = coordinator.drainingAfter
    BY <2>1 DEF CoordinatorType
  <2>3. ~coordinator.drainingAfter /\ completed = {} /\ ~executor.interrupt /\ ~executor.shutdown
    BY <1>3 DEF CoordinatorInv
  <2>4. coordinator'.pending = Cardinality(Before \ completed')
    BY <2>2, <2>3 DEF PhaseSize
  <2>5. participant'[NodeModel] = participant[NodeModel]
    BY <2>1, ParticipantsAssumption DEF BeginAll, Participants, ParticipantType
  <2> QED
    BY <2>1, <2>2, <2>3, <2>4, <2>5 DEF CoordinatorInv
<1> QED
  BY <1>1, <1>2, <1>3

\* A request for shutdown, from wherever it comes, and whatever result led to it.
LEMMA RequestShutdownInv ==
  ASSUME Types, SafetyInv, NEW nm \in NodeModelType, RequestShutdown(nm),
         nm.fatal = nodeModel.fatal, nm.ready = nodeModel.ready,
         UNCHANGED <<completed, running, phase, node>>, ResultsKept
  PROVE  SafetyInv'
<1> USE DEF SafetyInv
<1>1. /\ CoordinatorInv' /\ participant'[NodeModel] = participant[NodeModel]
      /\ Interrupt \/ UNCHANGED <<executor, worker, queue>>
  <2>1. CASE RequestCoordinated
    BY <2>1, RequestCoordinatedInv
  <2>2. CASE UNCHANGED <<coordinator, participant, executor, worker, queue>>
    BY <2>2 DEF CoordinatorInv
  <2> QED
    BY <2>1, <2>2 DEF RequestShutdown
<1>2. /\ nodeModel'.ready = nodeModel.ready /\ nodeModel'.fatal = nodeModel.fatal
      /\ exit' \in {exit, "fatal"}
  BY DEF RequestShutdown, NodeModelType
<1>3. /\ SameTasks /\ SameEnd
      /\ executor.interrupt => executor'.interrupt
      /\ worker'.threw = worker.threw /\ worker'.subscription = worker.subscription
  <2>1. CASE Interrupt
    BY <1>2, <2>1, InterruptEffect DEF SameTasks, SameEnd
  <2>2. CASE UNCHANGED <<executor, worker, queue>>
    BY <1>2, <2>2 DEF SameTasks, SameEnd
  <2> QED
    BY <1>1, <2>1, <2>2
<1>4. TaskInv' /\ WorkerInv'
  BY <1>3, TaskFrame, WorkerFrame
<1>5. ReadyInv'
  BY <1>1, <1>2, <1>3, ReadyFrame
<1>6. ResultInv'
  BY <1>3, ResultFrame
<1> QED
  BY <1>1, <1>4, <1>5, <1>6

----------------------------------------------------------------------------
(* The actions of the GUI thread keep the invariant. *)

\* Nothing but the flags of NodeModel that the invariant does not mention.
LEMMA NodeModelOnly ==
  ASSUME Types, SafetyInv,
         UNCHANGED <<coordinator, completed, participant, executor, worker, queue, running,
                     results, phase, exit>>,
         nodeModel'.ready = nodeModel.ready, nodeModel'.fatal = nodeModel.fatal,
         node'.app = node.app, node.shutdownRequested => node'.shutdownRequested
  PROVE  SafetyInv'
<1> USE DEF SafetyInv
<1>1. SameTasks /\ SameEnd /\ ResultsKept
  BY DEF SameTasks, SameEnd, ResultsKept
<1>2. TaskInv' /\ WorkerInv' /\ ReadyInv' /\ ResultInv'
  BY <1>1, TaskFrame, WorkerFrame, ReadyFrame, ResultFrame
<1>3. CoordinatorInv'
  BY DEF CoordinatorInv
<1> QED
  BY <1>2, <1>3

LEMMA PollingInv ==
  ASSUME Types, SafetyInv, StartShutdownPolling \/ PollTimer \/ PollAnswered \/ NodeStops
  PROVE  SafetyInv'
<1>1. CASE NodeStops
  <2>1. node'.app = node.app /\ node'.shutdownRequested
    BY <1>1 DEF NodeStops, Types, LifecycleTaskType
  <2> QED
    BY <1>1, <2>1, NodeModelOnly DEF NodeStops, guiVars, taskVars
<1>2. CASE StartShutdownPolling \/ PollTimer \/ PollAnswered
  <2>1. nodeModel'.ready = nodeModel.ready /\ nodeModel'.fatal = nodeModel.fatal
    BY <1>2 DEF StartShutdownPolling, PollTimer, PollAnswered, Types, NodeModelType
  <2> QED
    BY <1>2, <2>1, NodeModelOnly DEF StartShutdownPolling, PollTimer, PollAnswered, taskVars
<1> QED
  BY <1>1, <1>2

LEMMA RequestInitializeInv ==
  ASSUME Types, SafetyInv, RequestInitialize
  PROVE  SafetyInv'
<1> USE DEF SafetyInv
<1>1. nodeModel'.ready = nodeModel.ready /\ nodeModel'.fatal = nodeModel.fatal
  BY DEF RequestInitialize, Types, NodeModelType
<1>2. CASE UNCHANGED <<executor, queue>>
  BY <1>1, <1>2, NodeModelOnly DEF RequestInitialize
<1>3. CASE /\ ~executor.initialize /\ ~executor.shutdown
           /\ executor' = [executor EXCEPT !.initialize = TRUE]
           /\ Accepts("init", "initialize")
  <2>1. /\ executor'.initialize /\ executor'.shutdown = executor.shutdown
        /\ executor'.interrupt = executor.interrupt /\ executor'.runaway = executor.runaway
        /\ executor'.emitted = executor.emitted
        /\ executor'.appShutdownComplete = executor.appShutdownComplete
    BY <1>3 DEF Types, RequestType, ExecutorType
  <2>2. /\ node.app = "base" /\ queue["init"] = <<>> /\ running["init"] \notin InitSteps
        /\ running["init"] # "appShutdown"
    BY <1>3 DEF TaskInv, Down
  <2>3. queue'["init"] \in {<<>>, <<"initialize">>} /\ queue'["interrupt"] = queue["interrupt"]
    BY <1>3, <2>2, QueueShapes DEF Accepts, Types, RequestType, Executors
  <2>4. running["init"] = "idle"
    BY <2>2 DEF Types, LifecycleTaskType, Executors, InitSteps
  <2>5. node' = node /\ running' = running /\ worker' = worker
    BY DEF RequestInitialize
  <2>6. TaskInv'
    BY <1>3, <2>1, <2>2, <2>3, <2>4, <2>5, ShapesDiffer DEF TaskInv, InitSteps, Down
  <2>7. ~InitializeEnded
    BY <1>3 DEF InitializeEnded
  <2>8. WorkerInv' /\ ReadyInv'
    BY <1>1, <2>2, <2>5, <2>7 DEF WorkerInv, ReadyInv, Down
  <2>9. ResultInv'
    <3>1. \A r \in InitResults' : InitResultInv(r)'
      BY <2>2, <2>5, <2>7 DEF RequestInitialize, ResultInv, InitResults, InitResultInv
    <3> QED
      BY <1>1, <2>1, <2>5, <3>1 DEF RequestInitialize, ResultInv
  <2>10. CoordinatorInv'
    BY <2>1, <2>3 DEF RequestInitialize, CoordinatorInv
  <2> QED
    BY <2>6, <2>8, <2>9, <2>10
<1> QED
  BY <1>2, <1>3 DEF RequestInitialize, Initialize

LEMMA UserQuitsInv ==
  ASSUME Types, SafetyInv, UserQuits
  PROVE  SafetyInv'
<1>1. ResultsKept
  BY DEF UserQuits, ResultsKept
<1> QED
  BY <1>1, RequestShutdownInv DEF UserQuits, Types

LEMMA PollHandledInv ==
  ASSUME Types, SafetyInv, PollHandled
  PROVE  SafetyInv'
<1>1. /\ PollDone \in NodeModelType
      /\ PollDone.ready = nodeModel.ready /\ PollDone.fatal = nodeModel.fatal
  BY DEF PollDone, Types, NodeModelType
<1>2. CASE RequestShutdown(PollDone)
  <2>1. ResultsKept
    BY DEF PollHandled, ResultsKept
  <2> QED
    BY <1>1, <1>2, <2>1, RequestShutdownInv DEF PollHandled
<1>3. CASE /\ nodeModel' = PollDone
           /\ UNCHANGED <<coordinator, participant, executor, worker, queue, exit>>
  BY <1>1, <1>3, NodeModelOnly DEF PollHandled
<1> QED
  BY <1>2, <1>3 DEF PollHandled

LEMMA FinishedInv ==
  ASSUME Types, SafetyInv, Finished
  PROVE  SafetyInv'
<1> USE DEF SafetyInv
<1>1. /\ UNCHANGED <<coordinator, completed, participant, nodeModel, executor, worker, queue,
                     running, results, phase, node>>
      /\ exit' = "clean" /\ executor.emitted
  BY DEF Finished, guiVars, taskVars
<1>2. TaskInv' /\ WorkerInv' /\ ReadyInv'
  BY <1>1, TaskFrame, WorkerFrame, ReadyFrame DEF SameTasks
<1>3. ResultInv'
  BY <1>1 DEF ResultInv, InitResults, InitResultInv, InitializeEnded
<1>4. CoordinatorInv'
  BY <1>1 DEF CoordinatorInv
<1> QED
  BY <1>2, <1>3, <1>4

\* A delivered result was the first of its queue, and is gone.
LEMMA DeliveredResult ==
  ASSUME Types, SafetyInv, NEW x \in Executors, NEW task, NextResult(x, task)
  PROVE  /\ ResultsKept /\ results[x] # <<>> /\ phase[x] = "open" /\ exit = "no"
         /\ x = "init" => Head(results["init"]) \in InitResults /\ InitResultInv(Head(results["init"]))
         /\ ~executor.emitted
<1>1. results[x] \in Seq(Result) /\ results[x] # <<>> /\ phase[x] = "open" /\ exit = "no"
  BY DEF Types, LifecycleTaskType, NextResult
<1>2. ResultsKept
  BY <1>1 DEF NextResult, ResultsKept, Types, LifecycleTaskType
<1>3. Len(results[x]) >= 1 /\ Head(results[x]) = results[x][1] /\ Len(results[x]) \in Nat
  BY <1>1
<1>4. x = "init" => Head(results["init"]) \in InitResults
  BY <1>3 DEF InitResults
<1>5. x = "init" => InitResultInv(Head(results["init"]))
  BY <1>4 DEF SafetyInv, ResultInv
<1>6. ~executor.emitted
  BY <1>1 DEF SafetyInv, ResultInv
<1> QED
  BY <1>1, <1>2, <1>4, <1>5, <1>6

LEMMA HandleRunawayInv ==
  ASSUME Types, SafetyInv, NEW x \in Executors, NEW task, HandleRunaway(x, task)
  PROVE  SafetyInv'
<1> USE DEF SafetyInv
<1>1. ResultsKept /\ exit = "no" /\ ~executor.emitted
  BY DeliveredResult DEF HandleRunaway
<1>2. /\ executor'.runaway /\ executor'.emitted = executor.emitted
      /\ executor'.initialize = executor.initialize /\ executor'.shutdown = executor.shutdown
      /\ executor'.interrupt = executor.interrupt
      /\ executor'.appShutdownComplete = executor.appShutdownComplete
  BY DEF HandleRunaway, Types, RequestType, ExecutorType
<1>3. nodeModel'.ready = nodeModel.ready
  BY DEF HandleRunaway, Types, NodeModelType
<1>4. UNCHANGED <<coordinator, completed, participant, worker, queue, running, phase, node, exit>>
  BY DEF HandleRunaway
<1>5. SameTasks
  BY <1>2, <1>4 DEF SameTasks
<1>6. TaskInv' /\ WorkerInv' /\ ReadyInv'
  BY <1>3, <1>4, <1>5, TaskFrame, WorkerFrame, ReadyFrame
<1>7. CoordinatorInv'
  BY <1>2, <1>4 DEF CoordinatorInv
<1>8. \A r \in Result : InitResultInv(r) => InitResultInv(r)'
  BY <1>4, <1>5, TaskFrame DEF InitResultInv
<1>9. ResultInv'
  BY <1>1, <1>2, <1>4, <1>8, KeptResults DEF ResultInv
<1> QED
  BY <1>6, <1>7, <1>9

\* The late result of initialize: it makes the node ready only before NodeModel
\* drains, so before the node can have been taken down.
LEMMA HandleInitializeResultInv ==
  ASSUME Types, SafetyInv, HandleInitializeResult
  PROVE  SafetyInv'
<1> USE DEF SafetyInv
<1> DEFINE r == Head(results["init"])
<1>1. ResultsKept /\ InitResultInv(r) /\ r.task = "initialize"
  BY DeliveredResult DEF HandleInitializeResult, Executors, NextResult
<1>2. PICK dialogShown \in BOOLEAN : InitializeResult(r, dialogShown)
  BY DEF HandleInitializeResult
<1>3. UNCHANGED <<completed, running, phase, node>>
  BY DEF HandleInitializeResult
<1> HIDE DEF r
<1>4. CASE RequestShutdown(nodeModel)
  BY <1>1, <1>3, <1>4, RequestShutdownInv DEF Types
<1>5. ASSUME nodeModel'.ready => nodeModel.ready \/ (AcceptsResult /\ r.outcome = "success"),
             nodeModel'.fatal = nodeModel.fatal,
             UNCHANGED <<coordinator, participant, executor, worker, queue, exit>>
      PROVE  SafetyInv'
  <2>1. SameTasks /\ SameEnd
    BY <1>3, <1>5 DEF SameTasks, SameEnd
  <2>2. TaskInv' /\ WorkerInv' /\ ResultInv'
    BY <1>1, <1>3, <1>5, <2>1, TaskFrame, WorkerFrame, ResultFrame
  <2>3. CoordinatorInv'
    BY <1>3, <1>5 DEF CoordinatorInv
  <2>4. ReadyInv'
    <3>1. CASE nodeModel'.ready => nodeModel.ready
      BY <1>5, <2>1, <3>1, ReadyFrame
    <3>2. CASE AcceptsResult /\ r.outcome = "success"
      <4>1. participant[NodeModel] = "working" /\ InitializeEnded /\ node.app \in {"up"} \cup Down
        BY <1>1, <3>2 DEF AcceptsResult, InitResultInv
      <4>2. NodeModel \in Participants
        BY ParticipantsAssumption DEF Participants
      <4>3. node.app \notin Down
        BY <4>1, <4>2 DEF TaskInv, CoordinatorInv
      <4> QED
        BY <1>3, <1>5, <2>1, <4>1, <4>3, TaskFrame DEF ReadyInv
    <3> QED
      BY <1>5, <3>1, <3>2
  <2> QED
    BY <2>2, <2>3, <2>4
<1>6. CASE UNCHANGED <<coordinator, participant, nodeModel, executor, worker, queue, exit>>
  BY <1>5, <1>6
<1>7. CASE /\ AcceptsResult
           /\ nodeModel' = [nodeModel EXCEPT !.ready = r.outcome = "success"]
           /\ UNCHANGED <<coordinator, participant, executor, worker, queue, exit>>
  <2>1. nodeModel'.ready = (r.outcome = "success") /\ nodeModel'.fatal = nodeModel.fatal
    BY <1>7 DEF Types, NodeModelType
  <2> QED
    BY <1>5, <1>7, <2>1
<1> QED
  BY <1>2, <1>4, <1>6, <1>7 DEF InitializeResult

LEMMA HandleInterruptResultInv ==
  ASSUME Types, SafetyInv, HandleInterruptResult
  PROVE  SafetyInv'
<1> USE DEF SafetyInv
<1>1. ResultsKept /\ results["interrupt"] # <<>>
  BY DeliveredResult DEF HandleInterruptResult, Executors
<1>2. UNCHANGED <<completed, executor, worker, queue, running, phase, node, exit>>
  BY DEF HandleInterruptResult
<1>3. SameTasks
  BY <1>2 DEF SameTasks
<1>4. CASE UNCHANGED <<coordinator, participant, nodeModel>>
  <2>1. SameEnd
    BY <1>2, <1>4 DEF SameEnd
  <2>2. TaskInv' /\ WorkerInv' /\ ReadyInv' /\ ResultInv'
    BY <1>1, <1>2, <1>3, <1>4, <2>1, TaskFrame, WorkerFrame, ReadyFrame, ResultFrame
  <2>3. CoordinatorInv'
    BY <1>2, <1>4 DEF CoordinatorInv
  <2> QED
    BY <2>2, <2>3
<1>5. CASE ~coordinator.drainingAfter /\ DrainAfterInterrupt
  <2>1. /\ coordinator' = [coordinator EXCEPT !.drainingAfter = TRUE, !.pending = PhaseSize(After)]
        /\ BeginAll(After) /\ nodeModel' = DrainingNodeModel
    BY <1>5 DEF DrainAfterInterrupt
  <2>2. ~nodeModel'.ready /\ nodeModel'.fatal = nodeModel.fatal
    BY <2>1 DEF DrainingNodeModel, Types, NodeModelType
  <2>3. SameEnd
    BY <1>2, <2>2 DEF SameEnd
  <2>4. TaskInv' /\ WorkerInv' /\ ReadyInv' /\ ResultInv'
    BY <1>1, <1>2, <1>3, <2>2, <2>3, TaskFrame, WorkerFrame, ResultFrame DEF ReadyInv
  <2>5. /\ coordinator'.drainingAfter /\ coordinator'.pending = PhaseSize(After)
        /\ coordinator'.requested = coordinator.requested
        /\ coordinator'.drainingBefore = coordinator.drainingBefore
    BY <2>1 DEF Types, RequestType, CoordinatorType
  <2>6. node.shutdownRequested /\ executor.interrupt /\ ~coordinator.drainingBefore
    BY <1>1 DEF ResultInv, CoordinatorInv
  <2>7. completed \cap After = {} /\ After \ completed = After
    BY <1>5 DEF CoordinatorInv
  <2>8. \A p \in completed : participant'[p] = "drained"
    BY <2>1 DEF CoordinatorInv, BeginAll, Types, RequestType, ParticipantType
  <2>9. coordinator'.pending = Cardinality(After \ completed')
    BY <1>2, <2>5, <2>7 DEF PhaseSize
  <2>10. CoordinatorInv'
    BY <1>2, <2>5, <2>6, <2>8, <2>9 DEF CoordinatorInv
  <2> QED
    BY <2>4, <2>10
<1> QED
  BY <1>4, <1>5 DEF HandleInterruptResult, DrainAfterInterrupt

LEMMA HandleShutdownResultInv ==
  ASSUME Types, SafetyInv, HandleShutdownResult
  PROVE  SafetyInv'
<1> USE DEF SafetyInv
<1> DEFINE r == Head(results["init"])
<1>1. /\ ResultsKept /\ exit = "no" /\ ~executor.emitted
      /\ InitResultInv(r) /\ r.task = "shutdown" /\ r \in Result
  BY DeliveredResult, NextResultType DEF HandleShutdownResult, Executors, NextResult, Types, LifecycleTaskType
<1>2. /\ UNCHANGED <<coordinator, completed, participant, nodeModel, worker, queue, running, node, exit>>
      /\ r.outcome # "threw"
  BY DEF HandleShutdownResult
<1>3. /\ executor'.initialize = executor.initialize /\ executor'.shutdown = executor.shutdown
      /\ executor'.interrupt = executor.interrupt /\ executor'.runaway = executor.runaway
      /\ executor'.emitted = executor.emitted
      /\ executor'.appShutdownComplete => executor.appShutdownComplete \/ r.outcome # "failure"
  BY DEF HandleShutdownResult, Types, RequestType, ExecutorType
<1> HIDE DEF r
<1>4. executor'.appShutdownComplete => node.app = "stopped"
  BY <1>1, <1>2, <1>3 DEF ResultInv, InitResultInv, Result
<1>5. SameTasks
  BY <1>2, <1>3 DEF SameTasks
<1>6. TaskInv' /\ WorkerInv' /\ ReadyInv'
  BY <1>2, <1>5, TaskFrame, WorkerFrame, ReadyFrame
<1>7. \A q \in Result : InitResultInv(q) => InitResultInv(q)'
  BY <1>2, <1>5, TaskFrame DEF InitResultInv
<1>8. ResultInv'
  BY <1>1, <1>2, <1>3, <1>4, <1>7, KeptResults DEF ResultInv
<1>9. CoordinatorInv'
  BY <1>2, <1>3 DEF CoordinatorInv
<1> QED
  BY <1>6, <1>8, <1>9

LEMMA ExecutorDrainedInv ==
  ASSUME Types, SafetyInv, NEW x \in Executors, ExecutorDrained(x)
  PROVE  SafetyInv'
<1> USE DEF SafetyInv
<1>1. /\ UNCHANGED <<coordinator, completed, participant, nodeModel, worker, queue, running,
                     results, node, exit>>
      /\ exit = "no"
  BY DEF ExecutorDrained
<1>2. /\ executor'.initialize = executor.initialize /\ executor'.shutdown = executor.shutdown
      /\ executor'.interrupt = executor.interrupt /\ executor'.runaway = executor.runaway
      /\ executor'.appShutdownComplete = executor.appShutdownComplete
      /\ executor'.emitted = (executor.emitted \/ ShutdownDone(x))
  BY DEF ExecutorDrained, Types, RequestType, ExecutorType
<1>3. /\ phase'[x] = "drained"
      /\ \A y \in Executors \ {x} : phase'[y] = phase[y]
  BY DEF ExecutorDrained, Types, LifecycleTaskType
<1>4. SameTasks /\ ResultsKept
  BY <1>1, <1>2 DEF SameTasks, ResultsKept
<1>5. TaskInv' /\ WorkerInv' /\ ReadyInv'
  BY <1>1, <1>4, TaskFrame, WorkerFrame, ReadyFrame
<1>6. \A q \in Result : InitResultInv(q) => InitResultInv(q)'
  BY <1>1, <1>4, TaskFrame DEF InitResultInv
<1>7. executor'.emitted =>
        /\ executor.appShutdownComplete /\ ~executor.runaway
        /\ \A y \in Executors : phase'[y] = "drained"
  BY <1>2, <1>3 DEF ResultInv, ShutdownDone
<1>8. ResultInv'
  BY <1>1, <1>2, <1>4, <1>6, <1>7, KeptResults DEF ResultInv
<1>9. CoordinatorInv'
  BY <1>1, <1>2 DEF CoordinatorInv
<1> QED
  BY <1>5, <1>8, <1>9

\* The last participant of the second phase asks for the node to be shut down.
LEMMA ShutdownNodeEffect ==
  ASSUME Types, SafetyInv, ShutdownNode, UNCHANGED <<running, node>>
  PROVE  /\ TaskInv'
         /\ (InitializeEnded' <=> InitializeEnded)
         /\ queue'["interrupt"] = queue["interrupt"]
         /\ executor'.initialize = executor.initialize /\ executor'.interrupt = executor.interrupt
         /\ executor'.runaway = executor.runaway /\ executor'.emitted = executor.emitted
         /\ executor'.appShutdownComplete = executor.appShutdownComplete
         /\ worker'.threw = worker.threw /\ worker'.subscription = worker.subscription
<1> USE DEF SafetyInv
<1>1. CASE UNCHANGED <<executor, worker, queue>>
  BY <1>1, TaskFrame DEF SameTasks
<1>2. CASE /\ ~executor.shutdown
           /\ executor' = [executor EXCEPT !.shutdown = TRUE]
           /\ worker' = [worker EXCEPT !.stopping = TRUE]
           /\ Accepts("init", "shutdown")
  <2>1. /\ executor'.shutdown /\ executor'.initialize = executor.initialize
        /\ executor'.interrupt = executor.interrupt /\ executor'.runaway = executor.runaway
        /\ executor'.emitted = executor.emitted
        /\ executor'.appShutdownComplete = executor.appShutdownComplete
    BY <1>2 DEF Types, RequestType, ExecutorType
  <2>2. worker'.threw = worker.threw /\ worker'.subscription = worker.subscription
    BY <1>2 DEF Types, RequestType, WorkerType
  <2>3. queue["init"] \in {<<>>, <<"initialize">>} /\ node.app \notin Down
    BY <1>2 DEF TaskInv
  <2>4. /\ queue'["init"] \in {queue["init"], Append(queue["init"], "shutdown")}
        /\ queue'["interrupt"] = queue["interrupt"]
    BY <1>2 DEF Accepts, Types, RequestType, Executors
  <2>5. \/ queue["init"] = <<>> /\ queue'["init"] \in {<<>>, <<"shutdown">>}
        \/ queue["init"] = <<"initialize">> /\ queue'["init"] \in {<<"initialize">>, <<"initialize", "shutdown">>}
    BY <2>3, <2>4, QueueShapes
  <2>6. InitializeEnded' <=> InitializeEnded
    BY <2>1, <2>5, ShapesDiffer DEF InitializeEnded
  <2>7. TaskInv'
    BY <2>1, <2>3, <2>5, ShapesDiffer DEF TaskInv
  <2> QED
    BY <2>1, <2>2, <2>4, <2>6, <2>7
<1> QED
  BY <1>1, <1>2 DEF ShutdownNode

LEMMA ParticipantFinishedInv ==
  ASSUME Types, SafetyInv, NEW p \in Participants, ParticipantFinished(p)
  PROVE  SafetyInv'
<1> USE DEF SafetyInv
<1>1. /\ UNCHANGED <<nodeModel, running, results, phase, node, exit>>
      /\ participant' = [participant EXCEPT ![p] = "drained"]
      /\ participant[p] # "working" /\ ResultsKept
  BY DEF ParticipantFinished, ResultsKept
<1>2. /\ participant'[p] = "drained"
      /\ \A q \in Participants \ {p} : participant'[q] = participant[q]
      /\ participant[NodeModel] = "working" => participant'[NodeModel] = "working"
  BY <1>1, ParticipantsAssumption DEF Types, RequestType, ParticipantType, Participants
<1>3. completed \subseteq Participants
  BY DEF Types
<1>4. completed' \subseteq completed \cup {p} => \A q \in completed' : participant'[q] = "drained"
  BY <1>2, <1>3 DEF CoordinatorInv
<1>5. CASE SameTasks /\ SameEnd /\ CoordinatorInv' /\ (executor.interrupt => executor'.interrupt)
             /\ worker'.threw = worker.threw /\ worker'.subscription = worker.subscription
  <2>1. TaskInv' /\ WorkerInv' /\ ResultInv'
    BY <1>1, <1>5, TaskFrame, WorkerFrame, ResultFrame
  <2>2. ReadyInv'
    BY <1>1, <1>2, <1>5, TaskFrame DEF ReadyInv
  <2> QED
    BY <1>5, <2>1, <2>2
<1>6. CASE UNCHANGED <<coordinator, completed, executor, worker, queue>>
  <2>1. CoordinatorInv'
    BY <1>1, <1>4, <1>6 DEF CoordinatorInv
  <2> QED
    BY <1>1, <1>5, <1>6, <2>1 DEF SameTasks, SameEnd
<1>7. ASSUME ~Ignored(p), completed' = completed \cup {p} PROVE SafetyInv'
  <2>1. /\ coordinator.pending \in Nat /\ coordinator.pending >= 1
        /\ p \in Before => /\ coordinator.drainingBefore /\ p \in Before \ completed
                           /\ coordinator.pending = 1 => Before \subseteq completed'
                           /\ coordinator.pending - 1 = Cardinality(Before \ completed')
        /\ p \in After => /\ coordinator.drainingAfter /\ p \in After \ completed
                          /\ coordinator.pending = 1 => After \subseteq completed'
                          /\ coordinator.pending - 1 = Cardinality(After \ completed')
    BY <1>7, NotIgnored, Zenon
  <2>2. p \in Before => p \notin After
    BY ParticipantsAssumption
  <2>3. \A q \in completed' : participant'[q] = "drained"
    BY <1>4, <1>7
  <2>4. p \in Before \/ p \in After
    BY DEF Participants
  <2>5. CASE /\ coordinator' = [coordinator EXCEPT !.pending = @ - 1]
             /\ UNCHANGED <<executor, worker, queue>>
    <3>1. /\ coordinator'.pending = coordinator.pending - 1
          /\ coordinator'.requested = coordinator.requested
          /\ coordinator'.drainingBefore = coordinator.drainingBefore
          /\ coordinator'.drainingAfter = coordinator.drainingAfter
      BY <2>5 DEF Types, RequestType, CoordinatorType
    <3>2. CoordinatorInv'
      BY <1>1, <1>7, <2>1, <2>2, <2>3, <2>4, <2>5, <3>1 DEF CoordinatorInv
    <3> QED
      BY <1>1, <1>5, <2>5, <3>2 DEF SameTasks, SameEnd
  <2>6. CASE /\ coordinator.pending = 1 /\ p \in Before /\ Interrupt
             /\ coordinator' = [coordinator EXCEPT !.pending = 0, !.drainingBefore = FALSE]
    <3>1. /\ ~coordinator'.drainingBefore
          /\ coordinator'.requested = coordinator.requested
          /\ coordinator'.drainingAfter = coordinator.drainingAfter
      BY <2>6 DEF Types, RequestType, CoordinatorType
    <3>2. ~coordinator.drainingAfter /\ coordinator.requested /\ ~executor.shutdown
      BY <2>1, <2>6 DEF CoordinatorInv
    <3>3. Before \subseteq completed' /\ completed' \cap After = {}
      BY <1>7, <2>1, <2>2, <2>6, <3>2 DEF CoordinatorInv
    <3>4. /\ ~executor'.shutdown
          /\ queue'["interrupt"] # <<>> => executor'.interrupt
      BY <2>6, <3>2, InterruptEffect DEF CoordinatorInv
    <3>5. CoordinatorInv'
      BY <2>3, <3>1, <3>2, <3>3, <3>4 DEF CoordinatorInv
    <3> QED
      BY <1>1, <1>5, <2>6, <3>5, InterruptEffect DEF SameTasks, SameEnd
  <2>7. CASE /\ coordinator.pending = 1 /\ p \in After /\ ShutdownNode
             /\ coordinator' = [coordinator EXCEPT !.pending = 0]
    <3>1. /\ coordinator'.pending = 0
          /\ coordinator'.requested = coordinator.requested
          /\ coordinator'.drainingBefore = coordinator.drainingBefore
          /\ coordinator'.drainingAfter = coordinator.drainingAfter
      BY <2>7 DEF Types, RequestType, CoordinatorType
    <3>2. /\ coordinator.drainingAfter /\ executor.interrupt /\ node.shutdownRequested
          /\ coordinator.requested /\ ~coordinator.drainingBefore
      BY <2>1, <2>7 DEF CoordinatorInv
    <3>3. Participants \subseteq completed'
      BY <1>7, <2>1, <2>7, <3>2 DEF CoordinatorInv, Participants
    <3>4. Cardinality(After \ completed') = 0
      BY <2>1, <2>7
    <3>5. /\ TaskInv' /\ (InitializeEnded' <=> InitializeEnded)
          /\ queue'["interrupt"] = queue["interrupt"]
          /\ executor'.initialize = executor.initialize /\ executor'.interrupt = executor.interrupt
          /\ executor'.runaway = executor.runaway /\ executor'.emitted = executor.emitted
          /\ executor'.appShutdownComplete = executor.appShutdownComplete
          /\ worker'.threw = worker.threw /\ worker'.subscription = worker.subscription
      BY <1>1, <2>7, ShutdownNodeEffect
    <3>6. CoordinatorInv'
      BY <1>1, <2>3, <3>1, <3>2, <3>3, <3>4, <3>5 DEF CoordinatorInv, Participants
    <3>7. \A r \in Result : InitResultInv(r) => InitResultInv(r)'
      BY <1>1, <3>5 DEF InitResultInv
    <3>8. ResultInv'
      BY <1>1, <3>5, <3>7, KeptResults DEF ResultInv
    <3>9. WorkerInv' /\ ReadyInv'
      BY <1>1, <1>2, <3>5 DEF WorkerInv, ReadyInv
    <3> QED
      BY <3>5, <3>6, <3>8, <3>9
  <2> QED
    BY <1>7, <2>5, <2>6, <2>7 DEF ParticipantFinished
<1> QED
  BY <1>6, <1>7 DEF ParticipantFinished

----------------------------------------------------------------------------
(* The worker threads keep the invariant. *)

\* Which task is taken tells what is left in the queue.
LEMMA StartedTask ==
  ASSUME Types, SafetyInv
  PROVE  /\ StartTask("init", "initialize") =>
              /\ queue["init"] \in {<<"initialize">>, <<"initialize", "shutdown">>}
              /\ queue'["init"] \in {<<>>, <<"shutdown">>}
              /\ queue'["init"] = <<"shutdown">> => executor.shutdown
              /\ queue'["interrupt"] = queue["interrupt"] /\ running["init"] = "idle"
         /\ StartTask("init", "shutdown") =>
              /\ queue["init"] = <<"shutdown">> /\ queue'["init"] = <<>>
              /\ queue'["interrupt"] = queue["interrupt"] /\ running["init"] = "idle"
<1>1. queue["init"] \in {<<>>, <<"initialize">>, <<"shutdown">>, <<"initialize", "shutdown">>}
  BY DEF SafetyInv, TaskInv
<1>2. ASSUME NEW task, StartTask("init", task)
      PROVE  /\ running["init"] = "idle" /\ queue["init"] # <<>> /\ Head(queue["init"]) = task
             /\ queue'["init"] = Tail(queue["init"]) /\ queue'["interrupt"] = queue["interrupt"]
  BY <1>2 DEF StartTask, Types, RequestType, Executors
<1>3. CASE StartTask("init", "initialize")
  <2>1. \/ queue["init"] = <<"initialize">> /\ queue'["init"] = <<>>
        \/ queue["init"] = <<"initialize", "shutdown">> /\ queue'["init"] = <<"shutdown">>
    BY <1>1, <1>2, <1>3, QueueShapes
  <2>2. "initialize" # "shutdown"
    OBVIOUS
  <2>3. ~StartTask("init", "shutdown")
    BY <1>2, <1>3, <2>2
  <2> QED
    BY <1>2, <1>3, <2>1, <2>3, ShapesDiffer DEF SafetyInv, TaskInv
<1>4. CASE StartTask("init", "shutdown")
  <2>1. queue["init"] = <<"shutdown">> /\ queue'["init"] = <<>>
    BY <1>1, <1>2, <1>4, QueueShapes
  <2>2. "initialize" # "shutdown"
    OBVIOUS
  <2>3. ~StartTask("init", "initialize")
    BY <1>2, <1>4, <2>2
  <2> QED
    BY <1>2, <1>4, <2>1, <2>3
<1> QED
  BY <1>3, <1>4

\* A worker step concerns the coordinator only through the interruption.
LEMMA WorkerStepCoordinator ==
  ASSUME CoordinatorInv, UNCHANGED guiVars, queue'["interrupt"] # <<>> => queue["interrupt"] # <<>>,
         node.shutdownRequested => node'.shutdownRequested
  PROVE  CoordinatorInv'
  BY DEF CoordinatorInv, guiVars

\* The rest of ResultInv, for a step that ends a task of the init executor
\* with the result r, or none.
LEMMA WorkerStepResult ==
  ASSUME Types, ResultInv, UNCHANGED <<guiVars, phase, exit>>, results'["interrupt"] = results["interrupt"],
         node.shutdownRequested => node'.shutdownRequested,
         node.app = "stopped" => node'.app = "stopped",
         \A q \in Result : InitResultInv(q) => InitResultInv(q)',
         \/ results'["init"] = results["init"]
         \/ \E r \in Result : results'["init"] = Append(results["init"], r) /\ InitResultInv(r)'
  PROVE  ResultInv'
<1>1. results["init"] \in Seq(Result)
  BY DEF Types, LifecycleTaskType, Executors
<1>2. InitResults \subseteq Result
  BY <1>1 DEF InitResults
<1>3. \A q \in InitResults' : InitResultInv(q)'
  <2>1. CASE results'["init"] = results["init"]
    BY <1>2, <2>1 DEF InitResults, ResultInv
  <2>2. ASSUME NEW r \in Result, results'["init"] = Append(results["init"], r), InitResultInv(r)'
        PROVE  \A q \in InitResults' : InitResultInv(q)'
    <3>1. /\ Len(results'["init"]) = Len(results["init"]) + 1 /\ Len(results["init"]) \in Nat
          /\ results'["init"][Len(results["init"]) + 1] = r
          /\ \A i \in 1..Len(results["init"]) : results'["init"][i] = results["init"][i]
      BY <1>1, <2>2
    <3>2. ASSUME NEW i \in 1..Len(results'["init"])
          PROVE  results'["init"][i] \in InitResults \cup {r}
      <4>1. i \in 1..Len(results["init"]) \/ i = Len(results["init"]) + 1
        BY <3>1, <3>2
      <4> QED
        BY <3>1, <4>1 DEF InitResults
    <3>3. InitResults' \subseteq InitResults \cup {r}
      BY <3>2 DEF InitResults
    <3> QED
      BY <1>2, <2>2, <3>3 DEF ResultInv
  <2> QED
    BY <2>1, <2>2
<1> QED
  BY <1>3 DEF ResultInv, guiVars

LEMMA StartInitializeInv ==
  ASSUME Types, SafetyInv, StartInitialize
  PROVE  SafetyInv'
<1> USE DEF SafetyInv
<1>1. /\ queue["init"] \in {<<"initialize">>, <<"initialize", "shutdown">>}
      /\ queue'["init"] \in {<<>>, <<"shutdown">>}
      /\ queue'["init"] = <<"shutdown">> => executor.shutdown
      /\ queue'["interrupt"] = queue["interrupt"]
  BY StartedTask DEF StartInitialize
<1>2. executor.initialize /\ node.app = "base"
  BY <1>1 DEF TaskInv
<1>3. /\ running'["init"] = "appInitMain" /\ node'.app = "initializing"
      /\ node'.shutdownRequested = node.shutdownRequested
      /\ UNCHANGED <<guiVars, worker, results, phase, exit>>
  BY DEF StartInitialize, Types, LifecycleTaskType, Executors
<1>4. UNCHANGED <<executor, nodeModel>>
  BY <1>3 DEF guiVars
<1>5. ~InitializeEnded
  BY <1>1, ShapesDiffer DEF InitializeEnded
<1>6. TaskInv'
  BY <1>1, <1>2, <1>3, <1>4, ShapesDiffer DEF TaskInv, InitSteps, Down
<1>7. WorkerInv' /\ ReadyInv'
  BY <1>3, <1>4, <1>5 DEF WorkerInv, ReadyInv, Down
<1>8. ResultInv'
  BY <1>2, <1>3, <1>5, WorkerStepResult DEF InitResultInv
<1>9. CoordinatorInv'
  BY <1>1, <1>3, WorkerStepCoordinator
<1> QED
  BY <1>6, <1>7, <1>8, <1>9

\* While initialize runs, nothing is said of how it ended.
LEMMA InitializeRuns ==
  ASSUME Types, SafetyInv, running["init"] \in InitSteps
  PROVE  /\ executor.initialize /\ queue["init"] \in {<<>>, <<"shutdown">>}
         /\ node.app \in {"initializing", "up", "failed"} /\ ~InitializeEnded
         /\ ~worker.threw /\ ~nodeModel.ready
  BY DEF SafetyInv, TaskInv, WorkerInv, ReadyInv, InitializeEnded

\* One step of initialize to another, of a node that is not down.
LEMMA InitializeStep ==
  ASSUME Types, SafetyInv, running["init"] \in InitSteps, running'["init"] \in InitSteps,
         node'.app \in {"initializing", "up", "failed"},
         node'.shutdownRequested = node.shutdownRequested,
         worker'.threw = worker.threw, UNCHANGED <<guiVars, queue, results, phase, exit>>
  PROVE  SafetyInv'
<1> USE DEF SafetyInv
<1>1. /\ executor.initialize /\ queue["init"] \in {<<>>, <<"shutdown">>}
      /\ node.app \in {"initializing", "up", "failed"} /\ ~InitializeEnded
      /\ ~worker.threw /\ ~nodeModel.ready
  BY InitializeRuns
<1>2. UNCHANGED <<executor, nodeModel>>
  BY DEF guiVars
<1>3. TaskInv'
  BY <1>1, <1>2, ShapesDiffer DEF TaskInv, InitSteps, Down
<1>4. WorkerInv' /\ ReadyInv'
  BY <1>1, <1>2 DEF WorkerInv, ReadyInv, Down
<1>5. ResultInv'
  BY <1>1, WorkerStepResult DEF InitResultInv
<1>6. CoordinatorInv'
  BY WorkerStepCoordinator
<1> QED
  BY <1>3, <1>4, <1>5, <1>6

LEMMA InitializeStepsInv ==
  ASSUME Types, SafetyInv, AppInitMainReturns \/ CheckSubscribe \/ Subscribe
  PROVE  SafetyInv'
<1> USE DEF InitSteps
<1>1. CASE AppInitMainReturns
  <2>1. /\ running["init"] = "appInitMain" /\ running'["init"] = "checkSubscribe"
        /\ node'.app \in {"up", "failed"} /\ node'.shutdownRequested = node.shutdownRequested
        /\ UNCHANGED <<guiVars, worker, queue, results, phase, exit>>
    BY <1>1 DEF AppInitMainReturns, Types, LifecycleTaskType, Executors
  <2> QED
    BY <2>1, InitializeStep
<1>2. CASE CheckSubscribe
  <2>1. /\ running["init"] = "checkSubscribe" /\ running'["init"] \in {"subscribe", "report"}
        /\ worker'.threw = worker.threw
        /\ UNCHANGED <<guiVars, queue, results, phase, node, exit>>
    BY <1>2 DEF CheckSubscribe, Types, LifecycleTaskType, RequestType, WorkerType, Executors
  <2>2. node.app \in {"initializing", "up", "failed"}
    BY <2>1 DEF SafetyInv, TaskInv
  <2> QED
    BY <2>1, <2>2, InitializeStep
<1>3. CASE Subscribe
  <2>1. /\ running["init"] = "subscribe" /\ running'["init"] = "report"
        /\ worker'.threw = worker.threw
        /\ UNCHANGED <<guiVars, queue, results, phase, node, exit>>
    BY <1>3 DEF Subscribe, Types, LifecycleTaskType, RequestType, WorkerType, Executors
  <2>2. node.app \in {"initializing", "up", "failed"}
    BY <2>1 DEF SafetyInv, TaskInv
  <2> QED
    BY <2>1, <2>2, InitializeStep
<1> QED
  BY <1>1, <1>2, <1>3

\* What EndTask does to the queues of results.
LEMMA EndedTask ==
  ASSUME Types, NEW x \in Executors, NEW r, EndTask(x, r)
  PROVE  /\ running'[x] = "idle"
         /\ results'[x] \in {results[x], Append(results[x], r)}
         /\ \A y \in Executors \ {x} : results'[y] = results[y] /\ running'[y] = running[y]
  BY DEF EndTask, Types, LifecycleTaskType

\* initialize ends, with or without an exception.
LEMMA InitializeEnds ==
  ASSUME Types, SafetyInv, running["init"] \in InitSteps,
         NEW r \in Result, EndTask("init", r), r.task = "initialize",
         node'.app \in {"initializing", "up", "failed"},
         node'.shutdownRequested = node.shutdownRequested,
         r.outcome = "success" => node'.app = "up", worker'.threw => node'.app = "failed",
         UNCHANGED <<guiVars, queue, phase, exit>>
  PROVE  SafetyInv'
<1> USE DEF SafetyInv
<1>1. /\ executor.initialize /\ queue["init"] \in {<<>>, <<"shutdown">>}
      /\ node.app \in {"initializing", "up", "failed"} /\ ~InitializeEnded
      /\ ~worker.threw /\ ~nodeModel.ready
  BY InitializeRuns
<1>2. UNCHANGED <<executor, nodeModel>>
  BY DEF guiVars
<1>3. /\ running'["init"] = "idle"
      /\ results'["init"] \in {results["init"], Append(results["init"], r)}
      /\ results'["interrupt"] = results["interrupt"]
  BY EndedTask DEF Executors
<1>4. TaskInv'
  BY <1>1, <1>2, <1>3, ShapesDiffer DEF TaskInv, InitSteps, Down
<1>5. InitializeEnded'
  BY <1>1, <1>2, <1>3 DEF InitializeEnded, InitSteps
<1>6. WorkerInv' /\ ReadyInv'
  BY <1>1, <1>2, <1>5 DEF WorkerInv, ReadyInv, Down
<1>7. \A q \in Result : InitResultInv(q) => InitResultInv(q)'
  BY <1>1 DEF InitResultInv
<1>8. InitResultInv(r)'
  BY <1>5 DEF InitResultInv
<1>9. ResultInv'
  BY <1>1, <1>3, <1>7, <1>8, WorkerStepResult
<1>10. CoordinatorInv'
  BY WorkerStepCoordinator
<1> QED
  BY <1>4, <1>6, <1>9, <1>10

LEMMA InitializeEndsInv ==
  ASSUME Types, SafetyInv, InitializeThrows \/ ReportInitialize
  PROVE  SafetyInv'
<1>1. CASE InitializeThrows
  <2> DEFINE r == [task |-> "initialize", outcome |-> "threw", stop |-> FALSE]
  <2>1. r \in Result /\ r.task = "initialize" /\ r.outcome # "success"
    BY DEF Result
  <2> HIDE DEF r
  <2>2. EndTask("init", r)
    BY <1>1 DEF InitializeThrows, r
  <2>3. /\ running["init"] \in InitSteps
        /\ node'.app = "failed" /\ node'.shutdownRequested = node.shutdownRequested
        /\ UNCHANGED <<guiVars, queue, phase, exit>>
    BY <1>1 DEF InitializeThrows, InitSteps, Types, LifecycleTaskType
  <2> QED
    BY <2>1, <2>2, <2>3, InitializeEnds
<1>2. CASE ReportInitialize
  <2> DEFINE r == [task |-> "initialize", outcome |-> IF node.app = "up" THEN "success" ELSE "failure",
                   stop |-> node.shutdownRequested]
  <2>1. r \in Result /\ r.task = "initialize" /\ (r.outcome = "success" => node.app = "up")
    BY DEF Result, Types, LifecycleTaskType
  <2> HIDE DEF r
  <2>2. EndTask("init", r)
    BY <1>2 DEF ReportInitialize, r
  <2>3. /\ running["init"] \in InitSteps /\ UNCHANGED <<guiVars, worker, queue, phase, node, exit>>
    BY <1>2 DEF ReportInitialize, InitSteps
  <2>4. node.app \in {"initializing", "up", "failed"} /\ ~worker.threw
    BY <2>3, InitializeRuns
  <2> QED
    BY <2>1, <2>2, <2>3, <2>4, InitializeEnds
<1> QED
  BY <1>1, <1>2

LEMMA RunInterruptInv ==
  ASSUME Types, SafetyInv, RunInterrupt
  PROVE  SafetyInv'
<1> USE DEF SafetyInv
<1>1. PICK outcome \in {"success", "threw"} :
        EndTask("interrupt", [task |-> "interrupt", outcome |-> outcome, stop |-> FALSE])
  BY DEF RunInterrupt
<1>2. results'["init"] = results["init"] /\ running'["init"] = running["init"]
  BY <1>1, EndedTask DEF Executors
<1>3. /\ queue["interrupt"] # <<>> /\ queue'["init"] = queue["init"]
      /\ node'.app = node.app /\ node'.shutdownRequested
      /\ UNCHANGED <<guiVars, worker, phase, exit>>
  BY DEF RunInterrupt, StartTask, Types, RequestType, LifecycleTaskType, Executors
<1>4. executor.interrupt
  BY <1>3 DEF CoordinatorInv
<1>5. UNCHANGED <<executor, nodeModel, participant>>
  BY <1>3 DEF guiVars
<1>6. SameTasks
  BY <1>2, <1>3, <1>5 DEF SameTasks
<1>7. TaskInv' /\ WorkerInv' /\ ReadyInv'
  BY <1>3, <1>5, <1>6, TaskFrame, WorkerFrame, ReadyFrame
<1>8. \A q \in InitResults' : InitResultInv(q)'
  BY <1>2, <1>6, TaskFrame DEF ResultInv, InitResults, InitResultInv, SameTasks
<1>9. ResultInv'
  BY <1>3, <1>4, <1>5, <1>8 DEF ResultInv
<1>10. CoordinatorInv'
  BY <1>3, <1>4, WorkerStepCoordinator
<1> QED
  BY <1>7, <1>9, <1>10

LEMMA StartShutdownInv ==
  ASSUME Types, SafetyInv, StartShutdown
  PROVE  SafetyInv'
<1> USE DEF SafetyInv
<1>1. /\ queue["init"] = <<"shutdown">> /\ queue'["init"] = <<>> /\ running["init"] = "idle"
      /\ queue'["interrupt"] = queue["interrupt"]
      /\ UNCHANGED <<guiVars, phase, exit>>
  BY StartedTask DEF StartShutdown
<1>2. UNCHANGED <<executor, nodeModel, participant>>
  BY <1>1 DEF guiVars
<1>3. executor.shutdown /\ node.app \notin Down
  BY <1>1, ShapesDiffer DEF TaskInv
<1>4. ~nodeModel.ready
  <2>1. NodeModel \in completed
    BY <1>3, ParticipantsAssumption DEF CoordinatorInv, Participants
  <2> QED
    BY <2>1 DEF CoordinatorInv, ReadyInv
<1> DEFINE r == [task |-> "shutdown", outcome |-> "failure", stop |-> FALSE]
<1>5. r \in Result /\ r.task = "shutdown" /\ r.outcome # "success"
  BY DEF Result
<1> HIDE DEF r
<1>6. CASE EndTask("init", r) /\ UNCHANGED <<worker, node>>
  <2>1. /\ running'["init"] = "idle"
        /\ results'["init"] \in {results["init"], Append(results["init"], r)}
        /\ results'["interrupt"] = results["interrupt"]
    BY <1>6, EndedTask DEF Executors
  <2>2. TaskInv'
    BY <1>1, <1>2, <1>3, <1>6, <2>1, ShapesDiffer DEF TaskInv, InitSteps
  <2>3. InitializeEnded => InitializeEnded'
    BY <1>1, <1>2, <2>1 DEF InitializeEnded, InitSteps
  <2>4. WorkerInv' /\ ReadyInv'
    BY <1>2, <1>4, <1>6, <2>3 DEF WorkerInv, ReadyInv
  <2>5. /\ \A q \in Result : InitResultInv(q) => InitResultInv(q)'
        /\ InitResultInv(r)'
    BY <1>5, <1>6, <2>3 DEF InitResultInv
  <2>6. ResultInv'
    BY <1>1, <1>5, <1>6, <2>1, <2>5, WorkerStepResult
  <2>7. CoordinatorInv'
    BY <1>1, <1>6, WorkerStepCoordinator
  <2> QED
    BY <2>2, <2>4, <2>6, <2>7
<1>7. CASE /\ MayCleanUp /\ worker' = RetireSubscription
           /\ node' = [node EXCEPT !.app = "stopping"]
           /\ running' = [running EXCEPT !["init"] = "appShutdown"]
           /\ UNCHANGED results
  <2>1. /\ ~worker'.threw /\ ~worker'.subscription
        /\ node'.app = "stopping" /\ node'.shutdownRequested = node.shutdownRequested
        /\ running'["init"] = "appShutdown"
    BY <1>7 DEF MayCleanUp, RetireSubscription, Types, RequestType, LifecycleTaskType, WorkerType, Executors
  <2>2. TaskInv'
    BY <1>1, <1>2, <1>3, <2>1, ShapesDiffer DEF TaskInv, InitSteps, Down
  <2>3. InitializeEnded => InitializeEnded'
    BY <1>1, <1>2, <2>1 DEF InitializeEnded, InitSteps
  <2>4. WorkerInv' /\ ReadyInv'
    BY <1>2, <1>4, <2>1 DEF WorkerInv, ReadyInv
  <2>5. \A q \in Result : InitResultInv(q) => InitResultInv(q)'
    BY <1>3, <2>1, <2>3 DEF InitResultInv, Down
  <2>6. ResultInv'
    BY <1>1, <1>3, <1>7, <2>1, <2>5, WorkerStepResult DEF Down
  <2>7. CoordinatorInv'
    BY <1>1, <2>1, WorkerStepCoordinator
  <2> QED
    BY <2>2, <2>4, <2>6, <2>7
<1> QED
  BY <1>6, <1>7 DEF StartShutdown, r

LEMMA AppShutdownReturnsInv ==
  ASSUME Types, SafetyInv, AppShutdownReturns
  PROVE  SafetyInv'
<1> USE DEF SafetyInv
<1>1. PICK outcome \in {"success", "threw"} :
        /\ node' = [node EXCEPT !.app = IF outcome = "success" THEN "stopped" ELSE "broken"]
        /\ EndTask("init", [task |-> "shutdown", outcome |-> outcome, stop |-> FALSE])
  BY DEF AppShutdownReturns
<1> DEFINE r == [task |-> "shutdown", outcome |-> outcome, stop |-> FALSE]
<1>2. r \in Result /\ r.task = "shutdown" /\ r.outcome = outcome
  BY DEF Result
<1> HIDE DEF r
<1>3. /\ running'["init"] = "idle"
      /\ results'["init"] \in {results["init"], Append(results["init"], r)}
      /\ results'["interrupt"] = results["interrupt"]
  BY <1>1, EndedTask DEF Executors, r
<1>4. /\ running["init"] = "appShutdown" /\ UNCHANGED <<guiVars, worker, queue, phase, exit>>
  BY DEF AppShutdownReturns
<1>5. /\ node.app = "stopping" /\ node'.shutdownRequested = node.shutdownRequested
      /\ node'.app = IF outcome = "success" THEN "stopped" ELSE "broken"
  BY <1>1, <1>4 DEF TaskInv, Types, LifecycleTaskType
<1>6. UNCHANGED <<executor, nodeModel>>
  BY <1>4 DEF guiVars
<1>7. TaskInv'
  BY <1>3, <1>4, <1>5, <1>6, ShapesDiffer DEF TaskInv, InitSteps, Down
<1>8. InitializeEnded' <=> InitializeEnded
  BY <1>3, <1>4, <1>6 DEF InitializeEnded, InitSteps
<1>9. WorkerInv' /\ ReadyInv'
  BY <1>4, <1>5, <1>6 DEF WorkerInv, ReadyInv, Down
<1>10. /\ \A q \in Result : InitResultInv(q) => InitResultInv(q)'
       /\ InitResultInv(r)'
  BY <1>2, <1>5, <1>8 DEF InitResultInv, Down
<1>11. ResultInv'
  BY <1>2, <1>3, <1>4, <1>5, <1>10, WorkerStepResult
<1>12. CoordinatorInv'
  BY <1>4, <1>5, WorkerStepCoordinator
<1> QED
  BY <1>7, <1>9, <1>11, <1>12

----------------------------------------------------------------------------
(* The theorems *)

LEMMA SafetyInit == Init => SafetyInv
<1> SUFFICES ASSUME Init PROVE SafetyInv
  OBVIOUS
<1>1. /\ queue["init"] = <<>> /\ queue["interrupt"] = <<>>
      /\ results["init"] = <<>> /\ results["interrupt"] = <<>> /\ running["init"] = "idle"
  BY DEF Init, Executors
<1>2. InitResults = {}
  BY <1>1 DEF InitResults
<1>3. TaskInv /\ WorkerInv
  BY <1>1, ShapesDiffer DEF Init, TaskInv, WorkerInv, InitSteps, Down
<1>4. ResultInv /\ ReadyInv
  BY <1>1, <1>2 DEF Init, ResultInv, ReadyInv
<1>5. CoordinatorInv
  BY <1>1 DEF Init, CoordinatorInv
<1> QED
  BY <1>3, <1>4, <1>5 DEF SafetyInv

LEMMA SafetyNext == Types /\ SafetyInv /\ [Next]_vars => SafetyInv'
<1> SUFFICES ASSUME Types, SafetyInv, [Next]_vars PROVE SafetyInv'
  OBVIOUS
<1>1. CASE UNCHANGED vars
  BY <1>1, NodeModelOnly DEF vars
<1>2. CASE RequestInitialize \/ UserQuits \/ StartShutdownPolling \/ PollTimer \/ PollAnswered \/ NodeStops
  BY <1>2, RequestInitializeInv, UserQuitsInv, PollingInv
<1>3. CASE GuiStep
  BY <1>3, PollHandledInv, HandleInitializeResultInv, HandleInterruptResultInv,
     HandleShutdownResultInv, HandleRunawayInv, FinishedInv DEF GuiStep, Runaway, Executors
<1>4. CASE InitWorkerStep
  BY <1>4, StartInitializeInv, InitializeStepsInv, InitializeEndsInv, StartShutdownInv,
     AppShutdownReturnsInv DEF InitWorkerStep
<1>5. CASE RunInterrupt
  BY <1>5, RunInterruptInv
<1>6. CASE \E p \in Participants : ParticipantFinished(p)
  BY <1>6, ParticipantFinishedInv
<1>7. CASE \E x \in Executors : ExecutorDrained(x)
  BY <1>7, ExecutorDrainedInv
<1> QED
  BY <1>1, <1>2, <1>3, <1>4, <1>5, <1>6, <1>7 DEF Next

\* Types and the inductive invariant hold together: the count of pending
\* participants stays a natural number because of what it counts.
THEOREM LifecycleInvariant == Spec => [](TypeOK /\ SafetyInv)
<1>1. Init => Types /\ SafetyInv
  BY InitType, TypeParts, SafetyInit
<1>2. Types /\ SafetyInv /\ [Next]_vars => Types' /\ SafetyInv'
  BY NextType, SafetyNext DEF SafetyInv
<1>3. Types /\ SafetyInv => TypeOK /\ SafetyInv
  BY TypeParts
<1> QED
  BY <1>1, <1>2, <1>3, PTL DEF Spec

\* For any participants, the node is taken down only when it was interrupted
\* and nobody uses it any more, never after its initialization threw; the GUI
\* calls it ready only while it is up, and leaves run() normally only after it
\* was shut down (initexecutor.cpp, shutdowncoordinator.cpp, nodemodel.cpp).
THEOREM LifecycleSafety == Spec => []LifecycleIsSafe
<1>1. TypeOK /\ SafetyInv => LifecycleIsSafe
  <2> SUFFICES ASSUME TypeOK, SafetyInv PROVE LifecycleIsSafe
    OBVIOUS
  <2> USE DEF SafetyInv
  <2>1. AppShutdownOnlyWhenQuiescent
    BY DEF AppShutdownOnlyWhenQuiescent, TaskInv, WorkerInv, CoordinatorInv, Down
  <2>2. NeverCleansUpFailedNode
    BY DEF NeverCleansUpFailedNode, WorkerInv
  <2>3. ReadyOnlyWhileUp
    BY DEF ReadyOnlyWhileUp, ReadyInv
  <2>4. CleanExitAfterAppShutdown
    BY DEF CleanExitAfterAppShutdown, ResultInv
  <2> QED
    BY <2>1, <2>2, <2>3, <2>4 DEF LifecycleIsSafe
<1> QED
  BY <1>1, LifecycleInvariant, PTL

\* Once a fatal error is shown, only the user's quit ends the process: the
\* answer of a poll and the result of initialize that were on their way when it
\* was reported do not (timerEvent, initializeResult, requestShutdown).
THEOREM FatalErrorStays == Spec => FatalErrorWaitsForUser
<1>1. TypeOK /\ [Next]_vars => [exit = "no" /\ exit' = "fatal" => UserQuits]_vars
  <2> SUFFICES ASSUME TypeOK, Next, exit = "no", exit' = "fatal" PROVE UserQuits
    OBVIOUS
  <2>1. "no" # "fatal" /\ "clean" # "fatal"
    OBVIOUS
  <2>2. ASSUME NEW nm, RequestShutdown(nm), ~nm.fatal PROVE FALSE
    BY <2>1, <2>2 DEF RequestShutdown
  <2>3. CASE PollHandled
    <3>1. PollDone.fatal = nodeModel.fatal
      BY TypeParts DEF PollDone, Types, NodeModelType
    <3> QED
      BY <2>1, <2>2, <2>3, <3>1 DEF PollHandled
  <2>4. CASE HandleInitializeResult
    BY <2>1, <2>2, <2>4 DEF HandleInitializeResult, InitializeResult, AcceptsResult
  <2>5. ~(RequestInitialize \/ StartShutdownPolling \/ PollTimer \/ PollAnswered \/ NodeStops)
    BY <2>1 DEF RequestInitialize, StartShutdownPolling, PollTimer, PollAnswered, NodeStops
  <2>6. ~(HandleInterruptResult \/ HandleShutdownResult \/ Runaway \/ Finished)
    BY <2>1 DEF HandleInterruptResult, HandleShutdownResult, Runaway, HandleRunaway, Finished
  <2>7. ~InitWorkerStep /\ ~RunInterrupt
    BY <2>1 DEF InitWorkerStep, StartInitialize, AppInitMainReturns, InitializeThrows, CheckSubscribe,
                Subscribe, ReportInitialize, StartShutdown, AppShutdownReturns, RunInterrupt
  <2>8. ~(\E p \in Participants : ParticipantFinished(p)) /\ ~(\E x \in Executors : ExecutorDrained(x))
    BY <2>1 DEF ParticipantFinished, ExecutorDrained
  <2> QED
    BY <2>3, <2>4, <2>5, <2>6, <2>7, <2>8 DEF Next, GuiStep
<1> QED
  BY <1>1, LifecycleInvariant, PTL DEF Spec, FatalErrorWaitsForUser

(***************************************************************************)
(* Sequences and the sets of their elements                                *)
(***************************************************************************)
Distinct(s) == \A j, k \in DOMAIN s : s[j] = s[k] => j = k

LEMMA AppendElements ==
  ASSUME NEW S, NEW s \in Seq(S), NEW e \in S
  PROVE  /\ Append(s, e) \in Seq(S)
         /\ Boxes!ToSet(Append(s, e)) = Boxes!ToSet(s) \cup {e}
<1>1. Append(s, e) \in Seq(S) /\ DOMAIN Append(s, e) = 1..Len(s) + 1
  OBVIOUS
<1>2. \A i \in 1..Len(s) : Append(s, e)[i] = s[i]
  OBVIOUS
<1>3. Append(s, e)[Len(s) + 1] = e /\ Len(s) \in Nat
  OBVIOUS
<1>4. Boxes!ToSet(Append(s, e)) \subseteq Boxes!ToSet(s) \cup {e}
  BY <1>1, <1>2, <1>3 DEF Boxes!ToSet
<1>5. Boxes!ToSet(s) \cup {e} \subseteq Boxes!ToSet(Append(s, e))
  BY <1>1, <1>2, <1>3 DEF Boxes!ToSet
<1> QED BY <1>1, <1>4, <1>5

LEMMA AppendEntries ==
  ASSUME NEW S, NEW s \in Seq(S), NEW e \in S
  PROVE  /\ Append(s, e) \in Seq(S) /\ Len(s) \in Nat /\ Len(Append(s, e)) = Len(s) + 1
         /\ Append(s, e)[Len(s) + 1] = e
         /\ \A k \in 1..Len(s) : Append(s, e)[k] = s[k]
  OBVIOUS

LEMMA AppendDistinct ==
  ASSUME NEW S, NEW s \in Seq(S), NEW e \in S, Distinct(s), e \notin Boxes!ToSet(s)
  PROVE  Distinct(Append(s, e))
<1>1. DOMAIN Append(s, e) = 1..Len(s) + 1 /\ Len(s) \in Nat /\ DOMAIN s = 1..Len(s)
  OBVIOUS
<1>2. \A i \in 1..Len(s) : Append(s, e)[i] = s[i] /\ s[i] # e
  BY DEF Boxes!ToSet
<1>3. Append(s, e)[Len(s) + 1] = e
  OBVIOUS
<1> QED BY <1>1, <1>2, <1>3 DEF Distinct

LEMMA TailElements ==
  ASSUME NEW S, NEW s \in Seq(S), s # << >>
  PROVE  /\ Head(s) \in S /\ Tail(s) \in Seq(S)
         /\ Boxes!ToSet(s) = {Head(s)} \cup Boxes!ToSet(Tail(s))
         /\ Distinct(s) => Distinct(Tail(s)) /\ Head(s) \notin Boxes!ToSet(Tail(s))
<1>1. Len(s) \in Nat /\ Len(s) > 0 /\ DOMAIN s = 1..Len(s) /\ Head(s) = s[1]
  OBVIOUS
<1>2. Tail(s) \in Seq(S) /\ DOMAIN Tail(s) = 1..Len(s) - 1
  BY <1>1
<1>3. \A i \in 1..Len(s) - 1 : Tail(s)[i] = s[i + 1]
  BY <1>1
<1>4. Boxes!ToSet(s) \subseteq {Head(s)} \cup Boxes!ToSet(Tail(s))
  <2> SUFFICES ASSUME NEW i \in 1..Len(s) PROVE s[i] \in {Head(s)} \cup Boxes!ToSet(Tail(s))
    BY <1>1 DEF Boxes!ToSet
  <2>1. CASE i = 1
    BY <2>1, <1>1
  <2>2. CASE i # 1
    <3>1. i - 1 \in 1..Len(s) - 1 /\ i - 1 + 1 = i
      BY <2>2, <1>1
    <3>2. Tail(s)[i - 1] = s[i]
      BY <3>1, <1>3
    <3> QED BY <3>1, <3>2, <1>2 DEF Boxes!ToSet
  <2> QED BY <2>1, <2>2
<1>5. {Head(s)} \cup Boxes!ToSet(Tail(s)) \subseteq Boxes!ToSet(s)
  BY <1>1, <1>2, <1>3 DEF Boxes!ToSet
<1>6. ASSUME Distinct(s) PROVE Distinct(Tail(s)) /\ Head(s) \notin Boxes!ToSet(Tail(s))
  BY <1>1, <1>2, <1>3, <1>6 DEF Distinct, Boxes!ToSet
<1> QED BY <1>1, <1>2, <1>4, <1>5, <1>6

LEMMA TailOfOne ==
  ASSUME NEW S, NEW s \in Seq(S), Len(s) = 1
  PROVE  Tail(s) = << >>
<1>1. s # << >> /\ Tail(s) \in Seq(S) /\ Len(Tail(s)) = 0
  OBVIOUS
<1> QED BY <1>1, EmptySeq

LEMMA FrontElements ==
  ASSUME NEW S, NEW s \in Seq(S), s # << >>
  PROVE  /\ Boxes!Last(s) \in S /\ Boxes!Front(s) \in Seq(S)
         /\ Boxes!ToSet(s) = Boxes!ToSet(Boxes!Front(s)) \cup {Boxes!Last(s)}
<1>1. Len(s) \in Nat /\ Len(s) > 0 /\ DOMAIN s = 1..Len(s) /\ Boxes!Last(s) = s[Len(s)]
  BY DEF Boxes!Last
<1>2. Boxes!Front(s) \in Seq(S) /\ DOMAIN Boxes!Front(s) = 1..Len(s) - 1
  BY <1>1 DEF Boxes!Front
<1>3. \A i \in 1..Len(s) - 1 : Boxes!Front(s)[i] = s[i]
  BY <1>1 DEF Boxes!Front
<1>4. Boxes!ToSet(s) \subseteq Boxes!ToSet(Boxes!Front(s)) \cup {Boxes!Last(s)}
  <2> SUFFICES ASSUME NEW i \in 1..Len(s) PROVE s[i] \in Boxes!ToSet(Boxes!Front(s)) \cup {Boxes!Last(s)}
    BY <1>1 DEF Boxes!ToSet
  <2>1. CASE i = Len(s)
    BY <2>1, <1>1
  <2>2. CASE i # Len(s)
    <3>1. i \in 1..Len(s) - 1
      <4>1. i \in Int /\ 1 <= i /\ i <= Len(s) /\ Len(s) \in Int
        BY <1>1
      <4> QED BY <4>1, <2>2
    <3> QED BY <3>1, <1>2, <1>3 DEF Boxes!ToSet
  <2> QED BY <2>1, <2>2
<1>5. Boxes!ToSet(Boxes!Front(s)) \subseteq Boxes!ToSet(s)
  BY <1>1, <1>2, <1>3 DEF Boxes!ToSet
<1>6. Boxes!Last(s) \in S /\ Boxes!Last(s) \in Boxes!ToSet(s)
  <2>1. Len(s) \in DOMAIN s
    BY <1>1
  <2>2. s[Len(s)] \in S /\ s[Len(s)] \in Boxes!ToSet(s)
    BY <2>1 DEF Boxes!ToSet
  <2> QED BY <1>1, <2>2
<1> QED BY <1>2, <1>4, <1>5, <1>6

LEMMA NoElements == Boxes!ToSet(<< >>) = {}
  BY DEF Boxes!ToSet

(***************************************************************************)
(* The dialogs: what the queues hold                                       *)
(***************************************************************************)
AllTexts == UNION {call.texts : call \in Styles}
CallType == Styles \cup [texts : SUBSET AllTexts, icon : {"warning"}, modal : {FALSE}, question : {FALSE}]
StartupType == [init : {"running", "ok", "failed"}, enabled : BOOLEAN, failureShown : BOOLEAN,
                warnings : SUBSET AllTexts, errors : SUBSET AllTexts, error : SUBSET AllTexts,
                shutdown : BOOLEAN]

BoxesTypeOK ==
  /\ calls \in Seq(CallType)
  /\ waits \in [Threads -> Nat]
  /\ events \in Seq(Nat) /\ loops \in Seq(Nat) /\ dialogs \in Seq(Nat)
  /\ startup \in StartupType

Queued == Boxes!ToSet(events)
Looping == Boxes!ToSet(loops)
\* The calls whose dialog is shown, waits to be shown or has been answered.
Shown == active \cup Boxes!ToSet(dialogs) \cup DOMAIN answers

\* Threads, queue, loops and dialogs know only calls that were made.
IdsAreCalls ==
  /\ \A t \in Threads : waits[t] <= Len(calls)
  /\ Queued \subseteq 0..Len(calls)
  /\ Looping \subseteq 1..Len(calls)
  /\ Shown \subseteq 1..Len(calls)

OneDialogIsShown == \A i, j \in active : i = j

\* Only a call that needs an answer blocks its thread.
WaitsForAnswers == \A t \in Threads : waits[t] # 0 => Boxes!Blocking(calls[waits[t]])

\* The initialization has one result, and before it no startup error.
InitializationEndsOnce ==
  /\ startup.init = "running" => 0 \notin Queued
  /\ startup.init = "running" \/ 0 \in Queued => startup.error = {}

\* The two halves of DialogsAreKept, on the sets of the queues.
WaitsAreHeld == \A t \in Threads : waits[t] # 0 => (waits[t] \in Queued) # (waits[t] \in Looping)
LoopsHaveDialogs == Looping \subseteq Shown
FirstIsShown == active = {} => dialogs = << >>
Kept == startup.warnings \cup startup.error \cup UNION {calls[k].texts : k \in Shown}
WarningsAreKept ==
  startup.shutdown \/
  \A i \in 1..Len(calls) : calls[i].icon = "warning" /\ i \notin Queued => calls[i].texts \subseteq Kept

BoxesInv ==
  /\ BoxesTypeOK /\ IdsAreCalls /\ Distinct(events) /\ OneDialogIsShown /\ WaitsForAnswers
  /\ InitializationEndsOnce
  /\ WaitsAreHeld /\ LoopsHaveDialogs /\ FirstIsShown /\ WarningsAreKept

\* What DialogsAreKept says follows from the invariant.
LEMMA BoxesKept == BoxesInv => Boxes!DialogsAreKept
<1> SUFFICES ASSUME BoxesInv PROVE Boxes!DialogsAreKept
  OBVIOUS
<1>1. Boxes!NoCallIsForgotten
  <2>1. \A t \in Threads : waits[t] # 0 => (waits[t] \in Queued) # (waits[t] \in Looping)
    BY DEF BoxesInv, WaitsAreHeld
  <2>2. \A k \in DOMAIN loops : loops[k] \in Shown
    BY DEF BoxesInv, LoopsHaveDialogs, Looping, Boxes!ToSet
  <2>3. active = {} => dialogs = << >>
    BY DEF BoxesInv, FirstIsShown
  <2> QED BY <2>1, <2>2, <2>3 DEF Boxes!NoCallIsForgotten, Queued, Looping, Shown
<1>2. Boxes!StartupWarningIsNotLost
  <2>1. DOMAIN calls = 1..Len(calls)
    BY DEF BoxesInv, BoxesTypeOK
  <2> QED BY <2>1 DEF BoxesInv, WarningsAreKept, Kept, Shown, Queued, Boxes!StartupWarningIsNotLost
<1> QED BY <1>1, <1>2 DEF Boxes!DialogsAreKept

LEMMA BoxesInitially == Boxes!Init => BoxesInv
<1> SUFFICES ASSUME Boxes!Init PROVE BoxesInv
  OBVIOUS
<1>1. BoxesTypeOK
  BY DEF Boxes!Init, BoxesTypeOK, StartupType
<1>2. Queued = {} /\ Looping = {} /\ Shown = {} /\ Len(calls) = 0 /\ active = {} /\ dialogs = << >>
  BY NoElements DEF Boxes!Init, Queued, Looping, Shown
<1>3. \A t \in Threads : waits[t] = 0
  BY DEF Boxes!Init
<1>4. Distinct(events)
  BY DEF Boxes!Init, Distinct
<1>5. startup.error = {}
  BY DEF Boxes!Init
<1>6. IdsAreCalls /\ OneDialogIsShown /\ WaitsForAnswers /\ InitializationEndsOnce
  BY <1>2, <1>3, <1>5 DEF IdsAreCalls, OneDialogIsShown, WaitsForAnswers, InitializationEndsOnce
<1>7. WaitsAreHeld /\ LoopsHaveDialogs /\ FirstIsShown /\ WarningsAreKept
  BY <1>2, <1>3 DEF WaitsAreHeld, LoopsHaveDialogs, FirstIsShown, WarningsAreKept
<1> QED BY <1>1, <1>4, <1>6, <1>7 DEF BoxesInv

(***************************************************************************)
(* The steps of the dialogs                                                *)
(***************************************************************************)
LEMMA TextsOfOne ==
  ASSUME NEW c, NEW S, NEW k \in S
  PROVE  c[k].texts \subseteq UNION {c[j].texts : j \in S}
  OBVIOUS

\* Warnings stay kept while the calls stay and dialogs are only added.
LEMMA KeptGrows ==
  ASSUME \A k \in Shown : calls'[k] = calls[k], Shown \subseteq Shown',
         startup.warnings \cup startup.error \subseteq Kept'
  PROVE  Kept \subseteq Kept'
<1>1. UNION {calls[k].texts : k \in Shown} \subseteq UNION {calls'[k].texts : k \in Shown'}
  BY DEF Shown
<1> QED BY <1>1 DEF Kept

LEMMA CallStep ==
  ASSUME BoxesInv, NEW t \in Threads, NEW call \in Styles, Boxes!CallFromThread(t, call)
  PROVE  BoxesInv'
<1> DEFINE n == Len(calls) + 1
<1>0. BoxesTypeOK /\ IdsAreCalls /\ Len(calls) \in Nat /\ n \in Nat /\ n > Len(calls)
  BY DEF BoxesInv, BoxesTypeOK
<1>1. /\ calls' \in Seq(CallType) /\ Len(calls') = n /\ calls'[n] = call
      /\ \A k \in 1..Len(calls) : calls'[k] = calls[k]
  <2>1. calls' = Append(calls, call) /\ calls \in Seq(CallType) /\ call \in CallType
    BY <1>0 DEF Boxes!CallFromThread, BoxesTypeOK, CallType
  <2> QED BY <2>1, AppendEntries
<1>2. events' \in Seq(Nat) /\ Queued' = Queued \cup {n}
  <2>1. events' = Append(events, n)
    BY DEF Boxes!CallFromThread
  <2>2. Append(events, n) \in Seq(Nat) /\ Boxes!ToSet(Append(events, n)) = Boxes!ToSet(events) \cup {n}
    BY <1>0, AppendElements DEF BoxesTypeOK
  <2> QED BY <2>1, <2>2 DEF Queued
<1>3. /\ waits' \in [Threads -> Nat]
      /\ waits'[t] = IF Boxes!Blocking(call) THEN n ELSE 0
      /\ \A u \in Threads : u # t => waits'[u] = waits[u]
  BY <1>0 DEF Boxes!CallFromThread, BoxesTypeOK
<1>4. /\ loops' = loops /\ active' = active /\ dialogs' = dialogs /\ startup' = startup
      /\ answers' = answers /\ Looping' = Looping /\ Shown' = Shown
  BY DEF Boxes!CallFromThread, Looping, Shown
<1>5. n \notin Queued /\ n \notin Looping /\ n # 0
  BY <1>0 DEF IdsAreCalls
<1>6. BoxesTypeOK'
  BY <1>0, <1>1, <1>2, <1>3, <1>4 DEF BoxesTypeOK
<1>7. IdsAreCalls'
  <2>1. \A u \in Threads : waits'[u] <= Len(calls')
    <3> TAKE u \in Threads
    <3>1. waits[u] \in Nat /\ waits[u] <= Len(calls)
      BY <1>0 DEF IdsAreCalls, BoxesTypeOK
    <3>2. waits'[u] \in {n, 0, waits[u]}
      BY <1>3
    <3> QED BY <3>1, <3>2, <1>0, <1>1
  <2>2. Queued' \subseteq 0..Len(calls')
    <3>1. Queued \subseteq 0..n /\ n \in 0..n
      BY <1>0 DEF IdsAreCalls
    <3> QED BY <3>1, <1>1, <1>2
  <2>3. Looping' \subseteq 1..Len(calls') /\ Shown' \subseteq 1..Len(calls')
    BY <1>0, <1>1, <1>4 DEF IdsAreCalls
  <2> QED BY <2>1, <2>2, <2>3 DEF IdsAreCalls
<1>8. Distinct(events')
  <2>1. events' = Append(events, n)
    BY DEF Boxes!CallFromThread
  <2> QED BY <2>1, <1>0, <1>5, AppendDistinct DEF BoxesInv, BoxesTypeOK, Queued
<1>9. OneDialogIsShown' /\ LoopsHaveDialogs' /\ FirstIsShown'
  BY <1>4 DEF BoxesInv, OneDialogIsShown, LoopsHaveDialogs, FirstIsShown
<1>10. WaitsForAnswers'
  <2> SUFFICES ASSUME NEW u \in Threads, waits'[u] # 0 PROVE Boxes!Blocking(calls'[waits'[u]])
    BY DEF WaitsForAnswers
  <2>1. CASE u = t
    BY <2>1, <1>1, <1>3
  <2>2. CASE u # t
    <3>1. waits[u] \in 1..Len(calls) /\ waits'[u] = waits[u]
      BY <2>2, <1>0, <1>3 DEF IdsAreCalls, BoxesTypeOK
    <3> QED BY <3>1, <1>1 DEF BoxesInv, WaitsForAnswers
  <2> QED BY <2>1, <2>2
<1>11. InitializationEndsOnce'
  BY <1>2, <1>4, <1>5 DEF BoxesInv, InitializationEndsOnce
<1>12. WaitsAreHeld'
  <2> SUFFICES ASSUME NEW u \in Threads, waits'[u] # 0
               PROVE  (waits'[u] \in Queued') # (waits'[u] \in Looping')
    BY DEF WaitsAreHeld
  <2>1. CASE u = t
    BY <2>1, <1>2, <1>3, <1>4, <1>5
  <2>2. CASE u # t
    <3>1. waits[u] <= Len(calls) /\ waits[u] \in Nat /\ waits'[u] = waits[u]
      BY <2>2, <1>0, <1>3 DEF IdsAreCalls, BoxesTypeOK
    <3>2. waits[u] # n
      BY <3>1, <1>0
    <3> QED BY <3>1, <3>2, <1>2, <1>4 DEF BoxesInv, WaitsAreHeld
  <2> QED BY <2>1, <2>2
<1>13. WarningsAreKept'
  <2>1. Kept \subseteq Kept'
    <3>1. \A k \in Shown : calls'[k] = calls[k]
      BY <1>0, <1>1 DEF IdsAreCalls
    <3>2. startup.warnings \cup startup.error \subseteq Kept'
      BY <1>4 DEF Kept
    <3> QED BY <3>1, <3>2, <1>4, KeptGrows
  <2>2. SUFFICES ASSUME ~startup.shutdown, NEW i \in 1..Len(calls'), calls'[i].icon = "warning", i \notin Queued'
                 PROVE  calls'[i].texts \subseteq Kept'
    BY <1>4 DEF WarningsAreKept
  <2>3. i \in 1..Len(calls)
    <3>1. i # n /\ i \in 1..n
      BY <2>2, <1>1, <1>2
    <3> QED BY <3>1, <1>0
  <2> QED BY <2>1, <2>2, <2>3, <1>1, <1>2 DEF BoxesInv, WarningsAreKept
<1> QED BY <1>6, <1>7, <1>8, <1>9, <1>10, <1>11, <1>12, <1>13 DEF BoxesInv

LEMMA CallTexts ==
  ASSUME BoxesTypeOK, NEW i \in 1..Len(calls)
  PROVE  calls[i] \in CallType /\ (calls[i].icon = "warning" => calls[i].texts \subseteq AllTexts)
<1>1. calls[i] \in CallType
  BY DEF BoxesTypeOK
<1>2. ASSUME calls[i] \in Styles PROVE calls[i].texts \subseteq AllTexts
  BY <1>2 DEF AllTexts
<1> QED BY <1>1, <1>2 DEF CallType

LEMMA ReleaseFacts ==
  ASSUME BoxesTypeOK, NEW i, Boxes!Release(i)
  PROVE  /\ waits' \in [Threads -> Nat]
         /\ \A u \in Threads : waits'[u] = IF waits[u] = i THEN 0 ELSE waits[u]
  BY DEF BoxesTypeOK, Boxes!Release

LEMMA InitializeEndsStep ==
  ASSUME BoxesInv, NEW success, Boxes!InitializeEnds(success)
  PROVE  BoxesInv'
<1>0. BoxesTypeOK /\ IdsAreCalls /\ Len(calls) \in Nat /\ startup.init = "running"
  BY DEF BoxesInv, BoxesTypeOK, Boxes!InitializeEnds
<1>1. /\ calls' = calls /\ waits' = waits /\ loops' = loops /\ active' = active /\ dialogs' = dialogs
      /\ answers' = answers /\ Looping' = Looping /\ Shown' = Shown
  BY DEF Boxes!InitializeEnds, Looping, Shown
<1>2. events' = Append(events, 0)
  BY DEF Boxes!InitializeEnds
<1>3. events' \in Seq(Nat) /\ Queued' = Queued \cup {0} /\ 0 \notin Queued /\ Distinct(events')
  <2>1. events \in Seq(Nat) /\ 0 \notin Queued /\ Distinct(events)
    BY <1>0 DEF BoxesInv, BoxesTypeOK, InitializationEndsOnce
  <2>2. Append(events, 0) \in Seq(Nat) /\ Boxes!ToSet(Append(events, 0)) = Boxes!ToSet(events) \cup {0}
    BY <2>1, AppendElements
  <2>3. Distinct(Append(events, 0))
    BY <2>1, AppendDistinct DEF Queued
  <2> QED BY <1>2, <2>1, <2>2, <2>3 DEF Queued
<1>4. /\ startup' \in StartupType /\ startup'.init # "running"
      /\ startup'.error = startup.error /\ startup'.warnings = startup.warnings
      /\ startup'.shutdown = startup.shutdown
  <2>1. PICK end \in {"ok", "failed"} : startup' = [startup EXCEPT !.init = end]
    BY DEF Boxes!InitializeEnds
  <2> QED BY <2>1, <1>0 DEF BoxesTypeOK, StartupType
<1>5. startup.error = {}
  BY <1>0 DEF BoxesInv, InitializationEndsOnce
<1>6. BoxesTypeOK' /\ IdsAreCalls'
  BY <1>0, <1>1, <1>3, <1>4 DEF BoxesTypeOK, IdsAreCalls
<1>7. OneDialogIsShown' /\ WaitsForAnswers' /\ LoopsHaveDialogs' /\ FirstIsShown' /\ InitializationEndsOnce'
  BY <1>1, <1>4, <1>5 DEF BoxesInv, OneDialogIsShown, WaitsForAnswers, LoopsHaveDialogs, FirstIsShown,
                          InitializationEndsOnce
<1>8. WaitsAreHeld'
  BY <1>1, <1>3 DEF BoxesInv, WaitsAreHeld
<1>9. WarningsAreKept'
  BY <1>1, <1>3, <1>4 DEF BoxesInv, WarningsAreKept, Kept
<1> QED BY <1>3, <1>6, <1>7, <1>8, <1>9 DEF BoxesInv

LEMMA LoopReturnsStep ==
  ASSUME BoxesInv, Boxes!LoopReturns
  PROVE  BoxesInv'
<1> DEFINE i == Boxes!Last(loops)
<1>0. BoxesTypeOK /\ IdsAreCalls /\ loops \in Seq(Nat) /\ loops # << >>
  BY DEF BoxesInv, BoxesTypeOK, Boxes!LoopReturns
<1>1. /\ calls' = calls /\ events' = events /\ active' = active /\ dialogs' = dialogs /\ answers' = answers
      /\ startup' = startup /\ Queued' = Queued /\ Shown' = Shown /\ Kept' = Kept
  BY DEF Boxes!LoopReturns, Queued, Shown, Kept
<1>2. loops' \in Seq(Nat) /\ Looping = Looping' \cup {i}
  <2>1. loops' = Boxes!Front(loops)
    BY DEF Boxes!LoopReturns
  <2> QED BY <2>1, <1>0, FrontElements DEF Looping
<1>3. /\ waits' \in [Threads -> Nat]
      /\ \A u \in Threads : waits'[u] = IF waits[u] = i THEN 0 ELSE waits[u]
  BY <1>0, ReleaseFacts DEF Boxes!LoopReturns
<1>4. BoxesTypeOK'
  BY <1>0, <1>1, <1>2, <1>3 DEF BoxesTypeOK
<1>5. IdsAreCalls'
  <2>1. \A u \in Threads : waits'[u] <= Len(calls')
    <3> TAKE u \in Threads
    <3>1. waits[u] \in Nat /\ waits[u] <= Len(calls) /\ waits'[u] \in {0, waits[u]} /\ Len(calls) \in Nat
      BY <1>0, <1>3 DEF IdsAreCalls, BoxesTypeOK
    <3> QED BY <3>1, <1>1
  <2> QED BY <2>1, <1>0, <1>1, <1>2 DEF IdsAreCalls
<1>6. Distinct(events') /\ OneDialogIsShown' /\ InitializationEndsOnce' /\ LoopsHaveDialogs' /\ FirstIsShown'
      /\ WarningsAreKept'
  BY <1>1, <1>2 DEF BoxesInv, Distinct, OneDialogIsShown, InitializationEndsOnce, LoopsHaveDialogs, FirstIsShown,
                    WarningsAreKept
<1>7. WaitsForAnswers' /\ WaitsAreHeld'
  BY <1>1, <1>2, <1>3 DEF BoxesInv, WaitsForAnswers, WaitsAreHeld
<1> QED BY <1>4, <1>5, <1>6, <1>7 DEF BoxesInv

\* The oldest waiting dialog is the next one shown.
LEMMA NextDialogFacts ==
  ASSUME BoxesInv, Boxes!NextDialog
  PROVE  /\ dialogs' \in Seq(Nat)
         /\ active' \cup Boxes!ToSet(dialogs') = Boxes!ToSet(dialogs)
         /\ OneDialogIsShown' /\ FirstIsShown'
<1>0. dialogs \in Seq(Nat)
  BY DEF BoxesInv, BoxesTypeOK
<1>1. CASE dialogs = << >>
  <2>1. active' = {} /\ dialogs' = << >>
    BY <1>1 DEF Boxes!NextDialog
  <2> QED BY <2>1, <1>0, <1>1, NoElements DEF OneDialogIsShown, FirstIsShown
<1>2. CASE dialogs # << >>
  <2>1. active' = {Head(dialogs)} /\ dialogs' = Tail(dialogs)
    BY <1>2 DEF Boxes!NextDialog
  <2>2. Tail(dialogs) \in Seq(Nat)
        /\ Boxes!ToSet(dialogs) = {Head(dialogs)} \cup Boxes!ToSet(Tail(dialogs))
    BY <1>0, <1>2, TailElements
  <2> QED BY <2>1, <2>2 DEF OneDialogIsShown, FirstIsShown
<1> QED BY <1>1, <1>2

LEMMA AnswerStep ==
  ASSUME BoxesInv, NEW ok, Boxes!AnswerRuntimeDialog(ok)
  PROVE  BoxesInv'
<1>0. BoxesTypeOK /\ IdsAreCalls
  BY DEF BoxesInv
<1>1. /\ calls' = calls /\ waits' = waits /\ events' = events /\ loops' = loops /\ startup' = startup
      /\ Queued' = Queued /\ Looping' = Looping
  BY DEF Boxes!AnswerRuntimeDialog, Queued, Looping
<1>2. DOMAIN answers' = active \cup DOMAIN answers
  BY DEF Boxes!AnswerRuntimeDialog, Boxes!Answer
<1>3. /\ dialogs' \in Seq(Nat) /\ active' \cup Boxes!ToSet(dialogs') = Boxes!ToSet(dialogs)
      /\ OneDialogIsShown' /\ FirstIsShown'
  BY NextDialogFacts DEF Boxes!AnswerRuntimeDialog
<1>4. Shown' = Shown
  BY <1>2, <1>3 DEF Shown
<1>5. BoxesTypeOK' /\ IdsAreCalls' /\ Distinct(events')
  BY <1>0, <1>1, <1>3, <1>4 DEF BoxesInv, BoxesTypeOK, IdsAreCalls
<1>6. WaitsForAnswers' /\ InitializationEndsOnce' /\ WaitsAreHeld' /\ LoopsHaveDialogs'
  BY <1>1, <1>4 DEF BoxesInv, WaitsForAnswers, InitializationEndsOnce, WaitsAreHeld, LoopsHaveDialogs
<1>7. WarningsAreKept'
  BY <1>1, <1>4 DEF BoxesInv, WarningsAreKept, Kept
<1> QED BY <1>3, <1>5, <1>6, <1>7 DEF BoxesInv

\* After a shutdown every dialog that was shown or waited is answered.
LEMMA CancelFacts ==
  ASSUME BoxesInv, Boxes!CancelDialogs
  PROVE  Shown' = Shown /\ active' = {} /\ dialogs' = << >> /\ dialogs' \in Seq(Nat)
<1>1. active' = {} /\ dialogs' = << >> /\ DOMAIN answers' = active \cup Boxes!ToSet(dialogs) \cup DOMAIN answers
  BY DEF Boxes!CancelDialogs, Boxes!Answer
<1> QED BY <1>1, NoElements DEF Shown

LEMMA RequestShutdownStep ==
  ASSUME BoxesInv, Boxes!RequestShutdown
  PROVE  BoxesInv'
<1>0. BoxesTypeOK /\ IdsAreCalls
  BY DEF BoxesInv
<1>1. /\ calls' = calls /\ waits' = waits /\ events' = events /\ loops' = loops
      /\ Queued' = Queued /\ Looping' = Looping
  BY DEF Boxes!RequestShutdown, Queued, Looping
<1>2. Shown' = Shown /\ active' = {} /\ dialogs' = << >> /\ dialogs' \in Seq(Nat)
  BY CancelFacts DEF Boxes!RequestShutdown
<1>3. /\ startup' \in StartupType /\ startup'.init = startup.init /\ startup'.error = startup.error
      /\ startup'.shutdown
  BY <1>0 DEF Boxes!RequestShutdown, BoxesTypeOK, StartupType
<1>4. BoxesTypeOK' /\ IdsAreCalls' /\ Distinct(events')
  BY <1>0, <1>1, <1>2, <1>3 DEF BoxesInv, BoxesTypeOK, IdsAreCalls
<1>5. OneDialogIsShown' /\ FirstIsShown' /\ WarningsAreKept'
  BY <1>2, <1>3 DEF OneDialogIsShown, FirstIsShown, WarningsAreKept
<1>6. WaitsForAnswers' /\ InitializationEndsOnce' /\ WaitsAreHeld' /\ LoopsHaveDialogs'
  BY <1>1, <1>2, <1>3 DEF BoxesInv, WaitsForAnswers, InitializationEndsOnce, WaitsAreHeld, LoopsHaveDialogs
<1> QED BY <1>4, <1>5, <1>6 DEF BoxesInv

\* A dialog asked for is shown at once, or after those that wait.
LEMMA ShowRequestFacts ==
  ASSUME BoxesInv, NEW i \in Nat, Boxes!ShowRequest(i), answers' = answers
  PROVE  dialogs' \in Seq(Nat) /\ Shown' = Shown \cup {i} /\ OneDialogIsShown' /\ FirstIsShown'
<1>0. dialogs \in Seq(Nat)
  BY DEF BoxesInv, BoxesTypeOK
<1>1. CASE active = {}
  <2>1. active' = {i} /\ dialogs' = dialogs
    BY <1>1 DEF Boxes!ShowRequest
  <2> QED BY <2>1, <1>0, <1>1 DEF Shown, OneDialogIsShown, FirstIsShown
<1>2. CASE active # {}
  <2>1. active' = active /\ dialogs' = Append(dialogs, i)
    BY <1>2 DEF Boxes!ShowRequest
  <2>2. dialogs' \in Seq(Nat) /\ Boxes!ToSet(dialogs') = Boxes!ToSet(dialogs) \cup {i}
    BY <2>1, <1>0, AppendElements
  <2> QED BY <2>1, <2>2, <1>2 DEF BoxesInv, Shown, OneDialogIsShown, FirstIsShown
<1> QED BY <1>1, <1>2

LEMMA HeadOfQueue ==
  ASSUME BoxesInv, events # << >>, events' = Tail(events)
  PROVE  /\ events' \in Seq(Nat) /\ Distinct(events') /\ Head(events) \in 0..Len(calls)
         /\ Queued = Queued' \cup {Head(events)} /\ Head(events) \notin Queued'
<1>1. events \in Seq(Nat) /\ Distinct(events) /\ Queued \subseteq 0..Len(calls)
  BY DEF BoxesInv, BoxesTypeOK, IdsAreCalls
<1>2. /\ Tail(events) \in Seq(Nat) /\ Boxes!ToSet(events) = {Head(events)} \cup Boxes!ToSet(Tail(events))
      /\ Distinct(Tail(events)) /\ Head(events) \notin Boxes!ToSet(Tail(events))
  BY <1>1, TailElements
<1> QED BY <1>1, <1>2 DEF Queued

\* The call is kept for later or dropped: its thread goes on.
LEMMA ReleasedStep ==
  ASSUME BoxesInv, events # << >>, Head(events) # 0, events' = Tail(events),
         Boxes!Release(Head(events)), calls' = calls,
         UNCHANGED <<loops, active, dialogs, answers>>,
         startup' \in StartupType, startup'.init = startup.init, startup'.error = startup.error,
         startup'.shutdown = startup.shutdown, startup.warnings \subseteq startup'.warnings,
         startup.shutdown \/ (calls[Head(events)].icon = "warning" =>
            calls[Head(events)].texts \subseteq startup'.warnings)
  PROVE  BoxesInv'
<1> DEFINE i == Head(events)
<1>0. BoxesTypeOK /\ IdsAreCalls /\ Len(calls) \in Nat
  BY DEF BoxesInv, BoxesTypeOK
<1>1. /\ events' \in Seq(Nat) /\ Distinct(events') /\ i \in 0..Len(calls)
      /\ Queued = Queued' \cup {i} /\ i \notin Queued'
  BY HeadOfQueue
<1>2. /\ waits' \in [Threads -> Nat]
      /\ \A u \in Threads : waits'[u] = IF waits[u] = i THEN 0 ELSE waits[u]
  BY <1>0, ReleaseFacts
<1>3. Looping' = Looping /\ Shown' = Shown
  BY DEF Looping, Shown
<1>4. BoxesTypeOK'
  BY <1>0, <1>1, <1>2 DEF BoxesTypeOK
<1>5. IdsAreCalls'
  <2>1. \A u \in Threads : waits'[u] <= Len(calls')
    <3> TAKE u \in Threads
    <3>1. waits[u] \in Nat /\ waits[u] <= Len(calls) /\ waits'[u] \in {0, waits[u]}
      BY <1>0, <1>2 DEF IdsAreCalls, BoxesTypeOK
    <3> QED BY <3>1, <1>0
  <2> QED BY <2>1, <1>0, <1>1, <1>3 DEF IdsAreCalls
<1>6. OneDialogIsShown' /\ InitializationEndsOnce' /\ LoopsHaveDialogs' /\ FirstIsShown'
  BY <1>1, <1>3 DEF BoxesInv, OneDialogIsShown, InitializationEndsOnce, LoopsHaveDialogs, FirstIsShown
<1>7. WaitsForAnswers' /\ WaitsAreHeld'
  BY <1>1, <1>2, <1>3 DEF BoxesInv, WaitsForAnswers, WaitsAreHeld
<1>8. WarningsAreKept'
  <2>1. Kept \subseteq Kept' /\ startup'.warnings \subseteq Kept'
    BY <1>3 DEF Kept
  <2>2. SUFFICES ASSUME ~startup.shutdown, NEW k \in 1..Len(calls), calls[k].icon = "warning", k \notin Queued'
                 PROVE  calls[k].texts \subseteq Kept'
    BY DEF WarningsAreKept
  <2>3. CASE k = i
    BY <2>1, <2>2, <2>3
  <2>4. CASE k # i
    BY <2>1, <2>2, <2>4, <1>1 DEF BoxesInv, WarningsAreKept
  <2> QED BY <2>3, <2>4
<1> QED BY <1>1, <1>4, <1>5, <1>6, <1>7, <1>8 DEF BoxesInv

\* The call's dialog is shown or waits, and its thread if the call blocks.
LEMMA ShownStep ==
  ASSUME BoxesInv, events # << >>, Head(events) # 0, events' = Tail(events),
         Boxes!ShowRequest(Head(events)), calls' = calls, waits' = waits, answers' = answers,
         loops' = IF Boxes!Blocking(calls[Head(events)]) THEN Append(loops, Head(events)) ELSE loops,
         startup' \in StartupType, startup'.init = startup.init, startup'.error = startup.error,
         startup'.shutdown = startup.shutdown, startup'.warnings = startup.warnings
  PROVE  BoxesInv'
<1> DEFINE i == Head(events)
<1>0. BoxesTypeOK /\ IdsAreCalls /\ Len(calls) \in Nat
  BY DEF BoxesInv, BoxesTypeOK
<1>1. /\ events' \in Seq(Nat) /\ Distinct(events') /\ i \in 1..Len(calls) /\ i \in Nat
      /\ Queued = Queued' \cup {i} /\ i \notin Queued'
  BY HeadOfQueue, <1>0
<1>2. dialogs' \in Seq(Nat) /\ Shown' = Shown \cup {i} /\ OneDialogIsShown' /\ FirstIsShown'
  BY <1>1, ShowRequestFacts
<1>3. /\ loops' \in Seq(Nat) /\ Looping \subseteq Looping' /\ Looping' \subseteq Looping \cup {i}
      /\ Boxes!Blocking(calls[i]) => i \in Looping'
  <2>1. loops \in Seq(Nat)
    BY <1>0 DEF BoxesTypeOK
  <2>2. CASE Boxes!Blocking(calls[i])
    <3>1. loops' = Append(loops, i)
      BY <2>2
    <3>2. Append(loops, i) \in Seq(Nat) /\ Boxes!ToSet(Append(loops, i)) = Boxes!ToSet(loops) \cup {i}
      BY <2>1, <1>1, AppendElements
    <3> QED BY <3>1, <3>2 DEF Looping
  <2>3. CASE ~Boxes!Blocking(calls[i])
    BY <2>1, <2>3 DEF Looping
  <2> QED BY <2>2, <2>3
<1>4. BoxesTypeOK'
  BY <1>0, <1>1, <1>2, <1>3 DEF BoxesTypeOK
<1>5. IdsAreCalls'
  BY <1>0, <1>1, <1>2, <1>3 DEF IdsAreCalls
<1>6. WaitsForAnswers' /\ InitializationEndsOnce' /\ LoopsHaveDialogs'
  BY <1>1, <1>2, <1>3 DEF BoxesInv, WaitsForAnswers, InitializationEndsOnce, LoopsHaveDialogs
<1>7. WaitsAreHeld'
  <2> SUFFICES ASSUME NEW u \in Threads, waits[u] # 0
               PROVE  (waits[u] \in Queued') # (waits[u] \in Looping')
    BY DEF WaitsAreHeld
  <2>1. CASE waits[u] = i
    BY <2>1, <1>1, <1>3 DEF BoxesInv, WaitsForAnswers
  <2>2. CASE waits[u] # i
    BY <2>2, <1>1, <1>3 DEF BoxesInv, WaitsAreHeld
  <2> QED BY <2>1, <2>2
<1>8. WarningsAreKept'
  <2>1. startup.warnings \cup startup.error \subseteq Kept'
    BY DEF Kept
  <2>2. Kept \subseteq Kept'
    BY <2>1, <1>2, KeptGrows
  <2>3. calls[i].texts \subseteq Kept'
    <3>1. calls'[i].texts \subseteq UNION {calls'[j].texts : j \in Shown'}
      BY <1>2, TextsOfOne
    <3> QED BY <3>1 DEF Kept
  <2>4. SUFFICES ASSUME ~startup.shutdown, NEW k \in 1..Len(calls), calls[k].icon = "warning", k \notin Queued'
                 PROVE  calls[k].texts \subseteq Kept'
    BY DEF WarningsAreKept
  <2>5. CASE k = i
    BY <2>3, <2>5
  <2>6. CASE k # i
    BY <2>2, <2>4, <2>6, <1>1 DEF BoxesInv, WarningsAreKept
  <2> QED BY <2>5, <2>6
<1> QED BY <1>1, <1>2, <1>4, <1>5, <1>6, <1>7, <1>8 DEF BoxesInv

LEMMA HandleCallStep ==
  ASSUME BoxesInv, Boxes!HandleCall
  PROVE  BoxesInv'
<1> DEFINE i == Head(events)
           call == calls[i]
<1>0. BoxesTypeOK /\ startup \in StartupType /\ Len(calls) \in Nat
  BY DEF BoxesInv, BoxesTypeOK
<1>1. /\ events # << >> /\ i # 0 /\ events' = Tail(events) /\ calls' = calls /\ answers' = answers
      /\ Boxes!ShowRuntimeDialogOnGuiThread(i)
  BY DEF Boxes!HandleCall
<1>2. i \in 1..Len(calls)
  <2>1. i \in 0..Len(calls)
    BY <1>1, HeadOfQueue
  <2> QED BY <2>1, <1>0, <1>1
<1>3. CASE startup.shutdown
  <2>1. Boxes!Release(i) /\ UNCHANGED <<loops, active, dialogs, startup>>
    BY <1>1, <1>3 DEF Boxes!ShowRuntimeDialogOnGuiThread
  <2> QED BY <2>1, <1>0, <1>1, <1>3, ReleasedStep
<1>4. CASE ~startup.shutdown /\ Boxes!Recorded(call)
  <2>1. Boxes!Release(i) /\ Boxes!Record(call) /\ UNCHANGED <<loops, active, dialogs>>
    BY <1>1, <1>4 DEF Boxes!ShowRuntimeDialogOnGuiThread
  <2>2. call.icon = "warning" => call.texts \subseteq AllTexts
    BY <1>0, <1>2, CallTexts
  <2>3. /\ startup' \in StartupType /\ startup'.init = startup.init /\ startup'.error = startup.error
        /\ startup'.shutdown = startup.shutdown /\ startup.warnings \subseteq startup'.warnings
        /\ call.icon = "warning" => call.texts \subseteq startup'.warnings
    <3>1. CASE call.icon = "warning"
      <4>1. startup' = [startup EXCEPT !.warnings = startup.warnings \cup call.texts]
        BY <2>1, <3>1 DEF Boxes!Record
      <4> HIDE DEF call
      <4>2. startup.warnings \cup call.texts \in SUBSET AllTexts
        BY <2>2, <3>1, <1>0 DEF StartupType
      <4> QED BY <4>1, <4>2, <1>0 DEF StartupType
    <3>2. CASE call.icon = "error"
      <4>1. startup' = [startup EXCEPT !.errors = startup.errors \cup call.texts]
        BY <2>1, <3>2 DEF Boxes!Record
      <4>2. call \in Styles
        BY <3>2, <1>0, <1>2, CallTexts DEF CallType
      <4>3. call.texts \subseteq AllTexts
        BY <4>2 DEF AllTexts
      <4> HIDE DEF call
      <4>4. startup.errors \cup call.texts \in SUBSET AllTexts
        BY <4>3, <1>0 DEF StartupType
      <4> QED BY <4>1, <4>4, <1>0, <3>2 DEF StartupType
    <3>3. CASE call.icon # "warning" /\ call.icon # "error"
      BY <2>1, <3>3, <1>0 DEF Boxes!Record
    <3> QED BY <3>1, <3>2, <3>3
  <2> QED BY <2>1, <2>3, <1>1, ReleasedStep
<1>5. CASE ~startup.shutdown /\ ~Boxes!Recorded(call)
  <2>1. /\ Boxes!ShowRequest(i) /\ waits' = waits
        /\ loops' = IF Boxes!Blocking(call) THEN Append(loops, i) ELSE loops
        /\ startup' = [startup EXCEPT !.failureShown =
                         startup.failureShown \/ (~startup.enabled /\ (call.question \/ call.icon = "error"))]
    BY <1>1, <1>5 DEF Boxes!ShowRuntimeDialogOnGuiThread
  <2>2. PICK shown \in BOOLEAN : startup' = [startup EXCEPT !.failureShown = shown]
    BY <2>1
  <2>3. /\ startup' \in StartupType /\ startup'.init = startup.init /\ startup'.error = startup.error
        /\ startup'.shutdown = startup.shutdown /\ startup'.warnings = startup.warnings
    BY <2>2, <1>0 DEF StartupType
  <2> QED BY <2>1, <2>3, <1>1, ShownStep
<1> QED BY <1>3, <1>4, <1>5

\* The result of the initialization is the last of its events.
LEMMA ResultHandled ==
  ASSUME BoxesInv, Boxes!InitializeResult
  PROVE  /\ events' \in Seq(Nat) /\ Distinct(events') /\ waits' = waits /\ loops' = loops
         /\ Queued = Queued' \cup {0} /\ 0 \notin Queued' /\ Looping' = Looping
         /\ startup.init # "running" /\ startup.error = {}
<1>1. /\ events # << >> /\ Head(events) = 0 /\ events' = Tail(events)
      /\ waits' = waits /\ loops' = loops
  BY DEF Boxes!InitializeResult
<1>2. events' \in Seq(Nat) /\ Distinct(events') /\ Queued = Queued' \cup {0} /\ 0 \notin Queued'
  BY <1>1, HeadOfQueue
<1>3. startup.init # "running" /\ startup.error = {}
  BY <1>2 DEF BoxesInv, InitializationEndsOnce
<1> QED BY <1>1, <1>2, <1>3 DEF Looping

\* Without a new call, what is left to show is that the warnings stay kept.
LEMMA ResultStep ==
  ASSUME BoxesInv, Boxes!InitializeResult, calls' = calls, Shown' = Shown,
         dialogs' \in Seq(Nat), OneDialogIsShown', FirstIsShown',
         startup' \in StartupType, startup'.init = startup.init,
         startup'.shutdown \/ (~startup.shutdown /\ Kept \subseteq Kept')
  PROVE  BoxesInv'
<1>0. BoxesTypeOK /\ IdsAreCalls
  BY DEF BoxesInv
<1>1. /\ events' \in Seq(Nat) /\ Distinct(events') /\ waits' = waits /\ loops' = loops
      /\ Queued = Queued' \cup {0} /\ 0 \notin Queued' /\ Looping' = Looping
      /\ startup.init # "running"
  BY ResultHandled
<1>2. BoxesTypeOK' /\ IdsAreCalls'
  BY <1>0, <1>1 DEF BoxesTypeOK, IdsAreCalls
<1>3. WaitsForAnswers' /\ InitializationEndsOnce' /\ WaitsAreHeld' /\ LoopsHaveDialogs'
  BY <1>1 DEF BoxesInv, WaitsForAnswers, InitializationEndsOnce, WaitsAreHeld, LoopsHaveDialogs
<1>4. WarningsAreKept'
  <2>1. SUFFICES ASSUME ~startup.shutdown, Kept \subseteq Kept',
                        NEW i \in 1..Len(calls), calls[i].icon = "warning", i \notin Queued'
                 PROVE  calls[i].texts \subseteq Kept'
    BY DEF WarningsAreKept
  <2>2. i \notin Queued
    <3>1. i # 0
      BY <1>0 DEF BoxesTypeOK
    <3> QED BY <3>1, <2>1, <1>1
  <2> QED BY <2>1, <2>2 DEF BoxesInv, WarningsAreKept
<1> QED BY <1>1, <1>2, <1>3, <1>4 DEF BoxesInv

\* The dialog of the startup warnings is a call of the GUI's own.
LEMMA StartupWarningsStep ==
  ASSUME BoxesInv, Boxes!InitializeResult, ~startup.shutdown,
         calls' = Append(calls, [texts |-> startup.warnings, icon |-> "warning", modal |-> FALSE, question |-> FALSE]),
         Boxes!ShowRequest(Len(calls) + 1), answers' = answers,
         startup' \in StartupType, startup'.init = startup.init
  PROVE  BoxesInv'
<1> DEFINE n == Len(calls) + 1
           call == [texts |-> startup.warnings, icon |-> "warning", modal |-> FALSE, question |-> FALSE]
<1>0. BoxesTypeOK /\ IdsAreCalls /\ Len(calls) \in Nat /\ n \in Nat /\ n > Len(calls)
  BY DEF BoxesInv, BoxesTypeOK
<1>1. /\ events' \in Seq(Nat) /\ Distinct(events') /\ waits' = waits /\ loops' = loops
      /\ Queued = Queued' \cup {0} /\ 0 \notin Queued' /\ Looping' = Looping
      /\ startup.init # "running" /\ startup.error = {}
  BY ResultHandled
<1>2. /\ calls' \in Seq(CallType) /\ Len(calls') = n /\ calls'[n] = call
      /\ \A k \in 1..Len(calls) : calls'[k] = calls[k]
  <2>1. call \in CallType /\ calls \in Seq(CallType)
    BY <1>0 DEF BoxesTypeOK, StartupType, CallType
  <2> QED BY <2>1, AppendEntries
<1>3. call.texts = startup.warnings
  OBVIOUS
<1> HIDE DEF call
<1>4. dialogs' \in Seq(Nat) /\ Shown' = Shown \cup {n} /\ OneDialogIsShown' /\ FirstIsShown'
  BY <1>0, ShowRequestFacts
<1>5. BoxesTypeOK'
  BY <1>0, <1>1, <1>2, <1>4 DEF BoxesTypeOK
<1>6. IdsAreCalls'
  <2>1. 1..Len(calls) \subseteq 1..n /\ 0..Len(calls) \subseteq 0..n /\ n \in 1..n
    BY <1>0
  <2>2. \A t \in Threads : waits[t] <= n
    <3> TAKE t \in Threads
    <3>1. waits[t] \in Nat /\ waits[t] <= Len(calls)
      BY <1>0 DEF BoxesTypeOK, IdsAreCalls
    <3> QED BY <3>1, <1>0
  <2> QED BY <2>1, <2>2, <1>0, <1>1, <1>2, <1>4 DEF IdsAreCalls
<1>7. WaitsForAnswers'
  <2> SUFFICES ASSUME NEW t \in Threads, waits[t] # 0 PROVE Boxes!Blocking(calls'[waits[t]])
    BY <1>1 DEF WaitsForAnswers
  <2>1. waits[t] \in 1..Len(calls)
    BY <1>0 DEF BoxesTypeOK, IdsAreCalls
  <2> QED BY <2>1, <1>2 DEF BoxesInv, WaitsForAnswers
<1>8. InitializationEndsOnce' /\ WaitsAreHeld' /\ LoopsHaveDialogs'
  BY <1>1, <1>4 DEF BoxesInv, InitializationEndsOnce, WaitsAreHeld, LoopsHaveDialogs
<1>9. WarningsAreKept'
  <2>1. startup.warnings \subseteq Kept'
    <3>1. calls'[n].texts \subseteq UNION {calls'[k].texts : k \in Shown'}
      BY <1>4, TextsOfOne
    <3> QED BY <3>1, <1>2, <1>3 DEF Kept
  <2>2. Kept \subseteq Kept'
    <3>1. \A k \in Shown : calls'[k] = calls[k]
      BY <1>0, <1>2 DEF IdsAreCalls
    <3> QED BY <2>1, <3>1, <1>1, <1>4, KeptGrows
  <2>3. SUFFICES ASSUME NEW i \in 1..n, calls'[i].icon = "warning", i \notin Queued'
                 PROVE  calls'[i].texts \subseteq Kept'
    BY <1>2 DEF WarningsAreKept
  <2>4. CASE i = n
    BY <2>1, <2>4, <1>2, <1>3
  <2>5. CASE i # n
    <3>1. i \in 1..Len(calls) /\ i # 0
      BY <2>5, <1>0
    <3>2. i \notin Queued /\ calls'[i] = calls[i]
      BY <3>1, <2>3, <1>1, <1>2
    <3> QED BY <3>1, <3>2, <2>2, <2>3 DEF BoxesInv, WarningsAreKept
  <2> QED BY <2>4, <2>5
<1> QED BY <1>1, <1>4, <1>5, <1>6, <1>7, <1>8, <1>9 DEF BoxesInv

LEMMA InitializeResultStep ==
  ASSUME BoxesInv, Boxes!InitializeResult
  PROVE  BoxesInv'
<1>0. startup \in StartupType /\ dialogs \in Seq(Nat) /\ OneDialogIsShown /\ FirstIsShown
  BY DEF BoxesInv, BoxesTypeOK
<1>1. CASE startup.shutdown /\ UNCHANGED <<calls, active, dialogs, answers, startup>>
  <2>1. Shown' = Shown /\ OneDialogIsShown' /\ FirstIsShown'
    BY <1>0, <1>1 DEF Shown, OneDialogIsShown, FirstIsShown
  <2> QED BY <2>1, <1>0, <1>1, ResultStep
<1>2. CASE /\ ~startup.shutdown /\ startup.init = "ok"
           /\ startup' = [startup EXCEPT !.errors = {}, !.enabled = TRUE, !.warnings = {}]
           /\ Boxes!ShowStartupWarnings
           /\ UNCHANGED answers
  <2>1. /\ startup' \in StartupType /\ startup'.init = startup.init
        /\ startup'.error = startup.error /\ startup'.shutdown = startup.shutdown
    BY <1>0, <1>2 DEF StartupType
  <2>2. CASE startup.warnings = {}
    <3>1. UNCHANGED <<calls, active, dialogs>>
      BY <1>2, <2>2 DEF Boxes!ShowStartupWarnings
    <3>2. Shown' = Shown /\ OneDialogIsShown' /\ FirstIsShown'
      BY <1>0, <1>2, <3>1 DEF Shown, OneDialogIsShown, FirstIsShown
    <3>3. Kept \subseteq Kept'
      BY <2>1, <2>2, <3>1, <3>2 DEF Kept
    <3> QED BY <2>1, <3>1, <3>2, <3>3, <1>0, <1>2, ResultStep
  <2>3. CASE startup.warnings # {}
    <3>1. /\ calls' = Append(calls, [texts |-> startup.warnings, icon |-> "warning",
                                      modal |-> FALSE, question |-> FALSE])
          /\ Boxes!ShowRequest(Len(calls) + 1)
      BY <1>2, <2>3 DEF Boxes!ShowStartupWarnings
    <3> QED BY <2>1, <3>1, <1>2, StartupWarningsStep
  <2> QED BY <2>2, <2>3
<1>3. CASE /\ ~startup.shutdown /\ startup.init = "failed" /\ startup.failureShown
           /\ startup' = [startup EXCEPT !.shutdown = TRUE]
           /\ Boxes!CancelDialogs
           /\ UNCHANGED calls
  <2>1. startup' \in StartupType /\ startup'.init = startup.init /\ startup'.shutdown
    BY <1>0, <1>3 DEF StartupType
  <2>2. Shown' = Shown /\ dialogs' \in Seq(Nat) /\ active' = {} /\ dialogs' = << >>
    BY <1>3, CancelFacts
  <2>3. OneDialogIsShown' /\ FirstIsShown'
    BY <2>2 DEF OneDialogIsShown, FirstIsShown
  <2> QED BY <2>1, <2>2, <2>3, <1>3, ResultStep
<1>4. CASE /\ ~startup.shutdown /\ startup.init = "failed" /\ ~startup.failureShown
           /\ startup' = [startup EXCEPT !.warnings = {}, !.error = startup.errors \cup startup.warnings]
           /\ UNCHANGED <<calls, active, dialogs, answers>>
  <2>1. /\ startup' \in StartupType /\ startup'.init = startup.init
        /\ startup'.error = startup.errors \cup startup.warnings
    BY <1>0, <1>4 DEF StartupType
  <2>2. Shown' = Shown /\ OneDialogIsShown' /\ FirstIsShown'
    BY <1>0, <1>4 DEF Shown, OneDialogIsShown, FirstIsShown
  <2>3. startup.error = {}
    BY ResultHandled
  <2>4. Kept \subseteq Kept'
    BY <2>1, <2>2, <2>3, <1>4 DEF Kept
  <2> QED BY <2>1, <2>2, <2>4, <1>0, <1>4, ResultStep
<1> QED BY <1>1, <1>2, <1>3, <1>4 DEF Boxes!InitializeResult

(***************************************************************************)
(* The wizard: what is on its way, and what it says                        *)
(***************************************************************************)
Places == Dirs \cup {Wizard!Nowhere}
Kinds == {"status", "preview", "storage", "prepare"}
Outcomes == {"ok", "fail", "throw"}
TaskType == [kind : Kinds, id : Nat, dir : Places]
ResultType == [kind : Kinds, id : Nat, dir : Places, outcome : Outcomes]
PreviewType == [id : Nat, pending : BOOLEAN, inFlight : BOOLEAN, error : BOOLEAN,
                existing : BOOLEAN, preset : BOOLEAN, of : Places]
StorageType == [id : Nat, pending : BOOLEAN, inFlight : BOOLEAN, path : Places, valid : BOOLEAN,
                failed : BOOLEAN, gb : Nat, of : Places]
PruneType == [value : BOOLEAN, size : Nat \cup PruneSizes, touched : BOOLEAN, auto : BOOLEAN, user : BOOLEAN]
SetupType == [phase : {"choosing", "finished", "preparing"}, stopping : BOOLEAN, preparing : BOOLEAN,
              shutdown : BOOLEAN, edits : Nat, outcome : Outcomes \cup {"none"}, applied : Places,
              prepared : Outcomes \cup {"none"}, shutdownDone : BOOLEAN,
              posted : SUBSET {"refused", "shutdownFinished"}]
SetupExecutorType == [state : {"open", "closing", "drained"}, tasks : Seq(TaskType), results : Seq(ResultType)]

WizardTypeOK ==
  /\ selected \in Dirs /\ preview \in PreviewType /\ storage \in StorageType /\ prune \in PruneType
  /\ setup \in SetupType /\ setupExecutor \in SetupExecutorType

Items == Boxes!ToSet(setupExecutor.tasks) \cup Boxes!ToSet(setupExecutor.results)

\* A request with the newest id is about what is selected, and the node is
\* prepared only when the wizard has finished.
RequestIsCurrent(x) ==
  /\ x.kind = "status" => x.dir \in Dirs
  /\ x.kind = "preview" => x.id <= preview.id /\ (x.id = preview.id => x.dir = selected)
  /\ x.kind = "storage" => x.id <= storage.id /\ (x.id = storage.id => x.dir = storage.path)
  /\ x.kind = "prepare" => x.dir = selected /\ setup.phase # "choosing"
RequestsAreCurrent == \A x \in Items : RequestIsCurrent(x)

\* Until the constructor's request is answered it is the only one.
NoStatus == \A x \in Items : x.kind # "status"
StatusIsFirst ==
  /\ preview.pending /\ preview.inFlight /\ setup.phase = "choosing"
  /\ \/ Len(setupExecutor.tasks) = 1 /\ setupExecutor.results = << >>
     \/ Len(setupExecutor.results) = 1 /\ setupExecutor.tasks = << >>
StatusIsAlone == NoStatus \/ StatusIsFirst

Previewed == ~preview.pending /\ ~preview.error
Checked == Previewed /\ ~storage.pending /\ ~storage.failed

PreviewIsOfSelection ==
  Previewed => /\ preview.of = selected /\ storage.path = selected
               /\ preview.existing = selected.existing /\ preview.preset = selected.preset
StorageIsOfSelection == Checked => storage.of = selected
FinishedIsSettled ==
  /\ setup.phase # "choosing" => preview.of = selected /\ storage.path = selected /\ storage.of = selected
  /\ setup.applied # Wizard!Nowhere => setup.applied = selected /\ setup.phase # "choosing"

\* What the wizard recommended by itself is undone where it does not belong.
RecommendationFits ==
  ~prune.user =>
     /\ prune.size = PruneTarget /\ prune.touched = prune.auto /\ (prune.auto => prune.value)
     /\ Previewed /\ (selected.existing \/ selected.preset) => prune.value = selected.preset
     /\ Checked /\ ~selected.existing /\ ~selected.preset =>
          prune.value = (selected.gb < Wizard!FullRequired + 10)

SelectionInv == PreviewIsOfSelection /\ StorageIsOfSelection /\ FinishedIsSettled /\ RecommendationFits

WizardInv == WizardTypeOK /\ RequestsAreCurrent /\ StatusIsAlone /\ SelectionInv

LEMMA PlaceFacts ==
  ASSUME NEW d \in Places
  PROVE  d.existing \in BOOLEAN /\ d.preset \in BOOLEAN /\ d.gb \in Nat
<1>1. CASE d \in Dirs
  BY <1>1, SizesAssumption
<1>2. CASE d = Wizard!Nowhere
  BY <1>2 DEF Wizard!Nowhere
<1> QED BY <1>1, <1>2 DEF Places

\* The wizard's property follows from the invariant.
LEMMA WizardFinishes == WizardInv => Wizard!FinishedSelectionIsChecked
<1> SUFFICES ASSUME WizardInv PROVE Wizard!FinishedSelectionIsChecked
  OBVIOUS
<1>0. selected \in Dirs /\ prune \in PruneType
  BY DEF WizardInv, WizardTypeOK
<1>1. selected.existing \in BOOLEAN /\ selected.preset \in BOOLEAN /\ selected.gb \in Nat
  BY <1>0, SizesAssumption
<1>2. Blockchain \in Nat /\ Chainstate \in Nat /\ PruneTarget \in Nat
  BY SizesAssumption
<1>3. ASSUME Wizard!CanFinish
      PROVE  /\ preview.of = selected /\ storage.of = selected
             /\ ~prune.user =>
                  prune.value = IF selected.existing \/ selected.preset THEN selected.preset
                                ELSE selected.gb < Wizard!FullRequired + 10
             /\ ~prune.user /\ selected.gb >= Wizard!MinimumRequired(selected.existing) =>
                  selected.gb >= Wizard!SelectedRequired(selected.existing, prune)
  <2>1. Previewed /\ Checked
    BY <1>3 DEF Wizard!CanFinish, Previewed, Checked
  <2>2. preview.of = selected /\ storage.of = selected
    BY <2>1 DEF WizardInv, SelectionInv, PreviewIsOfSelection, StorageIsOfSelection
  <2>3. ASSUME ~prune.user
        PROVE  /\ prune.size = PruneTarget
               /\ (selected.existing \/ selected.preset) => prune.value = selected.preset
               /\ ~selected.existing /\ ~selected.preset =>
                    prune.value = (selected.gb < Wizard!FullRequired + 10)
    BY <2>1, <2>3 DEF WizardInv, SelectionInv, RecommendationFits
  <2>4. ASSUME ~prune.user, selected.gb >= Wizard!MinimumRequired(selected.existing)
        PROVE  selected.gb >= Wizard!SelectedRequired(selected.existing, prune)
    <3>1. CASE selected.existing
      BY <2>4, <3>1 DEF Wizard!MinimumRequired, Wizard!SelectedRequired
    <3>2. CASE ~selected.existing /\ prune.value
      <4>1. selected.gb >= PruneTarget + Chainstate /\ prune.size = PruneTarget
        BY <2>3, <2>4, <3>2 DEF Wizard!MinimumRequired
      <4>2. CASE PruneTarget <= Blockchain
        BY <4>1, <4>2, <3>2 DEF Wizard!SelectedRequired
      <4>3. CASE ~(PruneTarget <= Blockchain)
        BY <4>1, <4>3, <3>2, <1>1, <1>2 DEF Wizard!SelectedRequired, Wizard!FullRequired
      <4> QED BY <4>2, <4>3
    <3>3. CASE ~selected.existing /\ ~prune.value
      <4>1. ~selected.preset
        BY <2>3, <2>4, <3>3
      <4>2. ~(selected.gb < Wizard!FullRequired + 10)
        BY <2>3, <2>4, <3>3, <4>1
      <4> QED BY <4>2, <3>3, <1>1, <1>2 DEF Wizard!SelectedRequired, Wizard!FullRequired
    <3> QED BY <3>1, <3>2, <3>3
  <2> QED BY <2>2, <2>3, <2>4
<1>4. setup.applied # Wizard!Nowhere => setup.applied = preview.of /\ setup.applied = storage.of
  BY DEF WizardInv, SelectionInv, FinishedIsSettled
<1> QED BY <1>3, <1>4 DEF Wizard!FinishedSelectionIsChecked

LEMMA WizardInitially == Wizard!Init => WizardInv
<1> SUFFICES ASSUME Wizard!Init PROVE WizardInv
  OBVIOUS
<1>0. DefaultDir \in Dirs /\ PruneTarget \in Nat /\ Wizard!Nowhere \in Places
  BY SizesAssumption DEF Places
<1> DEFINE first == [kind |-> "status", id |-> 1, dir |-> DefaultDir]
<1>1. first \in TaskType /\ first.kind = "status"
  BY <1>0 DEF TaskType, Kinds, Places
<1>2. setupExecutor.tasks = <<first>> /\ setupExecutor.results = << >> /\ setupExecutor.state = "open"
      /\ setupExecutor = [state |-> "open", tasks |-> <<first>>, results |-> << >>]
  BY DEF Wizard!Init
<1> HIDE DEF first
<1>3. setupExecutor \in SetupExecutorType
  BY <1>1, <1>2 DEF SetupExecutorType
<1>4. WizardTypeOK
  BY <1>0, <1>3 DEF Wizard!Init, WizardTypeOK, PreviewType, StorageType, PruneType, SetupType
<1>5. Items = {first}
  <2>1. Boxes!ToSet(<<first>>) = {first}
    BY DEF Boxes!ToSet
  <2> QED BY <2>1, <1>2, NoElements DEF Items
<1>6. RequestsAreCurrent
  <2>1. first.dir \in Dirs
    BY <1>0 DEF first
  <2> QED BY <2>1, <1>1, <1>5 DEF RequestsAreCurrent, RequestIsCurrent
<1>7. StatusIsAlone
  <2>1. Len(setupExecutor.tasks) = 1
    BY <1>2
  <2> QED BY <2>1, <1>2 DEF Wizard!Init, StatusIsAlone, StatusIsFirst
<1>8. SelectionInv
  BY DEF Wizard!Init, SelectionInv, PreviewIsOfSelection, StorageIsOfSelection, FinishedIsSettled,
         RecommendationFits, Previewed, Checked
<1> QED BY <1>4, <1>6, <1>7, <1>8 DEF WizardInv

(***************************************************************************)
(* Updates of the wizard's records and queues                              *)
(***************************************************************************)
LEMMA TasksUpdate ==
  ASSUME NEW e \in SetupExecutorType, NEW t \in Seq(TaskType)
  PROVE  /\ [e EXCEPT !.tasks = t] \in SetupExecutorType
         /\ [e EXCEPT !.tasks = t].tasks = t /\ [e EXCEPT !.tasks = t].results = e.results
  BY DEF SetupExecutorType

LEMMA ResultsUpdate ==
  ASSUME NEW e \in SetupExecutorType, NEW r \in Seq(ResultType)
  PROVE  /\ [e EXCEPT !.results = r] \in SetupExecutorType
         /\ [e EXCEPT !.results = r].tasks = e.tasks /\ [e EXCEPT !.results = r].results = r
  BY DEF SetupExecutorType

LEMMA Invalidated ==
  ASSUME WizardTypeOK
  PROVE  LET p == Wizard!Invalidate(preview)  s == Wizard!Invalidate(storage)
         IN /\ p \in PreviewType /\ p.id = preview.id + 1 /\ p.pending = preview.pending
            /\ p.inFlight = preview.inFlight /\ p.error = preview.error /\ p.of = preview.of
            /\ p.existing = preview.existing /\ p.preset = preview.preset
            /\ s \in StorageType /\ s.id = storage.id + 1 /\ s.pending = storage.pending
            /\ s.failed = storage.failed /\ s.path = storage.path /\ s.of = storage.of
<1>0. preview \in PreviewType /\ storage \in StorageType
  BY DEF WizardTypeOK
<1>1. PICK a \in Nat : a = preview.id + 1
  BY <1>0 DEF PreviewType
<1>2. PICK b \in Nat : b = storage.id + 1
  BY <1>0 DEF StorageType
<1>3. Wizard!Invalidate(preview) = [preview EXCEPT !.id = a]
  BY <1>1 DEF Wizard!Invalidate
<1>4. Wizard!Invalidate(storage) = [storage EXCEPT !.id = b]
  BY <1>2 DEF Wizard!Invalidate
<1>5. LET p == [preview EXCEPT !.id = a]
      IN /\ p \in PreviewType /\ p.id = a /\ p.pending = preview.pending
         /\ p.inFlight = preview.inFlight /\ p.error = preview.error /\ p.of = preview.of
         /\ p.existing = preview.existing /\ p.preset = preview.preset
  BY <1>0 DEF PreviewType
<1>6. LET s == [storage EXCEPT !.id = b]
      IN /\ s \in StorageType /\ s.id = b /\ s.pending = storage.pending
         /\ s.failed = storage.failed /\ s.path = storage.path /\ s.of = storage.of
  BY <1>0 DEF StorageType
<1> QED BY <1>1, <1>2, <1>3, <1>4, <1>5, <1>6

\* The worker takes a task and leaves its result.
LEMMA TaskRuns ==
  ASSUME WizardInv, NEW kind \in Kinds, NEW dir \in Places, NEW outcome \in Outcomes,
         Wizard!RunTask(kind, dir, outcome)
  PROVE  /\ setupExecutor' \in SetupExecutorType
         /\ selected' = selected /\ preview' = preview /\ storage' = storage /\ prune' = prune
         /\ Head(setupExecutor.tasks) \in Items /\ Head(setupExecutor.tasks) \in TaskType
         /\ Head(setupExecutor.tasks).kind = kind
         /\ Items' \subseteq Items \cup
              {[kind |-> kind, id |-> Head(setupExecutor.tasks).id, dir |-> dir, outcome |-> outcome]}
         /\ StatusIsFirst => Len(setupExecutor'.results) = 1 /\ setupExecutor'.tasks = << >>
<1> DEFINE tasks == setupExecutor.tasks
           returned == setupExecutor.results
           x == Head(tasks)
           r == [kind |-> kind, id |-> x.id, dir |-> dir, outcome |-> outcome]
<1>0. tasks \in Seq(TaskType) /\ returned \in Seq(ResultType) /\ setupExecutor \in SetupExecutorType
  BY DEF WizardInv, WizardTypeOK, SetupExecutorType
<1>1. /\ tasks # << >> /\ x.kind = kind
      /\ setupExecutor' = [setupExecutor EXCEPT !.tasks = Tail(@), !.results = Append(@, r)]
      /\ selected' = selected /\ preview' = preview /\ storage' = storage /\ prune' = prune
  BY DEF Wizard!RunTask
<1>2. /\ x \in TaskType /\ Tail(tasks) \in Seq(TaskType)
      /\ Boxes!ToSet(tasks) = {x} \cup Boxes!ToSet(Tail(tasks))
  BY <1>0, <1>1, TailElements
<1>3. r \in ResultType
  BY <1>2 DEF TaskType, ResultType
<1>4. PICK q : q = r
  OBVIOUS
<1> HIDE DEF r
<1>5. Append(returned, q) \in Seq(ResultType) /\ Boxes!ToSet(Append(returned, q)) = Boxes!ToSet(returned) \cup {q}
  BY <1>0, <1>3, <1>4, AppendElements
<1>6. /\ setupExecutor' \in SetupExecutorType
      /\ setupExecutor'.tasks = Tail(tasks) /\ setupExecutor'.results = Append(returned, q)
  <2> DEFINE e == [setupExecutor EXCEPT !.tasks = Tail(tasks)]
  <2>1. e \in SetupExecutorType /\ e.tasks = Tail(tasks) /\ e.results = returned
    BY <1>0, <1>2, TasksUpdate
  <2>2. setupExecutor' = [e EXCEPT !.results = Append(e.results, q)]
    BY <1>1, <1>4
  <2> HIDE DEF e
  <2>3. setupExecutor' = [e EXCEPT !.results = Append(returned, q)]
    BY <2>1, <2>2, Zenon
  <2> QED BY <2>1, <2>3, <1>5, ResultsUpdate
<1>7. Items' \subseteq Items \cup {q} /\ x \in Items
  BY <1>2, <1>5, <1>6 DEF Items
<1>8. ASSUME StatusIsFirst PROVE Len(setupExecutor'.results) = 1 /\ setupExecutor'.tasks = << >>
  <2>1. Len(tasks) = 1 /\ returned = << >>
    BY <1>1, <1>8 DEF StatusIsFirst
  <2>2. Tail(tasks) = << >>
    BY <2>1, <1>0, TailOfOne
  <2>3. Len(Append(returned, q)) = 1
    BY <2>1, <1>0, <1>3, <1>4, AppendEntries
  <2> QED BY <2>2, <2>3, <1>6
<1> QED BY <1>1, <1>2, <1>4, <1>6, <1>7, <1>8 DEF r

\* The event loop takes the oldest result.
LEMMA ResultTaken ==
  ASSUME WizardInv, NEW kind, Wizard!Receives(kind)
  PROVE  /\ Head(setupExecutor.results) \in ResultType /\ Head(setupExecutor.results) \in Items
         /\ Head(setupExecutor.results).kind = kind
         /\ Wizard!Delivered \in SetupExecutorType /\ Wizard!Delivered.tasks = setupExecutor.tasks
         /\ Boxes!ToSet(Wizard!Delivered.results) \subseteq Boxes!ToSet(setupExecutor.results)
         /\ StatusIsFirst => setupExecutor.tasks = << >> /\ Wizard!Delivered.results = << >>
<1> DEFINE returned == setupExecutor.results
<1>0. returned \in Seq(ResultType) /\ setupExecutor \in SetupExecutorType
  BY DEF WizardInv, WizardTypeOK, SetupExecutorType
<1>1. returned # << >> /\ Head(returned).kind = kind
  BY DEF Wizard!Receives
<1>2. /\ Head(returned) \in ResultType /\ Tail(returned) \in Seq(ResultType)
      /\ Boxes!ToSet(returned) = {Head(returned)} \cup Boxes!ToSet(Tail(returned))
  BY <1>0, <1>1, TailElements
<1>3. /\ Wizard!Delivered \in SetupExecutorType
      /\ Wizard!Delivered.tasks = setupExecutor.tasks /\ Wizard!Delivered.results = Tail(returned)
  <2>1. Wizard!Delivered = [setupExecutor EXCEPT !.results = Tail(returned)]
    BY DEF Wizard!Delivered
  <2>2. setupExecutor.tasks \in Seq(TaskType)
    BY <1>0 DEF SetupExecutorType
  <2> QED BY <2>1, <2>2, <1>0, <1>2, ResultsUpdate
<1>4. ASSUME StatusIsFirst PROVE setupExecutor.tasks = << >> /\ Tail(returned) = << >>
  <2>1. Len(returned) = 1 /\ setupExecutor.tasks = << >>
    BY <1>1, <1>4 DEF StatusIsFirst
  <2> QED BY <2>1, <1>0, TailOfOne
<1> QED BY <1>1, <1>2, <1>3, <1>4 DEF Items

\* It is taken, and nothing or a new request follows.
LEMMA NothingFollows ==
  ASSUME WizardInv, NEW kind, Wizard!Receives(kind), setupExecutor' = Wizard!Delivered
  PROVE  setupExecutor' \in SetupExecutorType /\ Items' \subseteq Items /\ (StatusIsFirst => Items' = {})
<1>1. StatusIsFirst => setupExecutor'.tasks = << >> /\ setupExecutor'.results = << >>
  BY ResultTaken
<1> QED BY <1>1, ResultTaken, NoElements DEF Items

LEMMA RequestFollows ==
  ASSUME WizardInv, NEW kind, Wizard!Receives(kind), NEW x \in TaskType,
         setupExecutor' = [Wizard!Delivered EXCEPT !.tasks = Append(setupExecutor.tasks, x)]
  PROVE  /\ setupExecutor' \in SetupExecutorType /\ Items' \subseteq Items \cup {x}
         /\ StatusIsFirst => Items' \subseteq {x}
<1> DEFINE d == Wizard!Delivered
           t == Append(setupExecutor.tasks, x)
<1>0. setupExecutor.tasks \in Seq(TaskType)
  BY DEF WizardInv, WizardTypeOK, SetupExecutorType
<1>1. /\ d \in SetupExecutorType /\ Boxes!ToSet(d.results) \subseteq Boxes!ToSet(setupExecutor.results)
      /\ StatusIsFirst => setupExecutor.tasks = << >> /\ d.results = << >>
  BY ResultTaken
<1>2. t \in Seq(TaskType) /\ Boxes!ToSet(t) = Boxes!ToSet(setupExecutor.tasks) \cup {x}
  BY <1>0, AppendElements
<1>3. d.results \in Seq(ResultType)
  BY <1>1 DEF SetupExecutorType
<1>4. setupExecutor' = [d EXCEPT !.tasks = t]
  OBVIOUS
<1> HIDE DEF d, t
<1>5. setupExecutor' \in SetupExecutorType /\ setupExecutor'.tasks = t /\ setupExecutor'.results = d.results
  <2>1. /\ [d EXCEPT !.tasks = t] \in SetupExecutorType /\ [d EXCEPT !.tasks = t].tasks = t
        /\ [d EXCEPT !.tasks = t].results = d.results
    BY <1>1, <1>2, TasksUpdate
  <2> QED BY <2>1, <1>4, Zenon
<1> QED BY <1>1, <1>2, <1>5, NoElements DEF Items

(***************************************************************************)
(* What a step leaves true of the requests and of the selection            *)
(***************************************************************************)
LEMMA RequestStays ==
  ASSUME WizardInv, WizardTypeOK', NEW x \in Items,
         preview'.id > preview.id \/ (preview'.id = preview.id /\ selected' = selected),
         storage'.id > storage.id \/ (storage'.id = storage.id /\ storage'.path = storage.path),
         setup.phase # "choosing" => setup'.phase # "choosing" /\ selected' = selected
  PROVE  RequestIsCurrent(x)'
<1>0. preview.id \in Nat /\ preview'.id \in Nat /\ storage.id \in Nat /\ storage'.id \in Nat
  BY DEF WizardInv, WizardTypeOK, PreviewType, StorageType
<1>2. x.id \in Nat
  <2>1. Boxes!ToSet(setupExecutor.tasks) \subseteq TaskType
        /\ Boxes!ToSet(setupExecutor.results) \subseteq ResultType
    BY DEF WizardInv, WizardTypeOK, SetupExecutorType, Boxes!ToSet
  <2>2. x \in TaskType \/ x \in ResultType
    BY <2>1 DEF Items
  <2> QED BY <2>2 DEF TaskType, ResultType
<1>3. RequestIsCurrent(x)
  BY DEF WizardInv, RequestsAreCurrent
<1>4. x.kind = "preview" => x.id <= preview'.id /\ (x.id = preview'.id => x.dir = selected')
  BY <1>0, <1>2, <1>3 DEF RequestIsCurrent
<1>5. x.kind = "storage" => x.id <= storage'.id /\ (x.id = storage'.id => x.dir = storage'.path)
  BY <1>0, <1>2, <1>3 DEF RequestIsCurrent
<1>6. x.kind = "prepare" => x.dir = selected' /\ setup'.phase # "choosing"
  BY <1>3 DEF RequestIsCurrent
<1>7. x.kind = "status" => x.dir \in Dirs
  BY <1>3 DEF RequestIsCurrent
<1> QED BY <1>4, <1>5, <1>6, <1>7 DEF RequestIsCurrent

LEMMA RequestsStay ==
  ASSUME WizardInv, WizardTypeOK', Items' \subseteq Items,
         preview'.id > preview.id \/ (preview'.id = preview.id /\ selected' = selected),
         storage'.id > storage.id \/ (storage'.id = storage.id /\ storage'.path = storage.path),
         setup.phase # "choosing" => setup'.phase # "choosing" /\ selected' = selected
  PROVE  RequestsAreCurrent'
<1>1. \A x \in Items : RequestIsCurrent(x)'
  BY RequestStays
<1> QED BY <1>1 DEF RequestsAreCurrent

LEMMA RequestAdded ==
  ASSUME WizardInv, WizardTypeOK', NEW r, Items' \subseteq Items \cup {r}, RequestIsCurrent(r)',
         preview'.id > preview.id \/ (preview'.id = preview.id /\ selected' = selected),
         storage'.id > storage.id \/ (storage'.id = storage.id /\ storage'.path = storage.path),
         setup.phase # "choosing" => setup'.phase # "choosing" /\ selected' = selected
  PROVE  RequestsAreCurrent'
<1>1. \A x \in Items : RequestIsCurrent(x)'
  BY RequestStays
<1> QED BY <1>1 DEF RequestsAreCurrent

\* The flags and the recommendation stay, and with them what they say.
LEMMA SelectionStays ==
  ASSUME SelectionInv, selected' = selected, prune' = prune,
         preview'.pending = preview.pending, preview'.error = preview.error, preview'.of = preview.of,
         preview'.existing = preview.existing, preview'.preset = preview.preset,
         storage'.pending = storage.pending, storage'.failed = storage.failed,
         storage'.path = storage.path, storage'.of = storage.of,
         setup'.phase = "choosing" <=> setup.phase = "choosing",
         setup'.applied = setup.applied
  PROVE  SelectionInv'
<1>1. PreviewIsOfSelection' /\ StorageIsOfSelection'
  BY DEF SelectionInv, PreviewIsOfSelection, StorageIsOfSelection, Previewed, Checked
<1>2. FinishedIsSettled'
  BY DEF SelectionInv, FinishedIsSettled
<1>3. RecommendationFits'
  BY DEF SelectionInv, RecommendationFits, Previewed, Checked
<1> QED BY <1>1, <1>2, <1>3 DEF SelectionInv

\* Without the constructor's request there is none, if none is added.
LEMMA NoStatusStays ==
  ASSUME NoStatus, NEW r, Items' \subseteq Items \cup {r}, r.kind # "status"
  PROVE  NoStatus'
  BY DEF NoStatus

\* A result of another kind shows that the constructor's request is answered.
LEMMA OtherResultMeansNoStatus ==
  ASSUME WizardInv, NEW kind, Wizard!Receives(kind), kind # "status"
  PROVE  NoStatus
<1>1. CASE StatusIsFirst
  <2> DEFINE returned == setupExecutor.results
  <2>1. Head(returned).kind = kind /\ returned # << >> /\ returned \in Seq(ResultType)
        /\ setupExecutor.tasks = << >> /\ Tail(returned) = << >>
    <3>1. Len(returned) = 1 /\ setupExecutor.tasks = << >> /\ returned # << >> /\ Head(returned).kind = kind
      BY <1>1 DEF StatusIsFirst, Wizard!Receives
    <3>2. returned \in Seq(ResultType)
      BY DEF WizardInv, WizardTypeOK, SetupExecutorType
    <3> QED BY <3>1, <3>2, TailOfOne
  <2>2. Boxes!ToSet(returned) = {Head(returned)} \cup Boxes!ToSet(Tail(returned))
    BY <2>1, TailElements
  <2>3. Items = {Head(returned)}
    BY <2>1, <2>2, NoElements DEF Items
  <2> QED BY <2>1, <2>3 DEF NoStatus
<1>2. CASE ~StatusIsFirst
  BY <1>2 DEF WizardInv, StatusIsAlone
<1> QED BY <1>1, <1>2

(***************************************************************************)
(* The steps of the wizard                                                 *)
(***************************************************************************)
LEMMA SelectDataDirStep ==
  ASSUME WizardInv, NEW dir \in Dirs, Wizard!SelectDataDir(dir)
  PROVE  WizardInv'
<1> DEFINE request == [kind |-> "preview", id |-> preview.id + 1, dir |-> dir]
<1>x. PICK x : x = request
  OBVIOUS
<1>0. /\ WizardTypeOK /\ setup \in SetupType /\ preview.id \in Nat
      /\ setupExecutor \in SetupExecutorType /\ setupExecutor.tasks \in Seq(TaskType)
  BY DEF WizardInv, WizardTypeOK, PreviewType, SetupExecutorType
<1>1. setup.phase = "choosing" /\ selected' = dir /\ prune' = prune
  BY DEF Wizard!SelectDataDir
<1>2. /\ preview' \in PreviewType /\ preview'.id = preview.id + 1
      /\ preview'.pending = TRUE /\ preview'.inFlight = TRUE
  <2> DEFINE p == Wizard!Invalidate(preview)
  <2>1. p \in PreviewType /\ p.id = preview.id + 1
    BY <1>0, Invalidated
  <2>2. preview' = [p EXCEPT !.pending = TRUE, !.inFlight = TRUE]
    BY DEF Wizard!SelectDataDir
  <2> HIDE DEF p
  <2> QED BY <2>1, <2>2 DEF PreviewType
<1>3. /\ storage' \in StorageType /\ storage'.id = storage.id + 1
  <2>1. storage' = Wizard!Invalidate(storage)
    BY DEF Wizard!SelectDataDir
  <2> QED BY <2>1, <1>0, Invalidated
<1>4. setup' \in SetupType /\ setup'.phase = setup.phase /\ setup'.applied = setup.applied
  <2>1. PICK e \in Nat : e = setup.edits + 1
    BY <1>0 DEF SetupType
  <2>2. setup' = [setup EXCEPT !.edits = e]
    BY <2>1 DEF Wizard!SelectDataDir
  <2> QED BY <2>2, <1>0 DEF SetupType
<1>5. x \in TaskType /\ x.kind = "preview" /\ x.id = preview.id + 1 /\ x.dir = dir
  BY <1>x, <1>0 DEF TaskType, Kinds, Places
<1>6. /\ setupExecutor' \in SetupExecutorType /\ Items' \subseteq Items \cup {x}
      /\ preview.inFlight => setupExecutor' = setupExecutor
  <2>1. CASE preview.inFlight
    <3>1. setupExecutor' = setupExecutor
      BY <2>1 DEF Wizard!SelectDataDir
    <3> QED BY <3>1, <1>0 DEF Items
  <2>2. CASE ~preview.inFlight
    <3> DEFINE t == Append(setupExecutor.tasks, x)
    <3>1. setupExecutor' = [setupExecutor EXCEPT !.tasks = t]
      BY <2>2, <1>x DEF Wizard!SelectDataDir, Wizard!StartPreview
    <3>2. t \in Seq(TaskType) /\ Boxes!ToSet(t) = Boxes!ToSet(setupExecutor.tasks) \cup {x}
      BY <1>0, <1>5, AppendElements
    <3> HIDE DEF t
    <3>3. /\ [setupExecutor EXCEPT !.tasks = t] \in SetupExecutorType
          /\ [setupExecutor EXCEPT !.tasks = t].tasks = t
          /\ [setupExecutor EXCEPT !.tasks = t].results = setupExecutor.results
      BY <3>2, <1>0, TasksUpdate
    <3>4. setupExecutor' \in SetupExecutorType /\ setupExecutor'.tasks = t
          /\ setupExecutor'.results = setupExecutor.results
      BY <3>1, <3>3, Zenon
    <3> QED BY <3>2, <3>4, <2>2 DEF Items
  <2> QED BY <2>1, <2>2
<1>7. WizardTypeOK'
  BY <1>0, <1>1, <1>2, <1>3, <1>4, <1>6 DEF WizardTypeOK
<1>8. RequestsAreCurrent'
  <2>1. RequestIsCurrent(x)'
    BY <1>1, <1>2, <1>5, <1>0 DEF RequestIsCurrent
  <2>2. preview'.id > preview.id /\ storage'.id > storage.id
    BY <1>2, <1>3, <1>0 DEF WizardTypeOK, StorageType
  <2> QED BY <2>1, <2>2, <1>1, <1>6, <1>7, RequestAdded
<1>9. StatusIsAlone'
  <2>1. CASE NoStatus
    BY <2>1, <1>5, <1>6, NoStatusStays DEF StatusIsAlone
  <2>2. CASE StatusIsFirst
    BY <2>2, <1>1, <1>2, <1>4, <1>6 DEF StatusIsFirst, StatusIsAlone
  <2> QED BY <2>1, <2>2 DEF WizardInv, StatusIsAlone
<1>10. SelectionInv'
  <2>1. ~Previewed' /\ ~Checked'
    BY <1>2 DEF Previewed, Checked
  <2>2. FinishedIsSettled'
    BY <1>1, <1>4 DEF WizardInv, SelectionInv, FinishedIsSettled
  <2>3. RecommendationFits'
    BY <2>1, <1>1 DEF WizardInv, SelectionInv, RecommendationFits
  <2> QED BY <2>1, <2>2, <2>3 DEF SelectionInv, PreviewIsOfSelection, StorageIsOfSelection
<1> QED BY <1>7, <1>8, <1>9, <1>10 DEF WizardInv

LEMMA EditPruneStep ==
  ASSUME WizardInv, NEW value \in BOOLEAN, NEW size \in PruneSizes, Wizard!EditPrune(value, size)
  PROVE  WizardInv'
<1>0. WizardTypeOK /\ setup \in SetupType
  BY DEF WizardInv, WizardTypeOK
<1>1. /\ prune' = [value |-> value, size |-> size, touched |-> TRUE, auto |-> FALSE, user |-> TRUE]
      /\ selected' = selected /\ preview' = preview /\ storage' = storage /\ setupExecutor' = setupExecutor
  BY DEF Wizard!EditPrune
<1>2. setup' \in SetupType /\ setup'.phase = setup.phase /\ setup'.applied = setup.applied
  <2>1. PICK e \in Nat : e = setup.edits + 1
    BY <1>0 DEF SetupType
  <2>2. setup' = [setup EXCEPT !.edits = e]
    BY <2>1 DEF Wizard!EditPrune
  <2> QED BY <2>2, <1>0 DEF SetupType
<1>3. prune' \in PruneType /\ prune'.user
  BY <1>1 DEF PruneType
<1>4. WizardTypeOK'
  BY <1>0, <1>1, <1>2, <1>3 DEF WizardTypeOK
<1>5. Items' = Items
  BY <1>1 DEF Items
<1>6. RequestsAreCurrent'
  BY <1>1, <1>2, <1>4, <1>5, RequestsStay
<1>7. StatusIsAlone'
  BY <1>1, <1>2, <1>5 DEF WizardInv, StatusIsAlone, StatusIsFirst, NoStatus
<1>8. SelectionInv'
  <2>1. PreviewIsOfSelection' /\ StorageIsOfSelection' /\ FinishedIsSettled'
    BY <1>1, <1>2 DEF WizardInv, SelectionInv, PreviewIsOfSelection, StorageIsOfSelection, FinishedIsSettled,
                      Previewed, Checked
  <2> QED BY <2>1, <1>3 DEF SelectionInv, RecommendationFits
<1> QED BY <1>4, <1>6, <1>7, <1>8 DEF WizardInv

\* A task that only reads: its result says what the task asked.
LEMMA TaskStep ==
  ASSUME WizardInv, NEW kind \in Kinds, NEW dir \in Places, NEW outcome \in Outcomes,
         Wizard!RunTask(kind, dir, outcome), 
         dir = Head(setupExecutor.tasks).dir \/ (kind = "status" /\ dir \in Dirs),
         setup' \in SetupType, setup'.phase = setup.phase
  PROVE  WizardTypeOK' /\ RequestsAreCurrent' /\ StatusIsAlone'
<1> DEFINE result == [kind |-> kind, id |-> Head(setupExecutor.tasks).id, dir |-> dir, outcome |-> outcome]
<1>x. PICK x, r : x = Head(setupExecutor.tasks) /\ r = result
  OBVIOUS
<1>1. /\ setupExecutor' \in SetupExecutorType
      /\ selected' = selected /\ preview' = preview /\ storage' = storage /\ prune' = prune
      /\ x \in Items /\ x.kind = kind /\ Items' \subseteq Items \cup {r}
      /\ StatusIsFirst => Len(setupExecutor'.results) = 1 /\ setupExecutor'.tasks = << >>
  BY <1>x, TaskRuns
<1>2. r.kind = kind /\ r.id = x.id /\ r.dir = dir
  BY <1>x
<1>3. WizardTypeOK'
  BY <1>1 DEF WizardInv, WizardTypeOK
<1>4. RequestsAreCurrent'
  <2>1. RequestIsCurrent(x)'
    BY <1>1, <1>3, RequestStays
  <2>2. RequestIsCurrent(r)'
    BY <2>1, <1>x, <1>1, <1>2 DEF RequestIsCurrent
  <2> QED BY <2>2, <1>1, <1>3, RequestAdded
<1>5. StatusIsAlone'
  <2>1. CASE NoStatus
    <3>1. r.kind # "status"
      BY <2>1, <1>1, <1>2 DEF NoStatus
    <3> QED BY <2>1, <3>1, <1>1, NoStatusStays DEF StatusIsAlone
  <2>2. CASE StatusIsFirst
    BY <2>2, <1>1 DEF StatusIsFirst, StatusIsAlone
  <2> QED BY <2>1, <2>2 DEF WizardInv, StatusIsAlone
<1> QED BY <1>3, <1>4, <1>5

LEMMA ReadingTaskStep ==
  ASSUME WizardInv, NEW outcome \in Outcomes, NEW dir \in Dirs,
         Wizard!ResolveStatus(outcome, dir) \/ Wizard!ReadPreview(outcome) \/ Wizard!CheckStorageSpace(outcome)
  PROVE  WizardInv'
<1>0. setupExecutor \in SetupExecutorType /\ setup \in SetupType
  BY DEF WizardInv, WizardTypeOK
<1>1. PICK kind, place :
        /\ kind \in {"status", "preview", "storage"}
        /\ Wizard!RunTask(kind, place, outcome) /\ setup' = setup
        /\ (kind = "status" /\ place = dir) \/ place = Head(setupExecutor.tasks).dir
  BY DEF Wizard!ResolveStatus, Wizard!ReadPreview, Wizard!CheckStorageSpace, Wizard!TaskDir
<1>2. kind \in Kinds /\ place \in Places
  <2>1. setupExecutor.tasks # << >> /\ setupExecutor.tasks \in Seq(TaskType)
    BY <1>0, <1>1 DEF SetupExecutorType, Wizard!RunTask
  <2>2. Head(setupExecutor.tasks) \in TaskType
    BY <2>1, TailElements
  <2> QED BY <2>2, <1>1 DEF TaskType, Places, Kinds
<1>3. WizardTypeOK' /\ RequestsAreCurrent' /\ StatusIsAlone'
  BY <1>0, <1>1, <1>2, TaskStep
<1>4. SelectionInv'
  <2>1. selected' = selected /\ preview' = preview /\ storage' = storage /\ prune' = prune
    BY <1>1 DEF Wizard!RunTask
  <2> QED BY <2>1, <1>1, SelectionStays DEF WizardInv
<1> QED BY <1>3, <1>4 DEF WizardInv

LEMMA ApplyAndPrepareStep ==
  ASSUME WizardInv, NEW outcome \in Outcomes, Wizard!ApplyAndPrepare(outcome)
  PROVE  WizardInv'
<1>0. setupExecutor \in SetupExecutorType /\ setup \in SetupType
  BY DEF WizardInv, WizardTypeOK
<1>1. /\ Wizard!RunTask("prepare", Head(setupExecutor.tasks).dir, outcome)
      /\ setup' = [setup EXCEPT !.applied = Head(setupExecutor.tasks).dir]
  BY DEF Wizard!ApplyAndPrepare, Wizard!TaskDir
<1>2. PICK x : x = Head(setupExecutor.tasks)
  OBVIOUS
<1>3. x \in TaskType /\ x \in Items /\ x.kind = "prepare" /\ x.dir \in Places
  <2>1. /\ setupExecutor.tasks # << >> /\ setupExecutor.tasks \in Seq(TaskType)
        /\ Head(setupExecutor.tasks).kind = "prepare"
    BY <1>0, <1>1 DEF SetupExecutorType, Wizard!RunTask
  <2>2. x \in TaskType /\ x \in Items
    BY <2>1, <1>2, TailElements DEF Items
  <2> QED BY <2>1, <2>2, <1>2 DEF TaskType
<1>4. setup' \in SetupType /\ setup'.phase = setup.phase /\ setup'.applied = x.dir
  <2>1. PICK d \in Places : d = x.dir
    BY <1>3
  <2>2. setup' = [setup EXCEPT !.applied = d]
    BY <2>1, <1>1, <1>2
  <2>3. setup' \in SetupType /\ setup'.phase = setup.phase /\ setup'.applied = d
    BY <2>2, <1>0 DEF SetupType
  <2> QED BY <2>1, <2>3
<1>5. x.dir = selected /\ setup.phase # "choosing"
  BY <1>3 DEF WizardInv, RequestsAreCurrent, RequestIsCurrent
<1>6. WizardTypeOK' /\ RequestsAreCurrent' /\ StatusIsAlone'
  <2>1. Wizard!RunTask("prepare", x.dir, outcome) /\ "prepare" \in Kinds
    BY <1>1, <1>2 DEF Kinds
  <2> QED BY <2>1, <1>2, <1>3, <1>4, TaskStep
<1>7. SelectionInv'
  <2>1. selected' = selected /\ preview' = preview /\ storage' = storage /\ prune' = prune
    BY <1>1 DEF Wizard!RunTask
  <2>2. PreviewIsOfSelection' /\ StorageIsOfSelection' /\ RecommendationFits'
    BY <2>1 DEF WizardInv, SelectionInv, PreviewIsOfSelection, StorageIsOfSelection, RecommendationFits,
                Previewed, Checked
  <2>3. FinishedIsSettled'
    BY <2>1, <1>4, <1>5 DEF WizardInv, SelectionInv, FinishedIsSettled
  <2> QED BY <2>2, <2>3 DEF SelectionInv
<1> QED BY <1>6, <1>7 DEF WizardInv

\* Without a preview of the selection nothing is said of it.
LEMMA NothingIsSaid ==
  ASSUME SelectionInv, preview'.pending \/ preview'.error, prune' = prune,
         setup.phase = "choosing", setup'.phase = "choosing", setup'.applied = setup.applied
  PROVE  SelectionInv'
<1>1. ~Previewed' /\ ~Checked'
  BY DEF Previewed, Checked
<1>2. FinishedIsSettled'
  BY DEF SelectionInv, FinishedIsSettled
<1>3. RecommendationFits'
  BY <1>1 DEF SelectionInv, RecommendationFits
<1> QED BY <1>1, <1>2, <1>3 DEF SelectionInv, PreviewIsOfSelection, StorageIsOfSelection

\* A preview may follow a result; none is started once the wizard stops.
LEMMA PreviewFollows ==
  ASSUME WizardInv, NEW kind, Wizard!Receives(kind), NEW id \in Nat, NEW dir \in Places, NEW x,
         x = [kind |-> "preview", id |-> id, dir |-> dir],
         setupExecutor' = [Wizard!Delivered EXCEPT !.tasks = Wizard!StartPreview(@, id, dir)]
  PROVE  /\ setupExecutor' \in SetupExecutorType /\ Items' \subseteq Items \cup {x}
         /\ StatusIsFirst => Items' \subseteq {x}
<1> DEFINE d == Wizard!Delivered
<1>0. x \in TaskType
  BY DEF TaskType, Kinds
<1>1. d \in SetupExecutorType /\ d.tasks = setupExecutor.tasks
  BY ResultTaken
<1>2. CASE ~setup.stopping
  <2>1. setupExecutor' = [d EXCEPT !.tasks = Append(setupExecutor.tasks, x)]
    BY <1>1, <1>2, Zenon DEF Wizard!StartPreview
  <2> QED BY <2>1, <1>0, RequestFollows
<1>3. CASE setup.stopping
  <2>1. setupExecutor' = [d EXCEPT !.tasks = d.tasks]
    BY <1>3, Zenon DEF Wizard!StartPreview
  <2>2. d.tasks \in Seq(TaskType)
    BY <1>1 DEF SetupExecutorType
  <2>3. /\ [d EXCEPT !.tasks = d.tasks] \in SetupExecutorType
        /\ [d EXCEPT !.tasks = d.tasks].tasks = d.tasks
        /\ [d EXCEPT !.tasks = d.tasks].results = d.results
    BY <1>1, <2>2, TasksUpdate
  <2>4. /\ setupExecutor' \in SetupExecutorType /\ setupExecutor'.tasks = setupExecutor.tasks
        /\ setupExecutor'.results = d.results
    BY <2>1, <2>3, <1>1, Zenon
  <2> QED BY <2>4, ResultTaken, NoElements DEF Items
<1> QED BY <1>2, <1>3

LEMMA OnStatusStep ==
  ASSUME WizardInv, Wizard!OnStatus
  PROVE  WizardInv'
<1> DEFINE result == Head(setupExecutor.results)
           current == result.id = preview.id
           again == result.outcome # "throw" /\ (~current \/ result.outcome = "ok")
<1>0. WizardTypeOK /\ preview \in PreviewType /\ preview.id \in Nat /\ selected \in Dirs
  BY DEF WizardInv, WizardTypeOK, PreviewType
<1>1. /\ Wizard!Receives("status") /\ storage' = storage /\ prune' = prune /\ setup' = setup
      /\ selected' = IF current /\ result.outcome = "ok" THEN result.dir ELSE selected
  BY DEF Wizard!OnStatus
<1>2. result \in ResultType /\ result \in Items /\ result.kind = "status"
  BY <1>1, ResultTaken
<1>3. StatusIsFirst
  BY <1>2 DEF WizardInv, StatusIsAlone, NoStatus
<1>4. result.dir \in Dirs
  BY <1>2 DEF WizardInv, RequestsAreCurrent, RequestIsCurrent
<1>5. PICK sel \in Dirs : selected' = sel
  BY <1>0, <1>1, <1>4
<1>6. PICK x : x = [kind |-> "preview", id |-> preview.id, dir |-> sel]
  OBVIOUS
<1>7. x.kind = "preview" /\ x.id = preview.id /\ x.dir = sel
  BY <1>6
<1>8. CASE again
  <2>1. /\ setupExecutor' = [Wizard!Delivered EXCEPT !.tasks = Wizard!StartPreview(@, preview.id, sel)]
        /\ preview' = [preview EXCEPT !.inFlight = ~setup.stopping]
    BY <1>1, <1>5, <1>8 DEF Wizard!OnStatus
  <2>2. setupExecutor' \in SetupExecutorType /\ Items' \subseteq {x}
    BY <2>1, <1>0, <1>1, <1>3, <1>6, PreviewFollows DEF Places
  <2>3. preview' \in PreviewType /\ preview'.id = preview.id /\ preview'.pending
    <3>1. PICK b \in BOOLEAN : preview' = [preview EXCEPT !.inFlight = b]
      BY <2>1
    <3> QED BY <3>1, <1>0, <1>3 DEF PreviewType, StatusIsFirst
  <2>4. WizardTypeOK'
    BY <2>2, <2>3, <1>0, <1>1, <1>5 DEF WizardTypeOK
  <2>5. RequestsAreCurrent' /\ NoStatus'
    <3>1. RequestIsCurrent(x)'
      BY <2>3, <1>0, <1>5, <1>7 DEF RequestIsCurrent
    <3> QED BY <3>1, <2>2, <1>7 DEF RequestsAreCurrent, NoStatus
  <2>6. SelectionInv'
    BY <2>3, <1>1, <1>3, NothingIsSaid DEF WizardInv, StatusIsFirst
  <2> QED BY <2>4, <2>5, <2>6 DEF WizardInv, StatusIsAlone
<1>9. CASE ~again
  <2>1. /\ setupExecutor' = Wizard!Delivered
        /\ preview' = [preview EXCEPT !.inFlight = FALSE, !.pending = FALSE, !.error = TRUE]
    BY <1>1, <1>9 DEF Wizard!OnStatus
  <2>2. setupExecutor' \in SetupExecutorType /\ Items' = {}
    BY <2>1, <1>1, <1>3, NothingFollows
  <2>3. preview' \in PreviewType /\ preview'.error
    BY <2>1, <1>0 DEF PreviewType
  <2>4. WizardTypeOK'
    BY <2>2, <2>3, <1>0, <1>1, <1>5 DEF WizardTypeOK
  <2>5. RequestsAreCurrent' /\ NoStatus'
    BY <2>2 DEF RequestsAreCurrent, NoStatus
  <2>6. SelectionInv'
    BY <2>3, <1>1, <1>3, NothingIsSaid DEF WizardInv, StatusIsFirst
  <2> QED BY <2>4, <2>5, <2>6 DEF WizardInv, StatusIsAlone
<1> QED BY <1>8, <1>9

LEMMA StateUpdate ==
  ASSUME NEW e \in SetupExecutorType, NEW s \in {"open", "closing", "drained"}
  PROVE  /\ [e EXCEPT !.state = s] \in SetupExecutorType
         /\ [e EXCEPT !.state = s].tasks = e.tasks /\ [e EXCEPT !.state = s].results = e.results
  BY DEF SetupExecutorType

LEMMA FinishStep ==
  ASSUME WizardInv, Wizard!Finish
  PROVE  WizardInv'
<1>0. WizardTypeOK /\ setup \in SetupType
  BY DEF WizardInv, WizardTypeOK
<1>1. /\ setup.phase = "choosing" /\ Wizard!CanFinish /\ setup' = [setup EXCEPT !.phase = "finished"]
      /\ selected' = selected /\ preview' = preview /\ storage' = storage /\ prune' = prune
      /\ setupExecutor' = setupExecutor
  BY DEF Wizard!Finish
<1>2. setup' \in SetupType /\ setup'.phase = "finished" /\ setup'.applied = setup.applied
  BY <1>0, <1>1 DEF SetupType
<1>3. Previewed /\ Checked
  BY <1>1 DEF Wizard!CanFinish, Previewed, Checked
<1>4. WizardTypeOK'
  BY <1>0, <1>1, <1>2 DEF WizardTypeOK
<1>5. Items' = Items
  BY <1>1 DEF Items
<1>6. RequestsAreCurrent'
  BY <1>1, <1>2, <1>4, <1>5, RequestsStay
<1>7. StatusIsAlone'
  BY <1>1, <1>3, <1>5 DEF WizardInv, StatusIsAlone, StatusIsFirst, NoStatus, Previewed
<1>8. SelectionInv'
  <2>1. PreviewIsOfSelection' /\ StorageIsOfSelection' /\ RecommendationFits'
    BY <1>1 DEF WizardInv, SelectionInv, PreviewIsOfSelection, StorageIsOfSelection, RecommendationFits,
                Previewed, Checked
  <2>2. FinishedIsSettled'
    BY <1>1, <1>2, <1>3 DEF WizardInv, SelectionInv, PreviewIsOfSelection, StorageIsOfSelection,
                            FinishedIsSettled
  <2> QED BY <2>1, <2>2 DEF SelectionInv
<1> QED BY <1>4, <1>6, <1>7, <1>8 DEF WizardInv

\* Steps that leave the queues, the flags and the choice as they are.
LEMMA UntouchedStep ==
  ASSUME WizardInv, selected' = selected, prune' = prune,
         preview' = preview \/ preview' = Wizard!Invalidate(preview),
         storage' = storage \/ storage' = Wizard!Invalidate(storage),
         setup' \in SetupType, setup'.phase = "choosing" <=> setup.phase = "choosing",
         setup'.applied = setup.applied,
         setupExecutor' \in SetupExecutorType,
         setupExecutor'.tasks = setupExecutor.tasks, setupExecutor'.results = setupExecutor.results
  PROVE  WizardInv'
<1>0. WizardTypeOK
  BY DEF WizardInv
<1>1. /\ preview' \in PreviewType /\ preview'.id \in {preview.id, preview.id + 1}
      /\ preview'.pending = preview.pending /\ preview'.inFlight = preview.inFlight
      /\ preview'.error = preview.error /\ preview'.of = preview.of
      /\ preview'.existing = preview.existing /\ preview'.preset = preview.preset
  BY <1>0, Invalidated DEF WizardTypeOK
<1>2. /\ storage' \in StorageType /\ storage'.id \in {storage.id, storage.id + 1}
      /\ storage'.pending = storage.pending /\ storage'.failed = storage.failed
      /\ storage'.path = storage.path /\ storage'.of = storage.of
  BY <1>0, Invalidated DEF WizardTypeOK
<1>3. WizardTypeOK'
  BY <1>0, <1>1, <1>2 DEF WizardTypeOK
<1>4. Items' = Items
  BY DEF Items
<1>5. RequestsAreCurrent'
  <2>1. preview.id \in Nat /\ storage.id \in Nat
    BY <1>0 DEF WizardTypeOK, PreviewType, StorageType
  <2>2. preview'.id > preview.id \/ (preview'.id = preview.id /\ selected' = selected)
    BY <1>1, <2>1
  <2>3. storage'.id > storage.id \/ (storage'.id = storage.id /\ storage'.path = storage.path)
    BY <1>2, <2>1
  <2> QED BY <2>2, <2>3, <1>3, <1>4, RequestsStay
<1>6. StatusIsAlone'
  BY <1>1, <1>4 DEF WizardInv, StatusIsAlone, StatusIsFirst, NoStatus
<1>7. SelectionInv'
  BY <1>1, <1>2, SelectionStays DEF WizardInv
<1> QED BY <1>3, <1>5, <1>6, <1>7 DEF WizardInv

LEMMA BeginShutdownStep ==
  ASSUME WizardInv, Wizard!BeginShutdown
  PROVE  WizardInv'
<1>0. setup \in SetupType /\ setupExecutor \in SetupExecutorType
  BY DEF WizardInv, WizardTypeOK
<1>1. /\ selected' = selected /\ prune' = prune
      /\ preview' = Wizard!Invalidate(preview) /\ storage' = Wizard!Invalidate(storage)
  BY DEF Wizard!BeginShutdown
<1>2. setup' \in SetupType /\ setup'.phase = setup.phase /\ setup'.applied = setup.applied
  <2>1. PICK p \in SUBSET {"refused", "shutdownFinished"} :
          setup' = [setup EXCEPT !.shutdown = TRUE, !.stopping = TRUE, !.posted = p]
    <3> DEFINE p == IF setupExecutor.state = "drained" THEN setup.posted \cup {"shutdownFinished"} ELSE setup.posted
               s == [[setup EXCEPT !.shutdown = TRUE] EXCEPT !.stopping = TRUE]
    <3>1. p \in SUBSET {"refused", "shutdownFinished"}
      BY <1>0 DEF SetupType
    <3>2. s.posted = setup.posted
      BY <1>0 DEF SetupType
    <3>3. setup' = [s EXCEPT !.posted =
                      IF setupExecutor.state = "drained" THEN s.posted \cup {"shutdownFinished"} ELSE s.posted]
      BY DEF Wizard!BeginShutdown
    <3>4. setup' = [s EXCEPT !.posted = p]
      BY <3>2, <3>3
    <3> QED BY <3>1, <3>4
  <2> QED BY <2>1, <1>0 DEF SetupType
<1>3. /\ setupExecutor' \in SetupExecutorType /\ setupExecutor'.tasks = setupExecutor.tasks
      /\ setupExecutor'.results = setupExecutor.results
  <2>1. setupExecutor' = [setupExecutor EXCEPT !.state = "closing"] \/ setupExecutor' = setupExecutor
    BY DEF Wizard!BeginShutdown
  <2>2. /\ [setupExecutor EXCEPT !.state = "closing"] \in SetupExecutorType
        /\ [setupExecutor EXCEPT !.state = "closing"].tasks = setupExecutor.tasks
        /\ [setupExecutor EXCEPT !.state = "closing"].results = setupExecutor.results
    BY <1>0, StateUpdate
  <2> QED BY <2>1, <2>2, <1>0, Zenon
<1> QED BY <1>1, <1>2, <1>3, UntouchedStep

LEMMA PostedStep ==
  ASSUME WizardInv, Wizard!Posted
  PROVE  WizardInv'
<1>0. setup \in SetupType /\ setupExecutor \in SetupExecutorType
  BY DEF WizardInv, WizardTypeOK
<1>1. /\ selected' = selected /\ prune' = prune /\ preview' = preview /\ storage' = storage
      /\ setupExecutor' = setupExecutor
  BY DEF Wizard!Posted
<1>2. setup' \in SetupType /\ setup'.phase = setup.phase /\ setup'.applied = setup.applied
  <2> DEFINE s == [setup EXCEPT !.posted = {}]
  <2>1. s \in SetupType /\ s.phase = setup.phase /\ s.applied = setup.applied
    BY <1>0 DEF SetupType
  <2> DEFINE q == IF "refused" \in setup.posted THEN "fail" ELSE s.prepared
             t == [s EXCEPT !.prepared = q]
  <2>2. q \in Outcomes \cup {"none"}
    BY <2>1 DEF SetupType, Outcomes
  <2>3. PICK b \in BOOLEAN : setup' = [t EXCEPT !.shutdownDone = b]
    BY DEF Wizard!Posted
  <2> HIDE DEF s, q
  <2>4. t \in SetupType /\ t.phase = s.phase /\ t.applied = s.applied
    BY <2>1, <2>2 DEF SetupType
  <2> HIDE DEF t
  <2> QED BY <2>1, <2>3, <2>4 DEF SetupType
<1> QED BY <1>0, <1>1, <1>2, UntouchedStep

\* The selection stays, and so do the requests that are left.
LEMMA FewerRequestsStep ==
  ASSUME WizardInv, selected' = selected, prune' = prune, preview' = preview, storage' = storage,
         setup' \in SetupType, setup'.phase = setup.phase, setup'.applied = setup.applied,
         setupExecutor' \in SetupExecutorType, Items' \subseteq Items, NoStatus \/ Items' = {}
  PROVE  WizardInv'
<1>1. WizardTypeOK'
  BY DEF WizardInv, WizardTypeOK
<1>2. RequestsAreCurrent'
  BY <1>1, RequestsStay
<1>3. StatusIsAlone'
  BY DEF StatusIsAlone, NoStatus
<1>4. SelectionInv'
  BY SelectionStays DEF WizardInv
<1> QED BY <1>1, <1>2, <1>3, <1>4 DEF WizardInv

LEMMA DrainedStep ==
  ASSUME WizardInv, Wizard!Drained
  PROVE  WizardInv'
<1>0. setup \in SetupType /\ setupExecutor \in SetupExecutorType
  BY DEF WizardInv, WizardTypeOK
<1>1. /\ selected' = selected /\ prune' = prune /\ preview' = preview /\ storage' = storage
      /\ setupExecutor.tasks = << >>
      /\ setupExecutor' = [setupExecutor EXCEPT !.state = "drained", !.results = << >>]
  BY DEF Wizard!Drained
<1>2. setup' \in SetupType /\ setup'.phase = setup.phase /\ setup'.applied = setup.applied
  <2> DEFINE q == IF setup.outcome # "none" THEN setup.outcome ELSE setup.prepared
             s == [setup EXCEPT !.prepared = q]
             p == IF setup.shutdown /\ setup.preparing /\ setup.outcome # "none"
                  THEN setup.posted \cup {"shutdownFinished"} ELSE setup.posted
             t == [s EXCEPT !.posted = p]
  <2>1. q \in Outcomes \cup {"none"} /\ p \in SUBSET {"refused", "shutdownFinished"}
    BY <1>0 DEF SetupType
  <2> HIDE DEF q
  <2>2. s \in SetupType /\ s.phase = setup.phase /\ s.applied = setup.applied /\ s.posted = setup.posted
    BY <1>0, <2>1 DEF SetupType
  <2>3. PICK b \in BOOLEAN :
          setup' = [[s EXCEPT !.posted =
                       IF setup.shutdown /\ setup.preparing /\ setup.outcome # "none"
                       THEN s.posted \cup {"shutdownFinished"} ELSE s.posted] EXCEPT !.shutdownDone = b]
    BY DEF Wizard!Drained, q
  <2>4. setup' = [t EXCEPT !.shutdownDone = b]
    BY <2>2, <2>3
  <2> HIDE DEF s, p
  <2>5. t \in SetupType /\ t.phase = s.phase /\ t.applied = s.applied
    BY <2>1, <2>2 DEF SetupType
  <2> HIDE DEF t
  <2> QED BY <2>2, <2>4, <2>5 DEF SetupType
<1>3. setupExecutor' \in SetupExecutorType /\ Items' = {}
  <2> DEFINE e == [setupExecutor EXCEPT !.state = "drained"]
  <2>1. e \in SetupExecutorType /\ e.tasks = setupExecutor.tasks
    BY <1>0, StateUpdate
  <2>2. setupExecutor' = [e EXCEPT !.results = << >>]
    BY <1>1
  <2> HIDE DEF e
  <2>3. << >> \in Seq(ResultType)
    OBVIOUS
  <2>4. /\ [e EXCEPT !.results = << >>] \in SetupExecutorType
        /\ [e EXCEPT !.results = << >>].tasks = e.tasks /\ [e EXCEPT !.results = << >>].results = << >>
    BY <2>1, <2>3, ResultsUpdate
  <2>5. setupExecutor' \in SetupExecutorType /\ setupExecutor'.tasks = << >> /\ setupExecutor'.results = << >>
    BY <2>1, <2>2, <2>4, <1>1, Zenon
  <2> QED BY <2>5, NoElements DEF Items
<1> QED BY <1>1, <1>2, <1>3, FewerRequestsStep

LEMMA OnPreparedStep ==
  ASSUME WizardInv, Wizard!OnPrepared
  PROVE  WizardInv'
<1> DEFINE result == Head(setupExecutor.results)
<1>0. setup \in SetupType
  BY DEF WizardInv, WizardTypeOK
<1>1. /\ Wizard!Receives("prepare") /\ selected' = selected /\ prune' = prune
      /\ preview' = preview /\ storage' = storage
      /\ setup' = [setup EXCEPT !.outcome = result.outcome]
      /\ setupExecutor' = [Wizard!Delivered EXCEPT !.state = "closing"]
  BY DEF Wizard!OnPrepared
<1>2. /\ result \in ResultType /\ Wizard!Delivered \in SetupExecutorType
      /\ Wizard!Delivered.tasks = setupExecutor.tasks
      /\ Boxes!ToSet(Wizard!Delivered.results) \subseteq Boxes!ToSet(setupExecutor.results)
  BY <1>1, ResultTaken
<1>3. setup' \in SetupType /\ setup'.phase = setup.phase /\ setup'.applied = setup.applied
  <2>1. PICK o \in Outcomes : o = result.outcome
    BY <1>2 DEF ResultType
  <2>2. setup' = [setup EXCEPT !.outcome = o]
    BY <1>1, <2>1
  <2> QED BY <2>2, <1>0 DEF SetupType
<1>4. setupExecutor' \in SetupExecutorType /\ Items' \subseteq Items
  <2> DEFINE d == Wizard!Delivered
             e == [d EXCEPT !.state = "closing"]
  <2>1. e \in SetupExecutorType /\ e.tasks = d.tasks /\ e.results = d.results
    BY <1>2, StateUpdate
  <2>2. setupExecutor' = e
    BY <1>1
  <2> HIDE DEF d, e
  <2> QED BY <2>1, <2>2, <1>2 DEF Items, d
<1>5. NoStatus
  BY <1>1, OtherResultMeansNoStatus
<1> QED BY <1>1, <1>3, <1>4, <1>5, FewerRequestsStep

LEMMA PrepareNodeStep ==
  ASSUME WizardInv, Wizard!PrepareNode
  PROVE  WizardInv'
<1>0. /\ WizardTypeOK /\ setup \in SetupType /\ setupExecutor \in SetupExecutorType
      /\ setupExecutor.tasks \in Seq(TaskType) /\ setup.phase = "finished" /\ selected \in Dirs
  BY DEF WizardInv, WizardTypeOK, SetupExecutorType, Wizard!PrepareNode
<1>1. CASE setup.stopping
  <2>1. /\ selected' = selected /\ prune' = prune /\ preview' = preview /\ storage' = storage
        /\ setupExecutor' = setupExecutor
        /\ setup' = [setup EXCEPT !.phase = "preparing", !.posted = @ \cup {"refused"}]
    BY <1>1 DEF Wizard!PrepareNode
  <2>2. setup' \in SetupType /\ setup'.phase = "preparing" /\ setup'.applied = setup.applied
    <3> DEFINE s == [setup EXCEPT !.phase = "preparing"]
    <3>1. s \in SetupType /\ s.phase = "preparing" /\ s.applied = setup.applied
      BY <1>0 DEF SetupType
    <3>2. setup' = [s EXCEPT !.posted = s.posted \cup {"refused"}]
      BY <2>1
    <3> HIDE DEF s
    <3>3. PICK p \in SUBSET {"refused", "shutdownFinished"} : p = s.posted \cup {"refused"}
      BY <3>1 DEF SetupType
    <3>4. setup' = [s EXCEPT !.posted = p]
      BY <3>2, <3>3
    <3> QED BY <3>1, <3>4 DEF SetupType
  <2> QED BY <2>1, <2>2, <1>0, UntouchedStep
<1>2. CASE ~setup.stopping
  <2>x. PICK x : x = [kind |-> "prepare", id |-> 0, dir |-> selected]
    OBVIOUS
  <2> DEFINE t == Append(setupExecutor.tasks, x)
  <2>1. /\ selected' = selected /\ prune' = prune
        /\ preview' = Wizard!Invalidate(preview) /\ storage' = Wizard!Invalidate(storage)
        /\ setup' = [setup EXCEPT !.phase = "preparing", !.preparing = TRUE, !.stopping = TRUE]
        /\ setupExecutor' = [setupExecutor EXCEPT !.tasks = t]
    BY <1>2, <2>x DEF Wizard!PrepareNode
  <2>2. setup' \in SetupType /\ setup'.phase = "preparing" /\ setup'.applied = setup.applied
    BY <2>1, <1>0 DEF SetupType
  <2>3. x \in TaskType /\ x.kind = "prepare" /\ x.dir = selected
    BY <2>x, <1>0 DEF TaskType, Kinds, Places
  <2>4. t \in Seq(TaskType) /\ Boxes!ToSet(t) = Boxes!ToSet(setupExecutor.tasks) \cup {x}
    BY <2>3, <1>0, AppendElements
  <2>5. setupExecutor' \in SetupExecutorType /\ Items' \subseteq Items \cup {x}
    <3> HIDE DEF t
    <3>1. /\ [setupExecutor EXCEPT !.tasks = t] \in SetupExecutorType
          /\ [setupExecutor EXCEPT !.tasks = t].tasks = t
          /\ [setupExecutor EXCEPT !.tasks = t].results = setupExecutor.results
      BY <2>4, <1>0, TasksUpdate
    <3>2. setupExecutor' \in SetupExecutorType /\ setupExecutor'.tasks = t
          /\ setupExecutor'.results = setupExecutor.results
      BY <2>1, <3>1, Zenon
    <3> QED BY <2>4, <3>2 DEF Items
  <2>6. /\ preview' \in PreviewType /\ preview'.id = preview.id + 1 /\ preview'.pending = preview.pending
        /\ preview'.inFlight = preview.inFlight /\ preview'.error = preview.error /\ preview'.of = preview.of
        /\ preview'.existing = preview.existing /\ preview'.preset = preview.preset
        /\ storage' \in StorageType /\ storage'.id = storage.id + 1 /\ storage'.pending = storage.pending
        /\ storage'.failed = storage.failed /\ storage'.path = storage.path /\ storage'.of = storage.of
    BY <2>1, <1>0, Invalidated
  <2>7. WizardTypeOK'
    BY <2>1, <2>2, <2>5, <2>6, <1>0 DEF WizardTypeOK
  <2>8. RequestsAreCurrent'
    <3>1. preview'.id > preview.id /\ storage'.id > storage.id
      BY <2>6, <1>0 DEF WizardTypeOK, PreviewType, StorageType
    <3>2. RequestIsCurrent(x)'
      BY <2>1, <2>2, <2>3 DEF RequestIsCurrent
    <3> QED BY <3>1, <3>2, <2>1, <2>2, <2>5, <2>7, RequestAdded
  <2>9. StatusIsAlone'
    <3>1. NoStatus
      BY <1>0 DEF WizardInv, StatusIsAlone, StatusIsFirst
    <3> QED BY <3>1, <2>3, <2>5, NoStatusStays DEF StatusIsAlone
  <2>10. SelectionInv'
    BY <2>1, <2>2, <2>6, <1>0, SelectionStays DEF WizardInv
  <2> QED BY <2>7, <2>8, <2>9, <2>10 DEF WizardInv
<1> QED BY <1>1, <1>2

LEMMA StorageCheckFollows ==
  ASSUME WizardInv, NEW kind, Wizard!Receives(kind), NEW id \in Nat, NEW dir \in Places, NEW x,
         x = [kind |-> "storage", id |-> id, dir |-> dir],
         setupExecutor' = [Wizard!Delivered EXCEPT !.tasks = Wizard!StartStorageCheck(@, id, dir)]
  PROVE  setupExecutor' \in SetupExecutorType /\ Items' \subseteq Items \cup {x}
<1> DEFINE d == Wizard!Delivered
<1>0. x \in TaskType
  BY DEF TaskType, Kinds
<1>1. d.tasks = setupExecutor.tasks
  BY ResultTaken
<1>2. setupExecutor' = [d EXCEPT !.tasks = Append(setupExecutor.tasks, x)]
  BY <1>1, Zenon DEF Wizard!StartStorageCheck
<1> QED BY <1>0, <1>2, RequestFollows

LEMMA ChangedRecommendation ==
  ASSUME NEW p \in PruneType, NEW value \in BOOLEAN, NEW touched \in BOOLEAN
  PROVE  LET q == Wizard!ChangePruneRecommendation(p, value, PruneTarget, touched)
         IN /\ q \in PruneType /\ q.value = value /\ q.touched = touched /\ q.auto = p.auto
            /\ q.user = p.user /\ q.size \in {p.size, PruneTarget}
<1>1. PICK s \in {p.size, PruneTarget} : s = IF value THEN PruneTarget ELSE p.size
  OBVIOUS
<1>2. s \in Nat \cup PruneSizes
  BY <1>1, SizesAssumption DEF PruneType
<1> DEFINE a == [p EXCEPT !.value = value]
           b == [a EXCEPT !.size = s]
<1>3. a \in PruneType /\ a.value = value /\ a.size = p.size /\ a.auto = p.auto /\ a.user = p.user
  BY DEF PruneType
<1>4. Wizard!ChangePruneRecommendation(p, value, PruneTarget, touched)
        = [[a EXCEPT !.size = IF value THEN PruneTarget ELSE a.size] EXCEPT !.touched = touched]
  BY DEF Wizard!ChangePruneRecommendation
<1>5. Wizard!ChangePruneRecommendation(p, value, PruneTarget, touched) = [b EXCEPT !.touched = touched]
  BY <1>1, <1>3, <1>4
<1> HIDE DEF a
<1>6. b \in PruneType /\ b.value = value /\ b.size = s /\ b.auto = p.auto /\ b.user = p.user
  BY <1>2, <1>3 DEF PruneType
<1> HIDE DEF b
<1>7. LET q == [b EXCEPT !.touched = touched]
      IN /\ q \in PruneType /\ q.value = value /\ q.touched = touched /\ q.auto = b.auto
         /\ q.user = b.user /\ q.size = b.size
  BY <1>6 DEF PruneType
<1> QED BY <1>1, <1>5, <1>6, <1>7

\* What a preview makes of the recommendation: the profile's own setting, or
\* the one configured, unless the user chose or the wizard still recommends.
PreviewedPrune(p, read) ==
  LET recommended == IF read.existing /\ p.auto
                     THEN [Wizard!ChangePruneRecommendation(p, read.preset, PruneTarget, FALSE) EXCEPT !.auto = FALSE]
                     ELSE p
  IN IF recommended.touched THEN recommended
     ELSE [recommended EXCEPT !.value = read.preset, !.size = PruneTarget]

LEMMA PreviewRecommends ==
  ASSUME NEW p \in PruneType, NEW read \in Places,
         ~p.user => p.size = PruneTarget /\ p.touched = p.auto /\ (p.auto => p.value)
  PROVE  LET q == PreviewedPrune(p, read)
         IN /\ q \in PruneType
            /\ ~q.user => /\ q.size = PruneTarget /\ q.touched = q.auto /\ (q.auto => q.value)
                          /\ (read.existing \/ read.preset) => q.value = read.preset
<1>0. read.existing \in BOOLEAN /\ read.preset \in BOOLEAN /\ PruneTarget \in Nat
  BY PlaceFacts, SizesAssumption
<1> DEFINE c == Wizard!ChangePruneRecommendation(p, read.preset, PruneTarget, FALSE)
           r == IF read.existing /\ p.auto THEN [c EXCEPT !.auto = FALSE] ELSE p
<1>1. r \in PruneType /\ r.user = p.user /\ r.size \in {p.size, PruneTarget}
      /\ (~p.user => r.touched = r.auto /\ (r.auto => r.value /\ ~read.existing))
  <2>1. CASE read.existing /\ p.auto
    <3>1. c \in PruneType /\ c.touched = FALSE /\ c.user = p.user /\ c.size \in {p.size, PruneTarget}
      BY <1>0, ChangedRecommendation
    <3> HIDE DEF c
    <3>2. r = [c EXCEPT !.auto = FALSE]
      BY <2>1
    <3> HIDE DEF r
    <3> QED BY <3>1, <3>2 DEF PruneType
  <2>2. CASE ~(read.existing /\ p.auto)
    <3>1. r = p
      BY <2>2
    <3> HIDE DEF r
    <3> QED BY <3>1, <2>2
  <2> QED BY <2>1, <2>2
<1>2. PreviewedPrune(p, read) = IF r.touched THEN r ELSE [r EXCEPT !.value = read.preset, !.size = PruneTarget]
  BY DEF PreviewedPrune
<1> HIDE DEF r
<1>3. CASE r.touched
  BY <1>1, <1>2, <1>3, <1>0 DEF PruneType
<1>4. CASE ~r.touched
  <2> DEFINE q == [r EXCEPT !.value = read.preset, !.size = PruneTarget]
  <2>1. /\ q \in PruneType /\ q.value = read.preset /\ q.size = PruneTarget /\ q.touched = r.touched
        /\ q.auto = r.auto /\ q.user = r.user
    BY <1>0, <1>1 DEF PruneType
  <2> HIDE DEF q
  <2>2. PreviewedPrune(p, read) = q
    BY <1>2, <1>4 DEF q
  <2> QED BY <2>1, <2>2, <1>1, <1>4
<1> QED BY <1>3, <1>4

LEMMA OnPreviewStep ==
  ASSUME WizardInv, Wizard!OnPreview
  PROVE  WizardInv'
<1> DEFINE result == Head(setupExecutor.results)
<1>0. /\ WizardTypeOK /\ preview \in PreviewType /\ preview.id \in Nat /\ storage \in StorageType
      /\ storage.id \in Nat /\ selected \in Dirs /\ selected \in Places /\ prune \in PruneType
  BY DEF WizardInv, WizardTypeOK, PreviewType, StorageType, Places
<1>1. Wizard!Receives("preview") /\ selected' = selected /\ setup' = setup
  BY DEF Wizard!OnPreview
<1>2. result \in ResultType /\ result \in Items /\ result.kind = "preview"
  BY <1>1, ResultTaken
<1>3. NoStatus
  BY <1>1, OtherResultMeansNoStatus
<1>4. CASE result.id # preview.id
  <2>1. /\ setupExecutor' = [Wizard!Delivered EXCEPT !.tasks = Wizard!StartPreview(@, preview.id, selected)]
        /\ preview' = [preview EXCEPT !.inFlight = ~setup.stopping]
        /\ storage' = storage /\ prune' = prune
    BY <1>4 DEF Wizard!OnPreview
  <2>2. PICK x : x = [kind |-> "preview", id |-> preview.id, dir |-> selected]
    OBVIOUS
  <2>3. setupExecutor' \in SetupExecutorType /\ Items' \subseteq Items \cup {x}
    BY <2>1, <2>2, <1>0, <1>1, PreviewFollows
  <2>4. /\ preview' \in PreviewType /\ preview'.id = preview.id /\ preview'.pending = preview.pending
        /\ preview'.error = preview.error /\ preview'.of = preview.of
        /\ preview'.existing = preview.existing /\ preview'.preset = preview.preset
    <3>1. PICK b \in BOOLEAN : preview' = [preview EXCEPT !.inFlight = b]
      BY <2>1
    <3> QED BY <3>1, <1>0 DEF PreviewType
  <2>5. WizardTypeOK'
    BY <2>1, <2>3, <2>4, <1>0, <1>1 DEF WizardTypeOK
  <2>6. RequestsAreCurrent'
    <3>1. RequestIsCurrent(x)'
      BY <2>2, <2>4, <1>0, <1>1 DEF RequestIsCurrent
    <3> QED BY <3>1, <2>1, <2>3, <2>4, <2>5, <1>1, RequestAdded
  <2>7. StatusIsAlone'
    <3>1. x.kind # "status"
      BY <2>2
    <3> QED BY <3>1, <2>3, <1>3, NoStatusStays DEF StatusIsAlone
  <2>8. SelectionInv'
    BY <2>1, <2>4, <1>1, SelectionStays DEF WizardInv
  <2> QED BY <2>5, <2>6, <2>7, <2>8 DEF WizardInv
<1>5. CASE result.id = preview.id /\ result.outcome # "ok"
  <2>1. /\ setupExecutor' = Wizard!Delivered
        /\ preview' = [preview EXCEPT !.inFlight = FALSE, !.pending = FALSE, !.error = TRUE]
        /\ storage' = storage /\ prune' = prune
    BY <1>5 DEF Wizard!OnPreview
  <2>2. setupExecutor' \in SetupExecutorType /\ Items' \subseteq Items
    BY <2>1, <1>1, NothingFollows
  <2>3. preview' \in PreviewType /\ preview'.id = preview.id /\ preview'.error /\ preview'.of = preview.of
    BY <2>1, <1>0 DEF PreviewType
  <2>4. WizardTypeOK'
    BY <2>1, <2>2, <2>3, <1>0, <1>1 DEF WizardTypeOK
  <2>5. RequestsAreCurrent'
    BY <2>1, <2>2, <2>3, <2>4, <1>1, RequestsStay
  <2>6. StatusIsAlone'
    BY <2>2, <1>3 DEF StatusIsAlone, NoStatus
  <2>7. SelectionInv'
    <3>1. ~Previewed' /\ ~Checked'
      BY <2>3 DEF Previewed, Checked
    <3>2. FinishedIsSettled'
      BY <2>1, <2>3, <1>1 DEF WizardInv, SelectionInv, FinishedIsSettled
    <3>3. RecommendationFits'
      BY <3>1, <2>1 DEF WizardInv, SelectionInv, RecommendationFits
    <3> QED BY <3>1, <3>2, <3>3 DEF SelectionInv, PreviewIsOfSelection, StorageIsOfSelection
  <2> QED BY <2>4, <2>5, <2>6, <2>7 DEF WizardInv
<1>6. CASE result.id = preview.id /\ result.outcome = "ok"
  <2>1. result.dir = selected
    BY <1>2, <1>6 DEF WizardInv, RequestsAreCurrent, RequestIsCurrent
  <2>2. /\ preview' = [preview EXCEPT !.inFlight = FALSE, !.pending = FALSE, !.error = FALSE,
                         !.existing = selected.existing, !.preset = selected.preset, !.of = selected]
        /\ prune' = PreviewedPrune(prune, selected)
        /\ storage' = Wizard!RequestStorageCheck(storage)
        /\ setupExecutor' = IF storage.inFlight THEN Wizard!Delivered
                            ELSE [Wizard!Delivered EXCEPT !.tasks =
                                    Wizard!StartStorageCheck(@, storage.id + 1, selected)]
    BY <2>1, <1>6 DEF Wizard!OnPreview, PreviewedPrune
  <2>3. selected.existing \in BOOLEAN /\ selected.preset \in BOOLEAN
    BY <1>0, PlaceFacts
  <2>4. /\ preview' \in PreviewType /\ preview'.id = preview.id /\ preview'.of = selected
        /\ preview'.existing = selected.existing /\ preview'.preset = selected.preset
    BY <2>2, <2>3, <1>0 DEF PreviewType
  <2>5. /\ storage' \in StorageType /\ storage'.id = storage.id + 1 /\ storage'.path = selected
        /\ storage'.pending /\ storage'.of = storage.of
    <3>1. PICK n \in Nat : n = storage.id + 1
      BY <1>0
    <3>2. storage' = [storage EXCEPT !.id = n, !.path = selected, !.pending = TRUE, !.inFlight = TRUE]
      BY <2>2, <3>1 DEF Wizard!RequestStorageCheck
    <3>3. /\ storage' \in StorageType /\ storage'.id = n /\ storage'.path = selected
          /\ storage'.pending /\ storage'.of = storage.of
      BY <3>2, <1>0 DEF StorageType
    <3> QED BY <3>1, <3>3
  <2>6. /\ prune' \in PruneType
        /\ ~prune'.user => /\ prune'.size = PruneTarget /\ prune'.touched = prune'.auto
                           /\ prune'.auto => prune'.value
                           /\ (selected.existing \/ selected.preset) => prune'.value = selected.preset
    <3>1. ~prune.user => prune.size = PruneTarget /\ prune.touched = prune.auto /\ (prune.auto => prune.value)
      BY DEF WizardInv, SelectionInv, RecommendationFits
    <3>2. PICK q : q = PreviewedPrune(prune, selected)
      OBVIOUS
    <3>3. /\ q \in PruneType
          /\ ~q.user => /\ q.size = PruneTarget /\ q.touched = q.auto /\ (q.auto => q.value)
                        /\ (selected.existing \/ selected.preset) => q.value = selected.preset
      BY <3>1, <3>2, <1>0, PreviewRecommends
    <3> QED BY <3>2, <3>3, <2>2, Zenon
  <2>7. PICK x : x = [kind |-> "storage", id |-> storage.id + 1, dir |-> selected]
    OBVIOUS
  <2>8. setupExecutor' \in SetupExecutorType /\ Items' \subseteq Items \cup {x}
    <3>1. CASE storage.inFlight
      BY <3>1, <2>2, <1>1, NothingFollows
    <3>2. CASE ~storage.inFlight
      <4>1. setupExecutor' = [Wizard!Delivered EXCEPT !.tasks =
                                Wizard!StartStorageCheck(@, storage.id + 1, selected)]
        BY <3>2, <2>2
      <4>2. storage.id + 1 \in Nat
        BY <1>0
      <4> QED BY <4>1, <4>2, <2>7, <1>0, <1>1, StorageCheckFollows
    <3> QED BY <3>1, <3>2
  <2>9. WizardTypeOK'
    BY <2>4, <2>5, <2>6, <2>8, <1>0, <1>1 DEF WizardTypeOK
  <2>10. RequestsAreCurrent'
    <3>1. RequestIsCurrent(x)'
      BY <2>5, <2>7, <1>0 DEF RequestIsCurrent
    <3>2. storage'.id > storage.id
      BY <2>5, <1>0
    <3> QED BY <3>1, <3>2, <2>4, <2>8, <2>9, <1>1, RequestAdded
  <2>11. StatusIsAlone'
    <3>1. x.kind # "status"
      BY <2>7
    <3> QED BY <3>1, <2>8, <1>3, NoStatusStays DEF StatusIsAlone
  <2>12. SelectionInv'
    <3>1. ~Checked'
      BY <2>5 DEF Checked
    <3>2. PreviewIsOfSelection' /\ StorageIsOfSelection'
      BY <3>1, <2>4, <2>5, <1>1 DEF PreviewIsOfSelection, StorageIsOfSelection
    <3>3. FinishedIsSettled'
      BY <2>4, <2>5, <1>1 DEF WizardInv, SelectionInv, FinishedIsSettled
    <3>4. RecommendationFits'
      BY <3>1, <2>6, <1>1 DEF RecommendationFits
    <3> QED BY <3>2, <3>3, <3>4 DEF SelectionInv
  <2> QED BY <2>9, <2>10, <2>11, <2>12 DEF WizardInv
<1> QED BY <1>4, <1>5, <1>6

\* What a finished disk check makes of the recommendation.
LEMMA CheckRecommends ==
  ASSUME NEW s, WizardTypeOK, s.valid \in BOOLEAN, s.gb \in Nat
  PROVE  LET q == Wizard!ApplyAutomaticPruneRecommendation(s)
         IN /\ q \in PruneType /\ q.user = prune.user
            /\ ~s.valid \/ preview.existing \/ preview.preset => q = prune
            /\ prune.size = PruneTarget => q.size = PruneTarget
            /\ prune.touched = prune.auto => q.touched = q.auto
            /\ (prune.auto => prune.value) => (q.auto => q.value)
            /\ s.valid /\ ~preview.existing /\ ~preview.preset /\ prune.touched = prune.auto =>
                 q.value = (s.gb < Wizard!FullRequired + 10)
<1>0. prune \in PruneType /\ preview \in PreviewType
  BY DEF WizardTypeOK
<1> DEFINE should == Wizard!ShouldRecommendPrune(preview.existing, s.gb)
           c == Wizard!ChangePruneRecommendation(prune, should, PruneTarget, should)
           applies == ~(~s.valid \/ preview.existing \/ preview.preset \/ (prune.touched /\ ~prune.auto))
           q == Wizard!ApplyAutomaticPruneRecommendation(s)
<1>1. CASE ~applies
  <2>1. q = prune
    BY <1>1 DEF Wizard!ApplyAutomaticPruneRecommendation
  <2>2. ~(s.valid /\ ~preview.existing /\ ~preview.preset /\ prune.touched = prune.auto)
    BY <1>1
  <2> QED BY <2>1, <2>2, <1>0
<1>2. CASE applies
  <2>1. PICK b \in BOOLEAN : b = should
    BY DEF Wizard!ShouldRecommendPrune
  <2>2. PICK d : d = Wizard!ChangePruneRecommendation(prune, b, PruneTarget, b)
    OBVIOUS
  <2>3. /\ d \in PruneType /\ d.value = b /\ d.touched = b /\ d.user = prune.user
        /\ d.size \in {prune.size, PruneTarget}
    BY <1>0, <2>2, ChangedRecommendation
  <2>4. q = [d EXCEPT !.auto = b]
    BY <1>2, <2>1, <2>2 DEF Wizard!ApplyAutomaticPruneRecommendation
  <2> HIDE DEF q
  <2>5. /\ q \in PruneType /\ q.value = b /\ q.touched = b /\ q.auto = b /\ q.user = prune.user
        /\ q.size \in {prune.size, PruneTarget}
    BY <2>3, <2>4 DEF PruneType
  <2>6. s.valid /\ ~preview.existing /\ ~preview.preset
    BY <1>2
  <2>7. b = (s.gb < Wizard!FullRequired + 10)
    BY <2>1, <2>6 DEF Wizard!ShouldRecommendPrune
  <2> QED BY <2>5, <2>6, <2>7 DEF q
<1> QED BY <1>1, <1>2

LEMMA OnStorageStep ==
  ASSUME WizardInv, Wizard!OnStorage
  PROVE  WizardInv'
<1> DEFINE result == Head(setupExecutor.results)
<1>0. /\ WizardTypeOK /\ storage \in StorageType /\ storage.id \in Nat /\ storage.path \in Places
      /\ selected \in Dirs
  BY DEF WizardInv, WizardTypeOK, StorageType
<1>1. Wizard!Receives("storage") /\ selected' = selected /\ preview' = preview /\ setup' = setup
  BY DEF Wizard!OnStorage
<1>2. result \in ResultType /\ result \in Items /\ result.kind = "storage"
  BY <1>1, ResultTaken
<1>3. NoStatus
  BY <1>1, OtherResultMeansNoStatus
<1>4. CASE result.id # storage.id
  <2> DEFINE restarts == ~preview.pending /\ ~setup.stopping
  <2>1. /\ prune' = prune /\ storage' = [storage EXCEPT !.inFlight = restarts]
        /\ setupExecutor' = IF restarts
                            THEN [Wizard!Delivered EXCEPT !.tasks =
                                    Wizard!StartStorageCheck(@, storage.id, storage.path)]
                            ELSE Wizard!Delivered
    BY <1>4 DEF Wizard!OnStorage
  <2>2. /\ storage' \in StorageType /\ storage'.id = storage.id /\ storage'.pending = storage.pending
        /\ storage'.failed = storage.failed /\ storage'.path = storage.path /\ storage'.of = storage.of
    <3>1. PICK b \in BOOLEAN : storage' = [storage EXCEPT !.inFlight = b]
      BY <2>1
    <3> QED BY <3>1, <1>0 DEF StorageType
  <2>3. PICK x : x = [kind |-> "storage", id |-> storage.id, dir |-> storage.path]
    OBVIOUS
  <2>4. setupExecutor' \in SetupExecutorType /\ Items' \subseteq Items \cup {x}
    <3>1. CASE restarts
      <4>1. setupExecutor' = [Wizard!Delivered EXCEPT !.tasks =
                                Wizard!StartStorageCheck(@, storage.id, storage.path)]
        BY <3>1, <2>1
      <4> QED BY <4>1, <2>3, <1>0, <1>1, StorageCheckFollows
    <3>2. CASE ~restarts
      BY <3>2, <2>1, <1>1, NothingFollows
    <3> QED BY <3>1, <3>2
  <2>5. WizardTypeOK'
    BY <2>1, <2>2, <2>4, <1>0, <1>1 DEF WizardTypeOK
  <2>6. RequestsAreCurrent'
    <3>1. RequestIsCurrent(x)'
      BY <2>2, <2>3, <1>0 DEF RequestIsCurrent
    <3> QED BY <3>1, <2>2, <2>4, <2>5, <1>1, RequestAdded
  <2>7. StatusIsAlone'
    <3>1. x.kind # "status"
      BY <2>3
    <3> QED BY <3>1, <2>4, <1>3, NoStatusStays DEF StatusIsAlone
  <2>8. SelectionInv'
    BY <2>1, <2>2, <1>1, SelectionStays DEF WizardInv
  <2> QED BY <2>5, <2>6, <2>7, <2>8 DEF WizardInv
<1>5. CASE result.id = storage.id
  <2> DEFINE gb == IF result.outcome = "ok" THEN result.dir.gb ELSE 0
  <2>1. /\ prune' = Wizard!ApplyAutomaticPruneRecommendation(storage') /\ setupExecutor' = Wizard!Delivered
        /\ storage' = [storage EXCEPT !.inFlight = FALSE, !.pending = FALSE, !.valid = result.outcome = "ok",
                         !.failed = result.outcome # "ok", !.gb = gb, !.of = result.dir]
    BY <1>5 DEF Wizard!OnStorage
  <2>2. result.dir = storage.path
    BY <1>2, <1>5 DEF WizardInv, RequestsAreCurrent, RequestIsCurrent
  <2>3. result.dir.gb \in Nat /\ result.dir \in Places
    BY <2>2, <1>0, PlaceFacts
  <2>4. /\ storage' \in StorageType /\ storage'.id = storage.id /\ storage'.path = storage.path
        /\ storage'.of = storage.path /\ storage'.valid = ~storage'.failed
        /\ storage'.valid => storage'.gb = storage.path.gb
    <3>1. PICK ok \in BOOLEAN : ok = (result.outcome = "ok")
      OBVIOUS
    <3>2. PICK n \in Nat : n = gb
      BY <2>3
    <3>3. PICK d \in Places : d = result.dir
      BY <2>3
    <3> HIDE DEF gb
    <3>4. storage' = [storage EXCEPT !.inFlight = FALSE, !.pending = FALSE, !.valid = ok,
                        !.failed = ~ok, !.gb = n, !.of = d]
      BY <2>1, <3>1, <3>2, <3>3
    <3>5. /\ storage' \in StorageType /\ storage'.id = storage.id /\ storage'.path = storage.path
          /\ storage'.of = d /\ storage'.valid = ok /\ storage'.failed = ~ok /\ storage'.gb = n
      BY <3>4, <1>0 DEF StorageType
    <3>6. ok => n = d.gb
      BY <3>1, <3>2, <3>3 DEF gb
    <3> QED BY <3>3, <3>5, <3>6, <2>2
  <2>5. storage'.valid \in BOOLEAN /\ storage'.gb \in Nat
    BY <2>4 DEF StorageType
  <2>6. PICK s, q : s = storage' /\ q = prune'
    OBVIOUS
  <2>7. /\ q \in PruneType /\ q.user = prune.user
        /\ ~s.valid \/ preview.existing \/ preview.preset => q = prune
        /\ prune.size = PruneTarget => q.size = PruneTarget
        /\ prune.touched = prune.auto => q.touched = q.auto
        /\ (prune.auto => prune.value) => (q.auto => q.value)
        /\ s.valid /\ ~preview.existing /\ ~preview.preset /\ prune.touched = prune.auto =>
             q.value = (s.gb < Wizard!FullRequired + 10)
    <3>1. q = Wizard!ApplyAutomaticPruneRecommendation(s) /\ s.valid \in BOOLEAN /\ s.gb \in Nat
      BY <2>1, <2>5, <2>6
    <3> QED BY <3>1, <1>0, CheckRecommends
  <2>8. setupExecutor' \in SetupExecutorType /\ Items' \subseteq Items
    BY <2>1, <1>1, NothingFollows
  <2>9. WizardTypeOK'
    BY <2>4, <2>6, <2>7, <2>8, <1>0, <1>1 DEF WizardTypeOK
  <2>10. RequestsAreCurrent'
    BY <2>4, <2>8, <2>9, <1>1, RequestsStay
  <2>11. StatusIsAlone'
    BY <2>8, <1>3 DEF StatusIsAlone, NoStatus
  <2>12. SelectionInv'
    <3>1. Previewed' <=> Previewed
      BY <1>1 DEF Previewed
    <3>2. PreviewIsOfSelection'
      BY <3>1, <2>4, <1>1 DEF WizardInv, SelectionInv, PreviewIsOfSelection
    <3>3. Checked' => /\ storage.path = selected /\ storage'.valid /\ preview.existing = selected.existing
                      /\ preview.preset = selected.preset
      BY <3>1, <2>4 DEF WizardInv, SelectionInv, PreviewIsOfSelection, Checked
    <3>4. StorageIsOfSelection'
      BY <3>3, <2>4, <1>1 DEF StorageIsOfSelection
    <3>5. FinishedIsSettled'
      BY <2>4, <1>1 DEF WizardInv, SelectionInv, FinishedIsSettled
    <3>6. ASSUME ~q.user
          PROVE  /\ q.size = PruneTarget /\ q.touched = q.auto /\ (q.auto => q.value)
                 /\ Previewed /\ (selected.existing \/ selected.preset) => q.value = selected.preset
                 /\ Checked' /\ ~selected.existing /\ ~selected.preset =>
                      q.value = (selected.gb < Wizard!FullRequired + 10)
      <4>1. /\ prune.size = PruneTarget /\ prune.touched = prune.auto /\ (prune.auto => prune.value)
            /\ Previewed /\ (selected.existing \/ selected.preset) => prune.value = selected.preset
        BY <2>7, <3>6 DEF WizardInv, SelectionInv, RecommendationFits
      <4>2. Previewed => preview.existing = selected.existing /\ preview.preset = selected.preset
        BY DEF WizardInv, SelectionInv, PreviewIsOfSelection
      <4>3. Previewed /\ (selected.existing \/ selected.preset) => q.value = selected.preset
        BY <4>1, <4>2, <2>7
      <4>4. ASSUME Checked', ~selected.existing, ~selected.preset
            PROVE  q.value = (selected.gb < Wizard!FullRequired + 10)
        <5>1. s.valid /\ ~preview.existing /\ ~preview.preset /\ s.gb = selected.gb
          BY <4>4, <3>3, <2>4, <2>6
        <5> QED BY <5>1, <4>1, <2>7
      <4> QED BY <4>1, <4>3, <4>4, <2>7
    <3>7. RecommendationFits'
      BY <3>1, <3>6, <2>6, <1>1 DEF RecommendationFits
    <3> QED BY <3>2, <3>4, <3>5, <3>7 DEF SelectionInv
  <2> QED BY <2>9, <2>10, <2>11, <2>12 DEF WizardInv
<1> QED BY <1>4, <1>5

(***************************************************************************)
(* The theorems                                                            *)
(***************************************************************************)
LEMMA BoxesUnchanged == BoxesInv /\ UNCHANGED boxVars => BoxesInv'
<1> SUFFICES ASSUME BoxesInv, UNCHANGED boxVars PROVE BoxesInv'
  OBVIOUS
<1>1. /\ calls' = calls /\ waits' = waits /\ events' = events /\ loops' = loops /\ active' = active
      /\ dialogs' = dialogs /\ answers' = answers /\ startup' = startup
  BY DEF boxVars
<1>2. Queued' = Queued /\ Looping' = Looping /\ Shown' = Shown /\ Kept' = Kept
  BY <1>1 DEF Queued, Looping, Shown, Kept
<1> QED BY <1>1, <1>2 DEF BoxesInv, BoxesTypeOK, IdsAreCalls, OneDialogIsShown, WaitsForAnswers,
  InitializationEndsOnce, WaitsAreHeld, LoopsHaveDialogs, FirstIsShown, WarningsAreKept

LEMMA BoxesNext == BoxesInv /\ [MCNext]_<<part, vars, wizardVars, boxVars>> => BoxesInv'
<1> SUFFICES ASSUME BoxesInv, [MCNext]_<<part, vars, wizardVars, boxVars>> PROVE BoxesInv'
  OBVIOUS
<1>1. CASE UNCHANGED boxVars
  BY <1>1, BoxesUnchanged
<1>2. CASE Boxes!DialogNext
  BY <1>2, CallStep, InitializeEndsStep, HandleCallStep, LoopReturnsStep, RequestShutdownStep,
     InitializeResultStep, AnswerStep DEF Boxes!DialogNext
<1> QED BY <1>1, <1>2 DEF MCNext, WizardStep, NodeStep, BoxesStep

LEMMA WizardUnchanged == WizardInv /\ UNCHANGED wizardVars => WizardInv'
<1> SUFFICES ASSUME WizardInv, UNCHANGED wizardVars PROVE WizardInv'
  OBVIOUS
<1>1. /\ selected' = selected /\ preview' = preview /\ storage' = storage /\ prune' = prune
      /\ setup' = setup /\ setupExecutor' = setupExecutor
  BY DEF wizardVars
<1>2. setup' \in SetupType /\ setupExecutor' \in SetupExecutorType
  BY <1>1 DEF WizardInv, WizardTypeOK
<1> QED BY <1>1, <1>2, UntouchedStep

LEMMA WizardNext == WizardInv /\ [MCNext]_<<part, vars, wizardVars, boxVars>> => WizardInv'
<1> SUFFICES ASSUME WizardInv, [MCNext]_<<part, vars, wizardVars, boxVars>> PROVE WizardInv'
  OBVIOUS
<1>1. CASE UNCHANGED wizardVars
  BY <1>1, WizardUnchanged
<1>2. CASE Wizard!SetupNext
  <2>1. ASSUME NEW outcome \in {"ok", "fail", "throw"}, NEW dir \in Dirs,
               Wizard!ResolveStatus(outcome, dir) \/ Wizard!ReadPreview(outcome)
               \/ Wizard!CheckStorageSpace(outcome)
        PROVE  WizardInv'
    BY <2>1, ReadingTaskStep DEF Outcomes
  <2>2. ASSUME NEW outcome \in {"ok", "fail", "throw"}, Wizard!ApplyAndPrepare(outcome)
        PROVE  WizardInv'
    BY <2>2, ApplyAndPrepareStep DEF Outcomes
  <2>3. DefaultDir \in Dirs
    BY SizesAssumption
  <2>4. CASE Wizard!SetupProgress
    BY <2>1, <2>2, <2>3, <2>4, OnStatusStep, OnPreviewStep, OnStorageStep, OnPreparedStep, PrepareNodeStep,
       DrainedStep, PostedStep DEF Wizard!SetupProgress
  <2> QED BY <1>2, <2>4, FinishStep, BeginShutdownStep, SelectDataDirStep, EditPruneStep DEF Wizard!SetupNext
<1> QED BY <1>1, <1>2 DEF MCNext, WizardStep, NodeStep, BoxesStep

\* A blocked thread's call is always where its answer can come from, and no
\* startup warning is dropped, whatever the threads ask and in every order of
\* answers, nested loops, initialization's end and shutdown
\* (NodeModel::showRuntimeDialogOnGuiThread, answerRuntimeDialog, initializeResult).
THEOREM NoDialogIsLost == StartupSpec => []DialogsAreKept
<1>1. MCInit => BoxesInv
  BY BoxesInitially DEF MCInit
<1>2. BoxesInv /\ [MCNext]_<<part, vars, wizardVars, boxVars>> => BoxesInv'
  BY BoxesNext
<1>3. BoxesInv => DialogsAreKept
  BY BoxesKept DEF DialogsAreKept
<1> QED BY <1>1, <1>2, <1>3, PTL DEF StartupSpec

\* The wizard finishes, and the node is prepared, only with what was checked of
\* the directory that is selected, whichever answers of its executor come late,
\* fail or are overtaken (OnboardingOptionsModel::canFinish, applyPreview,
\* applyStorageCheckResult, applyAutomaticPruneRecommendation).
THEOREM SetupFinishesChecked == StartupSpec => []FinishedSelectionIsChecked
<1>1. MCInit => WizardInv
  BY WizardInitially DEF MCInit
<1>2. WizardInv /\ [MCNext]_<<part, vars, wizardVars, boxVars>> => WizardInv'
  BY WizardNext
<1>3. WizardInv => FinishedSelectionIsChecked
  BY WizardFinishes DEF FinishedSelectionIsChecked
<1> QED BY <1>1, <1>2, <1>3, PTL DEF StartupSpec
=============================================================================
