-------------------------- MODULE BackendExecutor --------------------------
(***************************************************************************)
(* The serial task executors every model of the GUI hands its node and     *)
(* wallet calls to (qml/backendexecutor.{h,cpp}), together with the        *)
(* asynchronous thread joins they and other objects use (qml/asyncjoin.h). *)
(*                                                                         *)
(* Three kinds of actors take steps: the GUI thread, which calls the       *)
(* public operations and handles the events posted to it; one worker       *)
(* thread per executor, which runs the events posted to it; and one        *)
(* detached joiner thread per thread that is being joined.  The Qt event   *)
(* loop and QThread are external: a posted event list is a FIFO sequence   *)
(* per thread, and an event for a destroyed receiver does nothing.         *)
(***************************************************************************)
EXTENDS Integers, Sequences, FiniteSets

CONSTANTS Executors,     \* BackendExecutor objects (each is constructed once)
          OtherThreads,  \* threads joined with JoinThreadAsync by other objects
          Receivers,     \* QObjects that tasks are submitted for
          Waiters,       \* QObjects that call shutdownAll (each once)
          MaxTasks       \* bound on the tasks accepted by one executor

ASSUME ThreadsAssumption ==
  /\ IsFiniteSet(Executors) /\ IsFiniteSet(OtherThreads)
  /\ Executors \cap OtherThreads = {}
ASSUME ReceiversAssumption == Receivers \cap Waiters = {}
ASSUME MaxTasksAssumption == MaxTasks \in Nat

Threads == Executors \cup OtherThreads

VARIABLES
  owner,          \* is the BackendExecutor object unborn, alive or destroyed
  stopping,       \* m_stopping
  drained,        \* m_drained
  nextTaskId,     \* m_next_task_id
  guiCompletions, \* m_gui_completions, with the receiver each one guards
  inbox,          \* events posted to the worker object
  retained,       \* m_retained_tasks of the worker
  thread,         \* life of the QThread
  join,           \* progress of JoinThreadAsync for the thread
  pendingJoins,   \* ThreadJoinRegistry::pending_joins
  ownersByThread, \* keys of ExecutorRegistry::owners_by_thread
  execCallbacks,  \* ExecutorRegistry::drain_callbacks
  joinCallbacks,  \* ThreadJoinRegistry::drain_callbacks
  guiQueue,       \* events posted to objects of the GUI thread
  active,         \* the completion callback the GUI thread is inside of
  live,           \* receivers and waiters that have not been destroyed
  ran,            \* history: ids of the tasks run, in order
  delivered,      \* history: ids whose done/failed callback was invoked
  done,           \* history: waiters whose drain callback ran
  waitingFor      \* history: threads a waiter found registered or in a join

execVars == <<owner, stopping, drained, nextTaskId, guiCompletions>>
workerVars == <<inbox, retained, thread>>
joinVars == <<join, pendingJoins, ownersByThread, execCallbacks, joinCallbacks>>
histVars == <<ran, delivered, done, waitingFor>>
vars == <<execVars, workerVars, joinVars, guiQueue, active, live, histVars>>

NoTask == [ex |-> "none", id |-> 0]

RunEvent(id) == [kind |-> "run", id |-> id]
ReleaseEvent(id) == [kind |-> "release", id |-> id]
StopEvent == [kind |-> "stop", id |-> 0]

WorkerEvents == [kind : {"run", "release", "stop"}, id : Nat]

GuiEvent(kind, who, id) == [kind |-> kind, who |-> who, id |-> id]

GuiEvents ==
  [kind : {"completed"}, who : Executors, id : Nat]
    \cup [kind : {"quit", "finished"}, who : Executors, id : {0}]
    \cup [kind : {"joined"}, who : Threads, id : {0}]
    \cup [kind : {"drained"}, who : Waiters, id : {0}]

Init ==
  /\ owner = [e \in Executors |-> "unborn"]
  /\ stopping = [e \in Executors |-> FALSE]
  /\ drained = [e \in Executors |-> FALSE]
  /\ nextTaskId = [e \in Executors |-> 0]
  /\ guiCompletions = [e \in Executors |-> {}]
  /\ inbox = [e \in Executors |-> <<>>]
  /\ retained = [e \in Executors |-> {}]
  /\ thread = [t \in Threads |-> IF t \in Executors THEN "unborn" ELSE "running"]
  /\ join = [t \in Threads |-> "none"]
  /\ pendingJoins = 0
  /\ ownersByThread = {}
  /\ execCallbacks = <<>>
  /\ joinCallbacks = <<>>
  /\ guiQueue = <<>>
  /\ active = NoTask
  /\ live = Receivers \cup Waiters
  /\ ran = [e \in Executors |-> <<>>]
  /\ delivered = [e \in Executors |-> <<>>]
  /\ done = {}
  /\ waitingFor = [w \in Waiters |-> {}]

----------------------------------------------------------------------------
(* Operations called on the GUI thread, between two events or from inside  *)
(* a completion callback.                                                  *)

Construct(e) ==
  /\ owner[e] = "unborn"
  /\ owner' = [owner EXCEPT ![e] = "alive"]
  /\ ownersByThread' = ownersByThread \cup {e}
  /\ thread' = [thread EXCEPT ![e] = "running"]
  /\ UNCHANGED <<stopping, drained, nextTaskId, guiCompletions, inbox, retained,
                 join, pendingJoins, execCallbacks, joinCallbacks, guiQueue,
                 active, live, histVars>>

NewTaskId(e) == nextTaskId[e] + 1

\* submit/enqueue; a call on a stopping executor returns false and changes nothing.
Submit(e, r) ==
  /\ owner[e] = "alive" /\ ~stopping[e]
  /\ r \in live
  /\ nextTaskId[e] < MaxTasks
  /\ nextTaskId' = [nextTaskId EXCEPT ![e] = @ + 1]
  /\ LET id == NewTaskId(e)
     IN /\ guiCompletions' = [guiCompletions EXCEPT ![e] = @ \cup {[id |-> id, receiver |-> r]}]
        /\ inbox' = [inbox EXCEPT ![e] = Append(@, RunEvent(id))]
  /\ UNCHANGED <<owner, stopping, drained, retained, thread, joinVars, guiQueue,
                 active, live, histVars>>

StopKeepingCompletions(es) ==
  LET fresh == {e \in es : ~stopping[e]}
  IN /\ stopping' = [e \in Executors |-> stopping[e] \/ e \in fresh]
     /\ guiCompletions' = guiCompletions
     /\ inbox' = [e \in Executors |-> IF e \in fresh THEN Append(inbox[e], StopEvent) ELSE inbox[e]]

StopDroppingQueuedTasks(es) ==
  LET fresh == {e \in es : ~stopping[e]}
  IN /\ stopping' = [e \in Executors |-> stopping[e] \/ e \in fresh]
     /\ guiCompletions' = [e \in Executors |-> IF e \in fresh THEN {} ELSE guiCompletions[e]]
     /\ inbox' = [e \in Executors |-> IF e \in fresh THEN <<StopEvent>> ELSE inbox[e]]

\* What shutdown() does to every executor of the set es that is not stopping yet.
StopExecutors(es) ==
  LET fresh == {e \in es : ~stopping[e]}
  IN /\ stopping' = [e \in Executors |-> stopping[e] \/ e \in fresh]
     /\ guiCompletions' = [e \in Executors |-> IF e \in fresh THEN {} ELSE guiCompletions[e]]
     /\ inbox' = [e \in Executors |-> IF e \in fresh THEN Append(inbox[e], StopEvent) ELSE inbox[e]]

Shutdown(e) ==
  /\ owner[e] = "alive" /\ ~stopping[e]
  /\ StopExecutors({e})
  /\ UNCHANGED <<owner, drained, nextTaskId, retained, thread, joinVars, guiQueue,
                 active, live, histVars>>

\* ~BackendExecutor
Destroy(e) ==
  /\ owner[e] = "alive"
  /\ owner' = [owner EXCEPT ![e] = "dead"]
  /\ StopExecutors({e})
  /\ UNCHANGED <<drained, nextTaskId, retained, thread, joinVars, guiQueue,
                 active, live, histVars>>

\* A receiver of completions or of a drain callback is destroyed.
DestroyReceiver(r) ==
  /\ r \in live
  /\ live' = live \ {r}
  /\ UNCHANGED <<execVars, workerVars, joinVars, guiQueue, active, histVars>>

\* The drain callbacks ws, posted to their receivers.
DrainEvents(ws) == [i \in 1..Len(ws) |-> GuiEvent("drained", ws[i], 0)]

NotifyWithoutJoins(noExecutors, ecbs, joins, queue) ==
  /\ execCallbacks' = IF noExecutors THEN <<>> ELSE ecbs
  /\ joinCallbacks' = <<>>
  /\ guiQueue' = IF noExecutors THEN queue \o DrainEvents(ecbs) ELSE queue

NotifyOnlyLaterJoins(noExecutors, ecbs, joins, queue) ==
  LET handed == IF noExecutors THEN ecbs ELSE <<>>
  IN /\ execCallbacks' = IF noExecutors THEN <<>> ELSE ecbs
     /\ joinCallbacks' = IF joins = 0 THEN handed ELSE joinCallbacks \o handed
     /\ guiQueue' = IF joins = 0 THEN queue \o DrainEvents(joinCallbacks) ELSE queue

\* ExecutorRegistry::notifyIfDrained, WaitForThreadJoins and
\* ThreadJoinRegistry::notifyIfDrained, for the registries as the caller
\* leaves them: no executor left or not, executor callbacks ecbs and joins
\* pending.  A receiver that dies before its callback is handed on or run is
\* skipped in each of these places; the model skips it once, when the event
\* is handled.
NotifyIfDrained(noExecutors, ecbs, joins, queue) ==
  LET handed == IF noExecutors THEN ecbs ELSE <<>>
      ready == joinCallbacks \o handed
  IN /\ execCallbacks' = IF noExecutors THEN <<>> ELSE ecbs
     /\ joinCallbacks' = IF joins = 0 THEN <<>> ELSE ready
     /\ guiQueue' = IF joins = 0 THEN queue \o DrainEvents(ready) ELSE queue

\* The calls of shutdownAll: w has not asked before.
Asked(w) ==
  \/ w \in done
  \/ \E i \in DOMAIN execCallbacks : execCallbacks[i] = w
  \/ \E i \in DOMAIN joinCallbacks : joinCallbacks[i] = w
  \/ \E i \in DOMAIN guiQueue : guiQueue[i] = GuiEvent("drained", w, 0)

ShutdownAll(w) ==
  /\ w \in live /\ ~Asked(w)
  /\ StopExecutors({e \in ownersByThread : owner[e] = "alive"})
  /\ NotifyIfDrained(ownersByThread = {}, Append(execCallbacks, w), pendingJoins, guiQueue)
  /\ waitingFor' = [waitingFor EXCEPT ![w] =
                      ownersByThread \cup {t \in Threads : join[t] \in {"waiting", "posted"}}]
  /\ UNCHANGED <<owner, drained, nextTaskId, retained, thread, join, pendingJoins,
                 ownersByThread, active, live, ran, delivered, done>>

\* Another object hands its own worker thread to JoinThreadAsync and quits it.
JoinOther(t) ==
  /\ join[t] = "none"
  /\ join' = [join EXCEPT ![t] = "waiting"]
  /\ pendingJoins' = pendingJoins + 1
  /\ thread' = [thread EXCEPT ![t] = "quitting"]
  /\ UNCHANGED <<execVars, inbox, retained, ownersByThread, execCallbacks,
                 joinCallbacks, guiQueue, active, live, histVars>>

----------------------------------------------------------------------------
(* The worker threads and the joiners. *)

RetainTask(e, id) == retained[e] \cup {id}

\* The GUI queue after a signal or call of a worker was posted to it.
PostToGui(event) == Append(guiQueue, event)

\* runTask: the task is retained and run, and its id is announced to the
\* owner unless shutdown() has disconnected the signal.
RunTask(e) ==
  LET id == Head(inbox[e]).id
  IN /\ thread[e] = "running" /\ inbox[e] # <<>> /\ Head(inbox[e]).kind = "run"
     /\ inbox' = [inbox EXCEPT ![e] = Tail(@)]
     /\ retained' = [retained EXCEPT ![e] = RetainTask(e, id)]
     /\ ran' = [ran EXCEPT ![e] = Append(@, id)]
     /\ guiQueue' = IF stopping[e] THEN guiQueue
                    ELSE PostToGui(GuiEvent("completed", e, id))
     /\ UNCHANGED <<execVars, thread, joinVars, active, live, delivered, done, waitingFor>>

ReleaseTask(e) ==
  /\ thread[e] = "running" /\ inbox[e] # <<>> /\ Head(inbox[e]).kind = "release"
  /\ inbox' = [inbox EXCEPT ![e] = Tail(@)]
  /\ retained' = [retained EXCEPT ![e] = @ \ {Head(inbox[e]).id}]
  /\ UNCHANGED <<execVars, thread, joinVars, guiQueue, active, live, histVars>>

StopWorkerWithoutQuit(e) ==
  /\ thread[e] = "running" /\ inbox[e] # <<>> /\ Head(inbox[e]).kind = "stop"
  /\ inbox' = [inbox EXCEPT ![e] = Tail(@)]
  /\ retained' = [retained EXCEPT ![e] = {}]
  /\ UNCHANGED <<execVars, thread, joinVars, guiQueue, active, live, histVars>>

\* The last event of a worker: releaseAllTasks, then a quit posted to the
\* thread object, which lives on the GUI thread.
StopWorker(e) ==
  /\ thread[e] = "running" /\ inbox[e] # <<>> /\ Head(inbox[e]).kind = "stop"
  /\ inbox' = [inbox EXCEPT ![e] = Tail(@)]
  /\ retained' = [retained EXCEPT ![e] = {}]
  /\ guiQueue' = PostToGui(GuiEvent("quit", e, 0))
  /\ UNCHANGED <<execVars, thread, joinVars, active, live, histVars>>

ThreadFinishedAlwaysPosted(t) ==
  /\ thread[t] = "quitting"
  /\ thread' = [thread EXCEPT ![t] = "finished"]
  /\ guiQueue' = PostToGui(GuiEvent("finished", t, 0))
  /\ UNCHANGED <<execVars, inbox, retained, joinVars, active, live, histVars>>

\* The event loop of a thread that was told to quit returns and emits
\* finished, which an executor has connected to the application object.
ThreadFinished(t) ==
  /\ thread[t] = "quitting"
  /\ thread' = [thread EXCEPT ![t] = "finished"]
  /\ guiQueue' = IF t \in Executors THEN PostToGui(GuiEvent("finished", t, 0))
                 ELSE guiQueue
  /\ UNCHANGED <<execVars, inbox, retained, joinVars, active, live, histVars>>

\* Deferred deletions are done and QThread::wait() can return.
ThreadEnded(t) ==
  /\ thread[t] = "finished"
  /\ thread' = [thread EXCEPT ![t] = "ended"]
  /\ UNCHANGED <<execVars, inbox, retained, joinVars, guiQueue, active, live, histVars>>

\* The detached joiner thread returns from wait() and posts to the application.
JoinerReturns(t) ==
  /\ join[t] = "waiting" /\ thread[t] = "ended"
  /\ join' = [join EXCEPT ![t] = "posted"]
  /\ guiQueue' = PostToGui(GuiEvent("joined", t, 0))
  /\ UNCHANGED <<execVars, workerVars, pendingJoins, ownersByThread, execCallbacks,
                 joinCallbacks, active, live, histVars>>

----------------------------------------------------------------------------
(* Events of the GUI thread. *)

NextGuiEvent(kind) ==
  /\ active = NoTask
  /\ guiQueue # <<>>
  /\ Head(guiQueue).kind = kind

PostRelease(e, id) == [inbox EXCEPT ![e] = Append(@, ReleaseEvent(id))]

NewestCompletion(e, id) == {c \in guiCompletions[e] : \A d \in guiCompletions[e] : d.id <= c.id}
\* m_gui_completions.find(id): one completion or none
CompletionOf(e, id) == {c \in guiCompletions[e] : c.id = id}

\* The slot of completed(id).  The event may have been posted before the
\* signal was disconnected, so the completion is looked up again here.
HandleCompleted ==
  /\ NextGuiEvent("completed")
  /\ guiQueue' = Tail(guiQueue)
  /\ LET e == Head(guiQueue).who
         id == Head(guiQueue).id
         found == CompletionOf(e, id)
     IN /\ guiCompletions' = [guiCompletions EXCEPT ![e] = @ \ found]
        /\ \/ /\ found = {} \/ owner[e] # "alive"
              /\ UNCHANGED <<inbox, active, delivered>>
           \/ /\ owner[e] = "alive"
              /\ \E c \in found :
                   /\ c.receiver \in live
                   /\ active' = [ex |-> e, id |-> id]
                   /\ delivered' = [delivered EXCEPT ![e] = Append(@, c.id)]
              /\ UNCHANGED inbox
           \/ /\ owner[e] = "alive"
              /\ \E c \in found : c.receiver \notin live
              /\ inbox' = PostRelease(e, id)
              /\ UNCHANGED <<active, delivered>>
  /\ UNCHANGED <<owner, stopping, drained, nextTaskId, retained, thread, joinVars,
                 live, ran, done, waitingFor>>

\* The callback returns; its own reference to the task is dropped, and the
\* worker is told to drop the last one if it still listens.
CompletionReturns ==
  /\ active # NoTask
  /\ active' = NoTask
  /\ inbox' = IF owner[active.ex] = "alive" /\ ~stopping[active.ex]
              THEN PostRelease(active.ex, active.id)
              ELSE inbox
  /\ UNCHANGED <<execVars, retained, thread, joinVars, guiQueue, live, histVars>>

HandleQuit ==
  /\ NextGuiEvent("quit")
  /\ guiQueue' = Tail(guiQueue)
  /\ thread' = [thread EXCEPT ![Head(guiQueue).who] = "quitting"]
  /\ UNCHANGED <<execVars, inbox, retained, joinVars, active, live, histVars>>

HandleFinished ==
  /\ NextGuiEvent("finished")
  /\ guiQueue' = Tail(guiQueue)
  /\ join' = [join EXCEPT ![Head(guiQueue).who] = "waiting"]
  /\ pendingJoins' = pendingJoins + 1
  /\ UNCHANGED <<execVars, workerVars, ownersByThread, execCallbacks, joinCallbacks,
                 active, live, histVars>>

\* The continuation of JoinThreadAsync, with the done callback that the
\* constructor of an executor passes to it.
HandleJoined ==
  /\ NextGuiEvent("joined")
  /\ LET t == Head(guiQueue).who
     IN /\ thread' = [thread EXCEPT ![t] = "deleted"]
        /\ join' = [join EXCEPT ![t] = "done"]
        /\ pendingJoins' = pendingJoins - 1
        /\ ownersByThread' = ownersByThread \ {t}
        /\ drained' = [e \in Executors |-> drained[e] \/ (e = t /\ owner[e] = "alive")]
        /\ NotifyIfDrained(t \in Executors /\ ownersByThread \ {t} = {},
                           execCallbacks, pendingJoins - 1, Tail(guiQueue))
  /\ UNCHANGED <<owner, stopping, nextTaskId, guiCompletions, inbox, retained,
                 active, live, histVars>>

HandleDrained ==
  /\ NextGuiEvent("drained")
  /\ guiQueue' = Tail(guiQueue)
  /\ done' = done \cup ({Head(guiQueue).who} \cap live)
  /\ UNCHANGED <<execVars, workerVars, joinVars, active, live, ran, delivered, waitingFor>>

----------------------------------------------------------------------------

GuiCall ==
  \/ \E e \in Executors : Construct(e) \/ Shutdown(e) \/ Destroy(e)
  \/ \E e \in Executors, r \in Receivers : Submit(e, r)
  \/ \E r \in Receivers \cup Waiters : DestroyReceiver(r)
  \/ \E w \in Waiters : ShutdownAll(w)
  \/ \E t \in OtherThreads : JoinOther(t)

WorkerStep(e) == RunTask(e) \/ ReleaseTask(e) \/ StopWorker(e)

ThreadStep(t) == ThreadFinished(t) \/ ThreadEnded(t) \/ JoinerReturns(t)

GuiStep ==
  \/ HandleCompleted \/ CompletionReturns
  \/ HandleQuit \/ HandleFinished \/ HandleJoined \/ HandleDrained

Next ==
  \/ GuiCall
  \/ GuiStep
  \/ \E e \in Executors : WorkerStep(e)
  \/ \E t \in Threads : ThreadStep(t)

\* The GUI event loop keeps running, tasks and callbacks return, and the
\* operating system schedules every thread.  Nobody has to call anything.
Fairness ==
  /\ WF_vars(GuiStep)
  /\ \A e \in Executors : WF_vars(WorkerStep(e))
  /\ \A t \in Threads : WF_vars(ThreadStep(t))

Spec == Init /\ [][Next]_vars
FairSpec == Spec /\ Fairness

----------------------------------------------------------------------------
(* Properties *)

\* Every variable stays in the set of values the code can give it.
TypeOK ==
  /\ owner \in [Executors -> {"unborn", "alive", "dead"}]
  /\ stopping \in [Executors -> BOOLEAN]
  /\ drained \in [Executors -> BOOLEAN]
  /\ nextTaskId \in [Executors -> Nat]
  /\ guiCompletions \in [Executors -> SUBSET [id : Nat, receiver : Receivers]]
  /\ inbox \in [Executors -> Seq(WorkerEvents)]
  /\ retained \in [Executors -> SUBSET Nat]
  /\ thread \in [Threads -> {"unborn", "running", "quitting", "finished", "ended", "deleted"}]
  /\ join \in [Threads -> {"none", "waiting", "posted", "done"}]
  /\ pendingJoins \in Int
  /\ ownersByThread \subseteq Executors
  /\ execCallbacks \in Seq(Waiters)
  /\ joinCallbacks \in Seq(Waiters)
  /\ guiQueue \in Seq(GuiEvents)
  /\ active \in {NoTask} \cup [ex : Executors, id : Nat]
  /\ live \subseteq Receivers \cup Waiters
  /\ ran \in [Executors -> Seq(Nat)]
  /\ delivered \in [Executors -> Seq(Nat)]
  /\ done \subseteq Waiters
  /\ waitingFor \in [Waiters -> SUBSET Threads]

\* A worker runs the tasks of its executor one at a time, in the order of
\* submission, none twice and none left out.
RunsInSubmissionOrder ==
  \A e \in Executors :
    /\ Len(ran[e]) <= nextTaskId[e]
    /\ \A i \in 1..Len(ran[e]) : ran[e][i] = i

\* An executor that reports drained, or whose thread is gone, has run every
\* task it accepted (also those still queued when shutdown() was called) and
\* its worker holds no task any more.
DrainedExecutorRanEverything ==
  \A e \in Executors :
    drained[e] \/ thread[e] = "deleted" =>
      /\ Len(ran[e]) = nextTaskId[e]
      /\ inbox[e] = <<>> /\ retained[e] = {}

\* Callbacks are delivered in submission order, each at most once, and only
\* for tasks that have run.
DeliveredInOrder ==
  \A e \in Executors :
    /\ \A i, j \in 1..Len(delivered[e]) : i < j => delivered[e][i] < delivered[e][j]
    /\ \A i \in 1..Len(delivered[e]) : delivered[e][i] <= Len(ran[e])

\* No callback is delivered once shutdown() was called or the executor was
\* destroyed, even when the completion was already posted to the GUI thread.
NoDeliveryAfterShutdown ==
  [][\A e \in Executors :
       delivered'[e] # delivered[e] => owner[e] = "alive" /\ ~stopping[e]]_vars

\* The worker has a reference to the task id of e: still queued or retained.
WorkerHolds(e, id) ==
  \/ id \in retained[e]
  \/ \E i \in 1..Len(inbox[e]) : inbox[e][i] = RunEvent(id)

\* As long as the GUI thread holds a task whose result it has not delivered,
\* the worker holds it too: whenever the GUI drops such a task, because the
\* receiver died or the executor is shut down, its owning result is destroyed
\* on the worker thread (discardedOwningResultIsDestroyedOnWorker).
UndeliveredResultHeldByWorker ==
  \A e \in Executors : \A c \in guiCompletions[e] : WorkerHolds(e, c.id)

\* The callback of shutdownAll runs only when every thread that was registered
\* or being joined at the time of the call has been joined and deleted.
FinalDrainWaitsForThreads ==
  \A w \in done : \A t \in waitingFor[w] : thread[t] = "deleted"

\* An executor that is shut down or destroyed drains and its thread is deleted.
ShutdownDrains ==
  \A e \in Executors : stopping[e] ~> thread[e] = "deleted"

\* shutdownAll calls back once no executor is left open by its owner.
FinalDrainCompletes ==
  <>[](\A e \in Executors : owner[e] = "alive" => stopping[e]) =>
    \A w \in Waiters : (w \in live /\ Asked(w)) ~> (w \in done \/ w \notin live)

----------------------------------------------------------------------------
(* The executors implement SerialExecutor. *)

ExecutorPhase(e) ==
  IF owner[e] = "unborn" THEN "unborn"
  ELSE IF thread[e] = "deleted" THEN "drained"
  ELSE IF stopping[e] THEN "stopping" ELSE "open"

Serial == INSTANCE SerialExecutor WITH
  phase <- [e \in Executors |-> ExecutorPhase(e)],
  accepted <- nextTaskId,
  completed <- [e \in Executors |-> Len(ran[e])],
  notified <- [e \in Executors |->
                 IF delivered[e] = <<>> THEN 0 ELSE delivered[e][Len(delivered[e])]]

\* With their threads, queues and joins the executors are, for the models
\* that use them, serial executors that drain when they are stopped.
ImplementsSerialExecutor == Serial!Spec

============================================================================
