--------------------------- MODULE ExecutorProofs ---------------------------
(***************************************************************************)
(* The types and the safety properties of BackendExecutor, and that it     *)
(* implements SerialExecutor, for any number of executors, threads,        *)
(* receivers and tasks.  The properties rest on one inductive invariant,   *)
(* SafetyInv, that says how the tasks an executor accepted are spread over *)
(* the queues between the GUI thread and the worker.  At the end, what     *)
(* NodeStatus makes of the tasks such a worker runs for NodeModel.         *)
(***************************************************************************)
EXTENDS BackendExecutor, NodeStatus, TLAPS

----------------------------------------------------------------------------
(* Types *)

USE DEF Threads

\* The drain events of a sequence of waiters are events of the GUI queue.
LEMMA DrainEventsType ==
  ASSUME NEW ws \in Seq(Waiters)
  PROVE  DrainEvents(ws) \in Seq(GuiEvents)
<1>1. \A i \in 1..Len(ws) : GuiEvent("drained", ws[i], 0) \in GuiEvents
  BY DEF GuiEvent, GuiEvents
<1> QED
  BY <1>1 DEF DrainEvents

\* Stopping any executors keeps the types of what shutdown() writes.
LEMMA StopExecutorsType ==
  ASSUME TypeOK, NEW es, StopExecutors(es)
  PROVE  /\ stopping' \in [Executors -> BOOLEAN]
         /\ guiCompletions' \in [Executors -> SUBSET [id : Nat, receiver : Receivers]]
         /\ inbox' \in [Executors -> Seq(WorkerEvents)]
<1>1. StopEvent \in WorkerEvents
  BY DEF StopEvent, WorkerEvents
<1>2. \A e \in Executors : inbox[e] \in Seq(WorkerEvents)
  BY DEF TypeOK
<1>3. \A e \in Executors : Append(inbox[e], StopEvent) \in Seq(WorkerEvents)
  BY <1>1, <1>2
<1> QED
  BY <1>1, <1>2, <1>3 DEF TypeOK, StopExecutors

\* Notifying the drain callbacks keeps the types of the callback lists.
LEMMA NotifyIfDrainedType ==
  ASSUME TypeOK, NEW noExecutors, NEW ecbs \in Seq(Waiters), NEW joins,
         NEW queue \in Seq(GuiEvents),
         NotifyIfDrained(noExecutors, ecbs, joins, queue)
  PROVE  /\ execCallbacks' \in Seq(Waiters)
         /\ joinCallbacks' \in Seq(Waiters)
         /\ guiQueue' \in Seq(GuiEvents)
<1> DEFINE ready == joinCallbacks \o (IF noExecutors THEN ecbs ELSE <<>>)
<1>1. ready \in Seq(Waiters)
  BY DEF TypeOK
<1>2. DrainEvents(ready) \in Seq(GuiEvents)
  BY <1>1, DrainEventsType
<1>3. queue \o DrainEvents(ready) \in Seq(GuiEvents)
  BY <1>2
<1> QED
  BY <1>1, <1>3 DEF NotifyIfDrained

LEMMA InitType == Init => TypeOK
  BY DEF Init, TypeOK, NoTask

\* Every step of the GUI thread, of a worker and of a joiner keeps the types.
LEMMA NextType == TypeOK /\ [Next]_vars => TypeOK'
<1> SUFFICES ASSUME TypeOK, [Next]_vars PROVE TypeOK'
  OBVIOUS
<1> USE DEF TypeOK
<1>1. ASSUME NEW e \in Executors, Construct(e) PROVE TypeOK'
  BY <1>1 DEF Construct, histVars
<1>2. ASSUME NEW e \in Executors, Shutdown(e) PROVE TypeOK'
  BY <1>2, StopExecutorsType DEF Shutdown, joinVars, histVars
<1>3. ASSUME NEW e \in Executors, Destroy(e) PROVE TypeOK'
  BY <1>3, StopExecutorsType DEF Destroy, joinVars, histVars
<1>4. ASSUME NEW e \in Executors, NEW r \in Receivers, Submit(e, r) PROVE TypeOK'
  <2>1. NewTaskId(e) \in Nat
    BY DEF NewTaskId
  <2>2. Append(inbox[e], RunEvent(NewTaskId(e))) \in Seq(WorkerEvents)
    BY <2>1 DEF RunEvent, WorkerEvents
  <2>3. guiCompletions' \in [Executors -> SUBSET [id : Nat, receiver : Receivers]]
    BY <1>4, <2>1 DEF Submit
  <2>4. inbox' \in [Executors -> Seq(WorkerEvents)]
    BY <1>4, <2>2 DEF Submit
  <2>5. nextTaskId' \in [Executors -> Nat]
    BY <1>4 DEF Submit
  <2> QED
    BY <1>4, <2>3, <2>4, <2>5 DEF Submit, joinVars, histVars
<1>5. ASSUME NEW r \in Receivers \cup Waiters, DestroyReceiver(r) PROVE TypeOK'
  BY <1>5 DEF DestroyReceiver, execVars, workerVars, joinVars, histVars
<1>6. ASSUME NEW w \in Waiters, ShutdownAll(w) PROVE TypeOK'
  <2>1. Append(execCallbacks, w) \in Seq(Waiters)
    OBVIOUS
  <2>2. /\ execCallbacks' \in Seq(Waiters)
        /\ joinCallbacks' \in Seq(Waiters)
        /\ guiQueue' \in Seq(GuiEvents)
    BY <1>6, <2>1, NotifyIfDrainedType DEF ShutdownAll
  <2> QED
    BY <1>6, <2>2, StopExecutorsType DEF ShutdownAll
<1>7. ASSUME NEW t \in OtherThreads, JoinOther(t) PROVE TypeOK'
  BY <1>7 DEF JoinOther, execVars, histVars
<1>8. ASSUME HandleCompleted PROVE TypeOK'
  <2>1. Head(guiQueue) \in GuiEvents /\ Tail(guiQueue) \in Seq(GuiEvents)
    BY <1>8 DEF HandleCompleted, NextGuiEvent
  <2>2. Head(guiQueue).who \in Executors /\ Head(guiQueue).id \in Nat
    BY <1>8, <2>1 DEF HandleCompleted, NextGuiEvent, GuiEvents
  <2>3. inbox' \in [Executors -> Seq(WorkerEvents)]
    <3>1. ReleaseEvent(Head(guiQueue).id) \in WorkerEvents
      BY <2>2 DEF ReleaseEvent, WorkerEvents
    <3>2. inbox' = inbox \/ inbox' = PostRelease(Head(guiQueue).who, Head(guiQueue).id)
      BY <1>8 DEF HandleCompleted
    <3>3. Append(inbox[Head(guiQueue).who], ReleaseEvent(Head(guiQueue).id)) \in Seq(WorkerEvents)
      BY <2>2, <3>1
    <3> QED
      BY <2>2, <3>2, <3>3 DEF PostRelease
  <2>4. guiCompletions' \in [Executors -> SUBSET [id : Nat, receiver : Receivers]]
    BY <1>8, <2>2 DEF HandleCompleted
  <2>5. active' \in {NoTask} \cup [ex : Executors, id : Nat]
    BY <1>8, <2>2 DEF HandleCompleted
  <2>6. delivered' \in [Executors -> Seq(Nat)]
    <3>1. Append(delivered[Head(guiQueue).who], Head(guiQueue).id) \in Seq(Nat)
      BY <2>2
    <3>2. \/ delivered' = delivered
          \/ delivered' = [delivered EXCEPT ![Head(guiQueue).who] =
                                              Append(@, Head(guiQueue).id)]
      BY <1>8 DEF HandleCompleted, CompletionOf
    <3> QED
      BY <3>1, <3>2
  <2> QED
    BY <1>8, <2>1, <2>3, <2>4, <2>5, <2>6 DEF HandleCompleted, joinVars
<1>9. ASSUME CompletionReturns PROVE TypeOK'
  <2>1. active.ex \in Executors /\ active.id \in Nat
    BY <1>9 DEF CompletionReturns
  <2>2. PostRelease(active.ex, active.id) \in [Executors -> Seq(WorkerEvents)]
    BY <2>1 DEF PostRelease, ReleaseEvent, WorkerEvents
  <2>3. inbox' \in [Executors -> Seq(WorkerEvents)]
    BY <1>9, <2>2 DEF CompletionReturns
  <2> QED
    BY <1>9, <2>3 DEF CompletionReturns, execVars, joinVars, histVars
<1>10. ASSUME HandleQuit PROVE TypeOK'
  <2>1. Head(guiQueue) \in GuiEvents /\ Tail(guiQueue) \in Seq(GuiEvents)
    BY <1>10 DEF HandleQuit, NextGuiEvent
  <2>2. Head(guiQueue).who \in Executors
    BY <1>10, <2>1 DEF HandleQuit, NextGuiEvent, GuiEvents
  <2>3. thread' \in [Threads -> {"unborn", "running", "quitting", "finished", "ended", "deleted"}]
    BY <1>10, <2>2 DEF HandleQuit
  <2> QED
    BY <1>10, <2>1, <2>3 DEF HandleQuit, execVars, joinVars, histVars
<1>11. ASSUME HandleFinished PROVE TypeOK'
  <2>1. Head(guiQueue) \in GuiEvents /\ Tail(guiQueue) \in Seq(GuiEvents)
    BY <1>11 DEF HandleFinished, NextGuiEvent
  <2>2. Head(guiQueue).who \in Executors
    BY <1>11, <2>1 DEF HandleFinished, NextGuiEvent, GuiEvents
  <2>3. join' \in [Threads -> {"none", "waiting", "posted", "done"}]
    BY <1>11, <2>2 DEF HandleFinished
  <2> QED
    BY <1>11, <2>1, <2>3 DEF HandleFinished, execVars, workerVars, histVars
<1>12. ASSUME HandleJoined PROVE TypeOK'
  <2>1. Head(guiQueue) \in GuiEvents /\ Tail(guiQueue) \in Seq(GuiEvents)
    BY <1>12 DEF HandleJoined, NextGuiEvent
  <2>2. /\ execCallbacks' \in Seq(Waiters)
        /\ joinCallbacks' \in Seq(Waiters)
        /\ guiQueue' \in Seq(GuiEvents)
    BY <1>12, <2>1, NotifyIfDrainedType DEF HandleJoined
  <2>3. drained' \in [Executors -> BOOLEAN]
    BY <1>12 DEF HandleJoined
  <2>4. thread' \in [Threads -> {"unborn", "running", "quitting", "finished", "ended", "deleted"}]
    <3>1. thread' = [thread EXCEPT ![Head(guiQueue).who] = "deleted"]
      BY <1>12 DEF HandleJoined
    <3> QED
      BY <3>1
  <2>6. join' \in [Threads -> {"none", "waiting", "posted", "done"}]
    <3>1. join' = [join EXCEPT ![Head(guiQueue).who] = "done"]
      BY <1>12 DEF HandleJoined
    <3> QED
      BY <3>1
  <2>7. pendingJoins' \in Int /\ ownersByThread' \subseteq Executors
    <3>1. pendingJoins' = pendingJoins - 1 /\ ownersByThread' = ownersByThread \ {Head(guiQueue).who}
      BY <1>12 DEF HandleJoined
    <3> QED
      BY <3>1
  <2>5. UNCHANGED <<owner, stopping, nextTaskId, guiCompletions, inbox, retained,
                    active, live, ran, delivered, done, waitingFor>>
    BY <1>12 DEF HandleJoined, histVars
  <2> QED
    BY <2>2, <2>3, <2>4, <2>5, <2>6, <2>7
<1>13. ASSUME HandleDrained PROVE TypeOK'
  <2>1. Head(guiQueue) \in GuiEvents /\ Tail(guiQueue) \in Seq(GuiEvents)
    BY <1>13 DEF HandleDrained, NextGuiEvent
  <2>2. Head(guiQueue).who \in Waiters
    BY <1>13, <2>1 DEF HandleDrained, NextGuiEvent, GuiEvents
  <2> QED
    BY <1>13, <2>1, <2>2 DEF HandleDrained, execVars, workerVars, joinVars
<1>14. ASSUME NEW e \in Executors, RunTask(e) PROVE TypeOK'
  <2>1. Head(inbox[e]) \in WorkerEvents /\ Tail(inbox[e]) \in Seq(WorkerEvents)
    BY <1>14 DEF RunTask
  <2>2. Head(inbox[e]).id \in Nat
    BY <2>1 DEF WorkerEvents
  <2>3. Append(guiQueue, GuiEvent("completed", e, Head(inbox[e]).id)) \in Seq(GuiEvents)
    BY <2>2 DEF GuiEvent, GuiEvents
  <2> QED
    BY <1>14, <2>1, <2>2, <2>3 DEF RunTask, RetainTask, PostToGui, execVars, joinVars
<1>15. ASSUME NEW e \in Executors, ReleaseTask(e) PROVE TypeOK'
  <2>1. Tail(inbox[e]) \in Seq(WorkerEvents)
    BY <1>15 DEF ReleaseTask
  <2> QED
    BY <1>15, <2>1 DEF ReleaseTask, execVars, joinVars, histVars
<1>16. ASSUME NEW e \in Executors, StopWorker(e) PROVE TypeOK'
  <2>1. Tail(inbox[e]) \in Seq(WorkerEvents)
    BY <1>16 DEF StopWorker
  <2>2. Append(guiQueue, GuiEvent("quit", e, 0)) \in Seq(GuiEvents)
    BY DEF GuiEvent, GuiEvents
  <2> QED
    BY <1>16, <2>1, <2>2 DEF StopWorker, PostToGui, execVars, joinVars, histVars
<1>17. ASSUME NEW t \in Threads, ThreadFinished(t) PROVE TypeOK'
  <2>1. t \in Executors => Append(guiQueue, GuiEvent("finished", t, 0)) \in Seq(GuiEvents)
    BY DEF GuiEvent, GuiEvents
  <2> QED
    BY <1>17, <2>1 DEF ThreadFinished, PostToGui, execVars, joinVars, histVars
<1>18. ASSUME NEW t \in Threads, ThreadEnded(t) PROVE TypeOK'
  BY <1>18 DEF ThreadEnded, execVars, joinVars, histVars
<1>19. ASSUME NEW t \in Threads, JoinerReturns(t) PROVE TypeOK'
  <2>1. Append(guiQueue, GuiEvent("joined", t, 0)) \in Seq(GuiEvents)
    BY DEF GuiEvent, GuiEvents
  <2> QED
    BY <1>19, <2>1 DEF JoinerReturns, PostToGui, execVars, workerVars, histVars
<1>20. CASE UNCHANGED vars
  BY <1>20 DEF vars, execVars, workerVars, joinVars, histVars
<1> QED
  BY <1>1, <1>2, <1>3, <1>4, <1>5, <1>6, <1>7, <1>8, <1>9, <1>10, <1>11, <1>12, <1>13,
     <1>14, <1>15, <1>16, <1>17, <1>18, <1>19, <1>20
  DEF Next, GuiCall, GuiStep, WorkerStep, ThreadStep

\* The types hold in every reachable state, whatever the executors run.
THEOREM TypeCorrect == Spec => []TypeOK
  BY InitType, NextType, PTL DEF Spec

----------------------------------------------------------------------------
(* The inductive invariant *)

\* Tasks run in order, and exactly the accepted ones that have not run are
\* queued, again in order.
QueueInv(e) ==
  /\ Len(ran[e]) <= nextTaskId[e]
  /\ \A i \in 1..Len(ran[e]) : ran[e][i] = i
  /\ \A i \in 1..Len(inbox[e]) :
       inbox[e][i].kind = "run" => inbox[e][i].id \in Len(ran[e])+1..nextTaskId[e]
  /\ \A i, j \in 1..Len(inbox[e]) :
       i < j /\ inbox[e][i].kind = "run" /\ inbox[e][j].kind = "run" =>
         inbox[e][i].id < inbox[e][j].id
  /\ \A id \in Len(ran[e])+1..nextTaskId[e] :
       \E i \in 1..Len(inbox[e]) : inbox[e][i].kind = "run" /\ inbox[e][i].id = id

\* Nothing is left for the worker to do, and nothing can be added.
Quiescent(e) == stopping[e] /\ inbox[e] = <<>> /\ retained[e] = {}

\* The stop event is the last one the worker gets, and everything that
\* follows from it happens only after it.
StopInv(e) ==
  /\ owner[e] = "unborn" => ~stopping[e] /\ nextTaskId[e] = 0
  /\ \A i \in 1..Len(inbox[e]) :
       inbox[e][i].kind = "stop" => i = Len(inbox[e]) /\ stopping[e]
  /\ thread[e] \notin {"unborn", "running"} \/ drained[e] => Quiescent(e)

\* Events of the thread's end.  A quit comes once and to a running thread.
EndInv(e) ==
  /\ \A i \in 1..Len(guiQueue) :
       guiQueue[i].kind = "quit" /\ guiQueue[i].who = e =>
         /\ Quiescent(e) /\ thread[e] = "running"
         /\ \A j \in 1..Len(guiQueue) :
              guiQueue[j].kind = "quit" /\ guiQueue[j].who = e => i = j
  /\ \A i \in 1..Len(guiQueue) :
       guiQueue[i].kind = "joined" /\ guiQueue[i].who = e =>
         Quiescent(e) /\ thread[e] \in {"ended", "deleted"}

\* A completion the GUI thread still holds belongs to a task the worker
\* holds, and no release of that task is on its way.
CompletionInv(e) ==
  /\ guiCompletions[e] # {} => ~stopping[e]
  /\ \A c \in guiCompletions[e] :
       /\ c.id \in 1..nextTaskId[e]
       /\ WorkerHolds(e, c.id)
       /\ ~(active.ex = e /\ active.id = c.id)
       /\ \A i \in 1..Len(inbox[e]) :
            ~(inbox[e][i].kind = "release" /\ inbox[e][i].id = c.id)
  /\ active.ex = e => active.id <= nextTaskId[e]
  /\ \A i \in 1..Len(inbox[e]) :
       inbox[e][i].kind = "release" => inbox[e][i].id <= nextTaskId[e]

\* Completion events are queued in the order in which the tasks ran, and come
\* after the callbacks that were delivered.
DeliveryInv(e) ==
  /\ \A i \in 1..Len(guiQueue) :
       guiQueue[i].kind = "completed" /\ guiQueue[i].who = e =>
         /\ guiQueue[i].id <= Len(ran[e])
         /\ \A k \in 1..Len(delivered[e]) : delivered[e][k] < guiQueue[i].id
         /\ \A j \in 1..Len(guiQueue) :
              i < j /\ guiQueue[j].kind = "completed" /\ guiQueue[j].who = e =>
                guiQueue[i].id < guiQueue[j].id
  /\ \A i, j \in 1..Len(delivered[e]) : i < j => delivered[e][i] < delivered[e][j]
  /\ \A i \in 1..Len(delivered[e]) : delivered[e][i] <= Len(ran[e])

ExecutorInv(e) ==
  QueueInv(e) /\ StopInv(e) /\ EndInv(e) /\ CompletionInv(e) /\ DeliveryInv(e)

SafetyInv == \A e \in Executors : ExecutorInv(e)

----------------------------------------------------------------------------
(* Facts about sequences that the steps below need. *)

LEMMA AppendFacts ==
  ASSUME NEW S, NEW s \in Seq(S), NEW x \in S
  PROVE  /\ Append(s, x) \in Seq(S)
         /\ Len(Append(s, x)) = Len(s) + 1
         /\ Append(s, x)[Len(s) + 1] = x
         /\ \A i \in 1..Len(s) : Append(s, x)[i] = s[i]
  OBVIOUS

LEMMA TailFacts ==
  ASSUME NEW S, NEW s \in Seq(S), s # <<>>
  PROVE  /\ Len(s) \in Nat /\ Len(s) >= 1
         /\ Head(s) = s[1] /\ Head(s) \in S
         /\ Tail(s) \in Seq(S)
         /\ Len(Tail(s)) = Len(s) - 1
         /\ \A i \in 1..Len(Tail(s)) : Tail(s)[i] = s[i + 1]
  OBVIOUS

\* Ids of events and of the running callback are natural numbers.
LEMMA WorkerEventId ==
  ASSUME NEW s \in Seq(WorkerEvents), NEW i \in 1..Len(s)
  PROVE  s[i] \in WorkerEvents /\ s[i].id \in Nat
<1>1. s[i] \in WorkerEvents
  OBVIOUS
<1> QED
  BY <1>1 DEF WorkerEvents

LEMMA GuiEventId ==
  ASSUME NEW s \in Seq(GuiEvents), NEW i \in 1..Len(s)
  PROVE  s[i] \in GuiEvents /\ s[i].id \in Nat
<1>1. s[i] \in GuiEvents
  OBVIOUS
<1> QED
  BY <1>1 DEF GuiEvents

LEMMA ActiveId == ASSUME TypeOK PROVE active.id \in Nat
<1>1. active \in {NoTask} \cup [ex : Executors, id : Nat]
  BY DEF TypeOK
<1> QED
  BY <1>1 DEF NoTask

\* The GUI queue as far as it concerns e is what is left of the old one after
\* its first d events.
Kept(e, d) ==
  \A i \in 1..Len(guiQueue') :
    \/ guiQueue'[i].who # e
    \/ guiQueue'[i].kind \in {"drained", "finished"}
    \/ i + d \in 1..Len(guiQueue) /\ guiQueue'[i] = guiQueue[i + d]

----------------------------------------------------------------------------
(* Each part of the invariant survives steps that leave its state alone. *)

LEMMA QueueFrame ==
  ASSUME NEW e \in Executors, QueueInv(e),
         ran'[e] = ran[e], nextTaskId'[e] = nextTaskId[e], inbox'[e] = inbox[e]
  PROVE  QueueInv(e)'
  BY DEF QueueInv

\* An event that runs no task is added to the inbox.
LEMMA QueueAppend ==
  ASSUME TypeOK, NEW e \in Executors, QueueInv(e), NEW ev \in WorkerEvents, ev.kind # "run",
         ran'[e] = ran[e], nextTaskId'[e] = nextTaskId[e], inbox'[e] = Append(inbox[e], ev)
  PROVE  QueueInv(e)'
<1>1. inbox[e] \in Seq(WorkerEvents)
  BY DEF TypeOK
<1>2. /\ Len(inbox[e]) \in Nat /\ Len(inbox'[e]) = Len(inbox[e]) + 1
      /\ inbox'[e][Len(inbox[e]) + 1] = ev
      /\ \A i \in 1..Len(inbox[e]) : inbox'[e][i] = inbox[e][i]
  BY <1>1, AppendFacts
<1>3. \A i \in 1..Len(inbox'[e]) :
        inbox'[e][i].kind = "run" => i \in 1..Len(inbox[e]) /\ inbox'[e][i] = inbox[e][i]
  BY <1>2
<1>4. \A id \in Len(ran[e])+1..nextTaskId[e] :
        \E i \in 1..Len(inbox'[e]) : inbox'[e][i].kind = "run" /\ inbox'[e][i].id = id
  <2> SUFFICES ASSUME NEW id \in Len(ran[e])+1..nextTaskId[e]
               PROVE  \E i \in 1..Len(inbox'[e]) : inbox'[e][i].kind = "run" /\ inbox'[e][i].id = id
    OBVIOUS
  <2>1. PICK i \in 1..Len(inbox[e]) : inbox[e][i].kind = "run" /\ inbox[e][i].id = id
    BY DEF QueueInv
  <2> QED
    BY <1>2, <2>1
<1> QED
  BY <1>3, <1>4 DEF QueueInv

LEMMA StopFrame ==
  ASSUME NEW e \in Executors, StopInv(e),
         owner'[e] = owner[e] \/ owner'[e] # "unborn",
         stopping'[e] = stopping[e], nextTaskId'[e] = nextTaskId[e],
         inbox'[e] = inbox[e], retained'[e] = retained[e],
         thread'[e] = thread[e], drained'[e] = drained[e]
  PROVE  StopInv(e)'
  BY DEF StopInv, Quiescent

LEMMA EndFrame ==
  ASSUME TypeOK, guiQueue' \in Seq(GuiEvents), NEW e \in Executors, EndInv(e), NEW d \in {0, 1}, Kept(e, d),
         Quiescent(e) => Quiescent(e)', thread'[e] = thread[e]
  PROVE  EndInv(e)'
<1>1. Len(guiQueue) \in Nat /\ Len(guiQueue') \in Nat
  BY DEF TypeOK
<1>2. ASSUME NEW i \in 1..Len(guiQueue'), guiQueue'[i].who = e,
             guiQueue'[i].kind \in {"quit", "joined"}
      PROVE  i + d \in 1..Len(guiQueue) /\ guiQueue'[i] = guiQueue[i + d]
  BY <1>2 DEF Kept
<1>3. ASSUME NEW i \in 1..Len(guiQueue'), guiQueue'[i].kind = "quit", guiQueue'[i].who = e
      PROVE  /\ Quiescent(e)' /\ thread'[e] = "running"
             /\ \A j \in 1..Len(guiQueue') :
                  guiQueue'[j].kind = "quit" /\ guiQueue'[j].who = e => i = j
  <2>1. i + d \in 1..Len(guiQueue) /\ guiQueue[i + d].kind = "quit" /\ guiQueue[i + d].who = e
    BY <1>2, <1>3
  <2>2. Quiescent(e)' /\ thread'[e] = "running"
    BY <2>1 DEF EndInv
  <2>3. ASSUME NEW j \in 1..Len(guiQueue'), guiQueue'[j].kind = "quit", guiQueue'[j].who = e
        PROVE  i = j
    <3>1. j + d \in 1..Len(guiQueue) /\ guiQueue[j + d].kind = "quit" /\ guiQueue[j + d].who = e
      BY <1>2, <2>3
    <3>2. i + d = j + d
      BY <2>1, <3>1 DEF EndInv
    <3> QED
      BY <1>1, <3>2
  <2> QED
    BY <2>2, <2>3
<1>4. ASSUME NEW i \in 1..Len(guiQueue'), guiQueue'[i].kind = "joined", guiQueue'[i].who = e
      PROVE  Quiescent(e)' /\ thread'[e] \in {"ended", "deleted"}
  BY <1>1, <1>2, <1>4 DEF EndInv
<1> QED
  BY <1>3, <1>4 DEF EndInv

LEMMA CompletionFrame ==
  ASSUME TypeOK, NEW e \in Executors, CompletionInv(e),
         guiCompletions'[e] = guiCompletions[e], stopping'[e] = stopping[e],
         nextTaskId'[e] = nextTaskId[e], inbox'[e] = inbox[e], retained'[e] = retained[e],
         active' = active \/ active' = NoTask \/ active'.ex # e
  PROVE  CompletionInv(e)'
  BY DEF CompletionInv, WorkerHolds, NoTask, TypeOK

LEMMA DeliveryFrame ==
  ASSUME TypeOK, guiQueue' \in Seq(GuiEvents), NEW e \in Executors, DeliveryInv(e), NEW d \in {0, 1}, Kept(e, d),
         ran'[e] = ran[e], delivered'[e] = delivered[e]
  PROVE  DeliveryInv(e)'
<1>1. Len(guiQueue) \in Nat /\ Len(guiQueue') \in Nat
  BY DEF TypeOK
<1>2. ASSUME NEW i \in 1..Len(guiQueue'), guiQueue'[i].who = e, guiQueue'[i].kind = "completed"
      PROVE  i + d \in 1..Len(guiQueue) /\ guiQueue'[i] = guiQueue[i + d]
  BY <1>2 DEF Kept
<1>3. ASSUME NEW i \in 1..Len(guiQueue'), guiQueue'[i].kind = "completed", guiQueue'[i].who = e
      PROVE  /\ guiQueue'[i].id <= Len(ran'[e])
             /\ \A k \in 1..Len(delivered'[e]) : delivered'[e][k] < guiQueue'[i].id
             /\ \A j \in 1..Len(guiQueue') :
                  i < j /\ guiQueue'[j].kind = "completed" /\ guiQueue'[j].who = e =>
                    guiQueue'[i].id < guiQueue'[j].id
  <2>1. /\ i + d \in 1..Len(guiQueue) /\ guiQueue'[i] = guiQueue[i + d]
        /\ guiQueue[i + d].kind = "completed" /\ guiQueue[i + d].who = e
    BY <1>2, <1>3
  <2>2. /\ guiQueue'[i].id <= Len(ran'[e])
        /\ \A k \in 1..Len(delivered'[e]) : delivered'[e][k] < guiQueue'[i].id
    BY <2>1 DEF DeliveryInv
  <2>3. ASSUME NEW j \in 1..Len(guiQueue'), i < j, guiQueue'[j].kind = "completed",
               guiQueue'[j].who = e
        PROVE  guiQueue'[i].id < guiQueue'[j].id
    <3>1. /\ j + d \in 1..Len(guiQueue) /\ guiQueue'[j] = guiQueue[j + d]
          /\ guiQueue[j + d].kind = "completed" /\ guiQueue[j + d].who = e
      BY <1>2, <2>3
    <3>2. i + d < j + d
      BY <1>1, <2>3
    <3> QED
      BY <2>1, <3>1, <3>2 DEF DeliveryInv
  <2> QED
    BY <2>2, <2>3
<1> QED
  BY <1>3 DEF DeliveryInv

\* All parts together, for an executor that a step leaves alone.
LEMMA Frame ==
  ASSUME TypeOK, guiQueue' \in Seq(GuiEvents), NEW e \in Executors,
         ExecutorInv(e),
         NEW d \in {0, 1}, Kept(e, d),
         owner'[e] = owner[e], stopping'[e] = stopping[e], drained'[e] = drained[e],
         nextTaskId'[e] = nextTaskId[e], guiCompletions'[e] = guiCompletions[e],
         inbox'[e] = inbox[e], retained'[e] = retained[e], thread'[e] = thread[e],
         ran'[e] = ran[e], delivered'[e] = delivered[e],
         active' = active \/ active' = NoTask \/ active'.ex # e
  PROVE  ExecutorInv(e)'
<1> USE DEF ExecutorInv
<1>1. QueueInv(e)'
  BY QueueFrame
<1>2. StopInv(e)'
  BY StopFrame
<1>3. Quiescent(e) => Quiescent(e)'
  BY DEF Quiescent
<1>4. EndInv(e)'
  BY <1>3, EndFrame
<1>5. CompletionInv(e)'
  BY CompletionFrame
<1>6. DeliveryInv(e)'
  BY DeliveryFrame
<1> QED
  BY <1>1, <1>2, <1>4, <1>5, <1>6

----------------------------------------------------------------------------
(* How the steps change the GUI queue. *)

LEMMA KeptUnchanged ==
  ASSUME TypeOK, NEW e, guiQueue' = guiQueue
  PROVE  Kept(e, 0)
  BY DEF TypeOK, Kept

LEMMA KeptAppend ==
  ASSUME TypeOK, NEW e, NEW ev \in GuiEvents, guiQueue' = Append(guiQueue, ev),
         ev.who # e \/ ev.kind \in {"drained", "finished"}
  PROVE  Kept(e, 0)
<1>1. guiQueue \in Seq(GuiEvents)
  BY DEF TypeOK
<1> QED
  BY <1>1, AppendFacts DEF Kept

LEMMA KeptTail ==
  ASSUME TypeOK, NEW e, guiQueue # <<>>, guiQueue' = Tail(guiQueue)
  PROVE  Kept(e, 1)
<1>1. guiQueue \in Seq(GuiEvents)
  BY DEF TypeOK
<1> QED
  BY <1>1, TailFacts DEF Kept

\* Drain events behind the queue, or behind what is left after its head.
LEMMA KeptDrain ==
  ASSUME TypeOK, NEW e, NEW noExecutors, NEW ecbs \in Seq(Waiters), NEW joins,
         NEW queue, NotifyIfDrained(noExecutors, ecbs, joins, queue),
         NEW d \in {0, 1},
         d = 0 => queue = guiQueue,
         d = 1 => guiQueue # <<>> /\ queue = Tail(guiQueue)
  PROVE  Kept(e, d)
<1> DEFINE ready == joinCallbacks \o (IF noExecutors THEN ecbs ELSE <<>>)
<1>1. ready \in Seq(Waiters)
  BY DEF TypeOK
<1>2. guiQueue \in Seq(GuiEvents)
  BY DEF TypeOK
<1>3. /\ queue \in Seq(GuiEvents)
      /\ \A i \in 1..Len(queue) : i + d \in 1..Len(guiQueue) /\ queue[i] = guiQueue[i + d]
  <2>1. CASE d = 0
    BY <1>2, <2>1
  <2>2. CASE d = 1
    <3>1. guiQueue # <<>> /\ queue = Tail(guiQueue)
      BY <2>2
    <3>2. /\ queue \in Seq(GuiEvents) /\ Len(guiQueue) \in Nat
          /\ Len(queue) = Len(guiQueue) - 1
          /\ \A i \in 1..Len(queue) : queue[i] = guiQueue[i + 1]
      BY <1>2, <3>1, TailFacts
    <3> QED
      BY <2>2, <3>2
  <2> QED
    BY <2>1, <2>2
<1>4. /\ DrainEvents(ready) \in Seq(GuiEvents)
      /\ \A i \in 1..Len(DrainEvents(ready)) : DrainEvents(ready)[i].kind = "drained"
  <2> HIDE DEF ready
  <2>1. DrainEvents(ready) \in Seq(GuiEvents)
    BY <1>1, DrainEventsType
  <2> QED
    BY <1>1, <2>1 DEF DrainEvents, GuiEvent
<1>5. guiQueue' = queue \/ guiQueue' = queue \o DrainEvents(ready)
  BY DEF NotifyIfDrained
<1> HIDE DEF ready
<1>6. CASE guiQueue' = queue
  BY <1>3, <1>6 DEF Kept
<1>7. CASE guiQueue' = queue \o DrainEvents(ready)
  <2> SUFFICES ASSUME NEW i \in 1..Len(guiQueue')
               PROVE  \/ guiQueue'[i].kind \in {"drained", "finished"}
                      \/ i + d \in 1..Len(guiQueue) /\ guiQueue'[i] = guiQueue[i + d]
    BY DEF Kept
  <2>1. /\ Len(queue) \in Nat /\ Len(DrainEvents(ready)) \in Nat
        /\ Len(guiQueue') = Len(queue) + Len(DrainEvents(ready))
    BY <1>3, <1>4, <1>7
  <2>2. CASE i <= Len(queue)
    <3>1. guiQueue'[i] = queue[i] /\ i \in 1..Len(queue)
      BY <1>3, <1>4, <1>7, <2>1, <2>2
    <3> QED
      BY <1>3, <3>1
  <2>3. CASE i > Len(queue)
    <3>1. i - Len(queue) \in 1..Len(DrainEvents(ready))
      BY <2>1, <2>3
    <3>2. guiQueue'[i] = DrainEvents(ready)[i - Len(queue)]
      BY <1>3, <1>4, <1>7, <2>1, <2>3
    <3> QED
      BY <1>4, <3>1, <3>2
  <2> QED
    BY <2>1, <2>2, <2>3
<1> QED
  BY <1>5, <1>6, <1>7

----------------------------------------------------------------------------
(* The steps of the GUI thread that stop executors. *)

\* shutdown() of any executors: a stop event is queued last, the completions
\* are dropped.
LEMMA StopExecutorsInv ==
  ASSUME TypeOK, TypeOK', NEW e \in Executors,
         ExecutorInv(e),
         NEW es, StopExecutors(es), e \in es => owner[e] # "unborn",
         owner'[e] = owner[e] \/ owner'[e] = "dead", Kept(e, 0),
         drained'[e] = drained[e], nextTaskId'[e] = nextTaskId[e],
         retained'[e] = retained[e], thread'[e] = thread[e],
         ran'[e] = ran[e], delivered'[e] = delivered[e], active' = active
  PROVE  ExecutorInv(e)'
<1> USE DEF ExecutorInv
<1>1. guiQueue' \in Seq(GuiEvents)
  BY DEF TypeOK
<1>2. CASE ~(e \in es /\ ~stopping[e])
  <2>1. stopping'[e] = stopping[e] /\ guiCompletions'[e] = guiCompletions[e] /\ inbox'[e] = inbox[e]
    BY <1>2 DEF StopExecutors, TypeOK
  <2>2. Quiescent(e) => Quiescent(e)'
    BY <2>1 DEF Quiescent
  <2> QED
    BY <1>1, <2>1, <2>2, QueueFrame, StopFrame, EndFrame, CompletionFrame, DeliveryFrame
<1>3. CASE e \in es /\ ~stopping[e]
  <2>1. stopping'[e] /\ guiCompletions'[e] = {} /\ inbox'[e] = Append(inbox[e], StopEvent)
    BY <1>3 DEF StopExecutors
  <2>2. inbox[e] \in Seq(WorkerEvents) /\ StopEvent \in WorkerEvents
    BY DEF TypeOK, StopEvent, WorkerEvents
  <2>3. /\ Len(inbox[e]) \in Nat /\ Len(inbox'[e]) = Len(inbox[e]) + 1
        /\ inbox'[e][Len(inbox[e]) + 1] = StopEvent
        /\ \A i \in 1..Len(inbox[e]) : inbox'[e][i] = inbox[e][i]
    BY <2>1, <2>2, AppendFacts
  <2>4. StopEvent.kind = "stop"
    BY DEF StopEvent
  <2>5. ~Quiescent(e)
    BY <1>3 DEF Quiescent
  <2>6. QueueInv(e)'
    BY <2>1, <2>2, <2>4, QueueAppend
  <2>7. StopInv(e)'
    <3>1. owner'[e] # "unborn"
      BY <1>3
    <3>2. \A i \in 1..Len(inbox[e]) : inbox[e][i].kind # "stop"
      BY <1>3 DEF StopInv
    <3>3. thread'[e] \in {"unborn", "running"} /\ ~drained'[e]
      BY <2>5 DEF StopInv, TypeOK
    <3> QED
      BY <2>1, <2>3, <3>1, <3>2, <3>3 DEF StopInv
  <2>8. EndInv(e)'
    BY <1>1, <2>5, EndFrame
  <2>9. CompletionInv(e)'
    BY <2>1, <2>3, <2>4 DEF CompletionInv
  <2>10. DeliveryInv(e)'
    BY <1>1, DeliveryFrame
  <2> QED
    BY <2>6, <2>7, <2>8, <2>9, <2>10
<1> QED
  BY <1>2, <1>3

----------------------------------------------------------------------------
(* One lemma per step that changes the state of an executor. *)

LEMMA ConstructInv ==
  ASSUME TypeOK, TypeOK', SafetyInv, NEW x \in Executors, Construct(x),
         NEW e \in Executors
  PROVE  ExecutorInv(e)'
<1>1. ExecutorInv(e)
  BY DEF SafetyInv
<1>2. Kept(e, 0) /\ guiQueue' \in Seq(GuiEvents)
  BY KeptUnchanged DEF Construct, TypeOK
<1>3. CASE e # x
  <2>1. owner'[e] = owner[e] /\ thread'[e] = thread[e]
    BY <1>3 DEF Construct, TypeOK
  <2> QED
    BY <1>1, <1>2, <2>1, Frame DEF Construct, histVars
<1>4. CASE e = x
  <2>1. ~stopping[e] /\ thread'[e] = "running" /\ owner'[e] = "alive" /\ ~drained[e]
    BY <1>1, <1>4 DEF Construct, ExecutorInv, StopInv, TypeOK, Quiescent
  <2>2. /\ stopping'[e] = stopping[e] /\ drained'[e] = drained[e]
        /\ nextTaskId'[e] = nextTaskId[e] /\ guiCompletions'[e] = guiCompletions[e]
        /\ inbox'[e] = inbox[e] /\ retained'[e] = retained[e] /\ guiQueue' = guiQueue
        /\ active' = active /\ ran'[e] = ran[e] /\ delivered'[e] = delivered[e]
    BY DEF Construct, histVars
  <2>3. QueueInv(e)' /\ CompletionInv(e)' /\ DeliveryInv(e)'
    BY <1>1, <1>2, <2>2, QueueFrame, CompletionFrame, DeliveryFrame DEF ExecutorInv
  <2>4. StopInv(e)'
    BY <1>1, <2>1, <2>2 DEF ExecutorInv, StopInv
  <2>5. EndInv(e)'
    BY <1>1, <2>1, <2>2 DEF ExecutorInv, EndInv, Quiescent
  <2> QED
    BY <2>3, <2>4, <2>5 DEF ExecutorInv
<1> QED
  BY <1>3, <1>4

\* A new task has the next id and its run event comes last.
LEMMA SubmitInv ==
  ASSUME TypeOK, TypeOK', SafetyInv, NEW x \in Executors, NEW r \in Receivers, Submit(x, r),
         NEW e \in Executors
  PROVE  ExecutorInv(e)'
<1>1. ExecutorInv(e)
  BY DEF SafetyInv
<1>2. Kept(e, 0) /\ guiQueue' \in Seq(GuiEvents)
  BY KeptUnchanged DEF Submit, TypeOK
<1>3. CASE e # x
  BY <1>1, <1>2, <1>3, Frame DEF Submit, TypeOK, histVars
<1>4. CASE e = x
  <2> DEFINE id == nextTaskId[e] + 1
  <2>1. /\ ~stopping[e] /\ owner[e] = "alive" /\ nextTaskId'[e] = id
        /\ inbox'[e] = Append(inbox[e], RunEvent(id))
        /\ guiCompletions'[e] = guiCompletions[e] \cup {[id |-> id, receiver |-> r]}
    BY <1>4 DEF Submit, NewTaskId, TypeOK
  <2>2. /\ stopping'[e] = stopping[e] /\ drained'[e] = drained[e] /\ owner'[e] = owner[e]
        /\ retained'[e] = retained[e] /\ guiQueue' = guiQueue /\ thread'[e] = thread[e]
        /\ active' = active /\ ran'[e] = ran[e] /\ delivered'[e] = delivered[e]
    BY DEF Submit, histVars
  <2>3. /\ inbox[e] \in Seq(WorkerEvents) /\ RunEvent(id) \in WorkerEvents
        /\ RunEvent(id).kind = "run" /\ RunEvent(id).id = id /\ nextTaskId[e] \in Nat
        /\ Len(ran[e]) \in Nat
    <3>1. inbox[e] \in Seq(WorkerEvents) /\ nextTaskId[e] \in Nat /\ Len(ran[e]) \in Nat
      BY DEF TypeOK
    <3> QED
      BY <3>1 DEF RunEvent, WorkerEvents
  <2>4. /\ Len(inbox[e]) \in Nat /\ Len(inbox'[e]) = Len(inbox[e]) + 1
        /\ inbox'[e][Len(inbox[e]) + 1] = RunEvent(id)
        /\ \A i \in 1..Len(inbox[e]) : inbox'[e][i] = inbox[e][i]
    BY <2>1, <2>3, AppendFacts
  <2> HIDE DEF id
  <2>5. QueueInv(e)'
    <3> USE DEF id
    <3>1. QueueInv(e)
      BY <1>1 DEF ExecutorInv
    <3>2. \A i \in 1..Len(inbox'[e]) :
            inbox'[e][i].kind = "run" => inbox'[e][i].id \in Len(ran'[e])+1..nextTaskId'[e]
      BY <2>1, <2>2, <2>3, <2>4, <3>1 DEF QueueInv
    <3>3. \A i, j \in 1..Len(inbox'[e]) :
            i < j /\ inbox'[e][i].kind = "run" /\ inbox'[e][j].kind = "run" =>
              inbox'[e][i].id < inbox'[e][j].id
      BY <2>1, <2>2, <2>3, <2>4, <3>1 DEF QueueInv
    <3>4. ASSUME NEW k \in Len(ran'[e])+1..nextTaskId'[e]
          PROVE  \E i \in 1..Len(inbox'[e]) : inbox'[e][i].kind = "run" /\ inbox'[e][i].id = k
      <4>1. CASE k = id
        BY <2>3, <2>4, <4>1
      <4>2. CASE k # id
        <5>1. k \in Len(ran[e])+1..nextTaskId[e]
          BY <2>1, <2>2, <2>3, <4>2
        <5>2. PICK i \in 1..Len(inbox[e]) : inbox[e][i].kind = "run" /\ inbox[e][i].id = k
          BY <3>1, <5>1 DEF QueueInv
        <5> QED
          BY <2>4, <5>2
      <4> QED
        BY <4>1, <4>2
    <3>5. Len(ran'[e]) <= nextTaskId'[e] /\ \A i \in 1..Len(ran'[e]) : ran'[e][i] = i
      BY <2>1, <2>2, <2>3, <3>1 DEF QueueInv
    <3> QED
      BY <3>2, <3>3, <3>4, <3>5 DEF QueueInv
  <2>6. ~Quiescent(e) /\ thread[e] \in {"unborn", "running"} /\ ~drained[e]
    BY <1>1, <2>1 DEF ExecutorInv, StopInv, Quiescent, TypeOK
  <2>7. StopInv(e)'
    <3>1. \A i \in 1..Len(inbox'[e]) : inbox'[e][i].kind # "stop"
      BY <1>1, <2>1, <2>3, <2>4 DEF ExecutorInv, StopInv
    <3> QED
      BY <2>1, <2>2, <2>6, <3>1 DEF StopInv
  <2>8. EndInv(e)' /\ DeliveryInv(e)'
    BY <1>1, <1>2, <2>2, <2>6, EndFrame, DeliveryFrame DEF ExecutorInv
  <2>9. CompletionInv(e)'
    <3>1. CompletionInv(e)
      BY <1>1 DEF ExecutorInv
    <3>2. \A i \in 1..Len(inbox'[e]) :
            inbox'[e][i].kind = "release" =>
              i \in 1..Len(inbox[e]) /\ inbox'[e][i] = inbox[e][i] /\ inbox[e][i].id <= nextTaskId[e]
      <4>1. \A i \in 1..Len(inbox'[e]) :
              inbox'[e][i].kind = "release" => i \in 1..Len(inbox[e])
        BY <2>3, <2>4
      <4> QED
        BY <2>4, <3>1, <4>1 DEF CompletionInv
    <3>4. ASSUME NEW c \in guiCompletions'[e]
          PROVE  /\ c.id \in 1..nextTaskId'[e]
                 /\ WorkerHolds(e, c.id)'
                 /\ ~(active'.ex = e /\ active'.id = c.id)
                 /\ \A i \in 1..Len(inbox'[e]) :
                      ~(inbox'[e][i].kind = "release" /\ inbox'[e][i].id = c.id)
      <4>1. CASE c \in guiCompletions[e]
        <5>1. /\ c.id \in 1..nextTaskId[e] /\ WorkerHolds(e, c.id)
              /\ ~(active.ex = e /\ active.id = c.id)
              /\ \A i \in 1..Len(inbox[e]) :
                   ~(inbox[e][i].kind = "release" /\ inbox[e][i].id = c.id)
          BY <3>1, <4>1 DEF CompletionInv
        <5>2. WorkerHolds(e, c.id)'
          <6>1. CASE c.id \in retained[e]
            BY <2>2, <6>1 DEF WorkerHolds
          <6>2. CASE \E i \in 1..Len(inbox[e]) : inbox[e][i] = RunEvent(c.id)
            BY <2>4, <6>2 DEF WorkerHolds
          <6> QED
            BY <5>1, <6>1, <6>2 DEF WorkerHolds
        <5> QED
          BY <2>1, <2>2, <2>3, <3>2, <5>1, <5>2 DEF id
      <4>2. CASE c = [id |-> id, receiver |-> r]
        <5>1. c.id = id
          BY <4>2
        <5>2. WorkerHolds(e, c.id)'
          BY <2>4, <5>1 DEF WorkerHolds
        <5>3. active'.ex = e => active'.id # id
          BY <2>2, <2>3, <3>1, ActiveId DEF CompletionInv, id
        <5>4. \A i \in 1..Len(inbox[e]) : inbox[e][i].id \in Nat
          BY <2>3, WorkerEventId
        <5> QED
          BY <2>1, <2>3, <3>2, <5>1, <5>2, <5>3, <5>4 DEF id
      <4> QED
        BY <2>1, <4>1, <4>2
    <3>5. active'.ex = e => active'.id <= nextTaskId'[e]
      BY <2>1, <2>2, <2>3, <3>1, ActiveId DEF CompletionInv, id
    <3>6. \A i \in 1..Len(inbox'[e]) :
            inbox'[e][i].kind = "release" => inbox'[e][i].id <= nextTaskId'[e]
      <4>1. \A i \in 1..Len(inbox[e]) : inbox[e][i].id \in Nat
        BY <2>3, WorkerEventId
      <4> QED
        BY <2>1, <2>3, <3>2, <4>1 DEF id
    <3> QED
      BY <2>1, <2>2, <3>4, <3>5, <3>6 DEF CompletionInv
  <2> QED
    BY <2>5, <2>7, <2>8, <2>9 DEF ExecutorInv
<1> QED
  BY <1>3, <1>4

\* What a worker that takes its first event knows about its inbox.
LEMMA InboxHead ==
  ASSUME TypeOK, NEW e \in Executors, StopInv(e), EndInv(e), inbox[e] # <<>>,
         inbox'[e] = Tail(inbox[e])
  PROVE  /\ Len(inbox[e]) \in Nat /\ Len(inbox[e]) >= 1 /\ Len(inbox'[e]) = Len(inbox[e]) - 1
         /\ Head(inbox[e]) = inbox[e][1] /\ Head(inbox[e]) \in WorkerEvents
         /\ Head(inbox[e]).id \in Nat
         /\ \A i \in 1..Len(inbox'[e]) : i + 1 \in 1..Len(inbox[e]) /\ inbox'[e][i] = inbox[e][i + 1]
         /\ \A i \in 2..Len(inbox[e]) : i - 1 \in 1..Len(inbox'[e]) /\ inbox'[e][i - 1] = inbox[e][i]
         /\ ~drained[e] /\ thread[e] \in {"unborn", "running"}
         /\ \A i \in 1..Len(guiQueue) :
              guiQueue[i].who = e => guiQueue[i].kind \notin {"quit", "joined"}
         /\ \A i \in 1..Len(inbox'[e]) :
              inbox'[e][i].kind = "stop" => i = Len(inbox'[e]) /\ stopping[e]
<1>1. inbox[e] \in Seq(WorkerEvents)
  BY DEF TypeOK
<1>2. /\ Len(inbox[e]) \in Nat /\ Len(inbox[e]) >= 1 /\ Len(inbox'[e]) = Len(inbox[e]) - 1
      /\ Head(inbox[e]) = inbox[e][1] /\ Head(inbox[e]) \in WorkerEvents
      /\ \A i \in 1..Len(inbox'[e]) : inbox'[e][i] = inbox[e][i + 1]
  BY <1>1, TailFacts
<1>3. Head(inbox[e]).id \in Nat
  BY <1>2 DEF WorkerEvents
<1>4. \A i \in 1..Len(inbox'[e]) : i + 1 \in 1..Len(inbox[e]) /\ inbox'[e][i] = inbox[e][i + 1]
  BY <1>2
<1>5. \A i \in 2..Len(inbox[e]) : i - 1 \in 1..Len(inbox'[e]) /\ inbox'[e][i - 1] = inbox[e][i]
  <2> SUFFICES ASSUME NEW i \in 2..Len(inbox[e])
               PROVE  i - 1 \in 1..Len(inbox'[e]) /\ inbox'[e][i - 1] = inbox[e][i]
    OBVIOUS
  <2>1. i - 1 \in 1..Len(inbox'[e]) /\ (i - 1) + 1 = i
    BY <1>2
  <2> QED
    BY <1>2, <2>1
<1>6. ~Quiescent(e)
  BY DEF Quiescent
<1>7. ~drained[e] /\ thread[e] \in {"unborn", "running"}
  BY <1>6 DEF StopInv
<1>8. \A i \in 1..Len(guiQueue) : guiQueue[i].who = e => guiQueue[i].kind \notin {"quit", "joined"}
  BY <1>6 DEF EndInv
<1>9. \A i \in 1..Len(inbox'[e]) :
        inbox'[e][i].kind = "stop" => i = Len(inbox'[e]) /\ stopping[e]
  <2> SUFFICES ASSUME NEW i \in 1..Len(inbox'[e]), inbox'[e][i].kind = "stop"
               PROVE  i = Len(inbox'[e]) /\ stopping[e]
    OBVIOUS
  <2>1. i + 1 = Len(inbox[e]) /\ stopping[e]
    BY <1>4 DEF StopInv
  <2> QED
    BY <1>2, <2>1
<1> QED
  BY <1>2, <1>3, <1>4, <1>5, <1>7, <1>8, <1>9

\* runTask takes the oldest accepted task that has not run.
LEMMA RunTaskInv ==
  ASSUME TypeOK, TypeOK', SafetyInv, NEW x \in Executors, RunTask(x),
         NEW e \in Executors
  PROVE  ExecutorInv(e)'
<1>1. ExecutorInv(e) /\ QueueInv(e) /\ StopInv(e) /\ EndInv(e) /\ CompletionInv(e) /\ DeliveryInv(e)
  BY DEF SafetyInv, ExecutorInv
<1> DEFINE id == Head(inbox[x]).id
           ev == GuiEvent("completed", x, id)
<1>2. guiQueue \in Seq(GuiEvents) /\ guiQueue' \in Seq(GuiEvents)
  BY DEF TypeOK
<1>3. /\ inbox[x] # <<>> /\ inbox'[x] = Tail(inbox[x]) /\ Head(inbox[x]).kind = "run"
      /\ retained'[x] = retained[x] \cup {id}
      /\ ran'[x] = Append(ran[x], id)
      /\ guiQueue' = guiQueue \/ guiQueue' = Append(guiQueue, ev)
      /\ owner' = owner /\ stopping' = stopping /\ drained' = drained
      /\ nextTaskId' = nextTaskId /\ guiCompletions' = guiCompletions /\ thread' = thread
      /\ active' = active /\ delivered' = delivered
  BY DEF RunTask, RetainTask, PostToGui, execVars, TypeOK
<1>4. id \in Nat /\ ev \in GuiEvents /\ ev.kind = "completed" /\ ev.who = x /\ ev.id = id
  <2>1. inbox[x] \in Seq(WorkerEvents)
    BY DEF TypeOK
  <2>2. Head(inbox[x]) \in WorkerEvents
    BY <1>3, <2>1
  <2> QED
    BY <2>2 DEF WorkerEvents, GuiEvent, GuiEvents
<1> HIDE DEF ev, id
<1>5. CASE e # x
  <2>1. inbox'[e] = inbox[e] /\ retained'[e] = retained[e] /\ ran'[e] = ran[e]
    BY <1>5 DEF RunTask, TypeOK
  <2>2. Kept(e, 0)
    BY <1>3, <1>4, <1>5, KeptUnchanged, KeptAppend
  <2> QED
    BY <1>1, <1>2, <1>3, <2>1, <2>2, Frame
<1>6. CASE e = x
  <2>1. /\ Len(inbox[e]) \in Nat /\ Len(inbox[e]) >= 1 /\ Len(inbox'[e]) = Len(inbox[e]) - 1
        /\ inbox[e][1].kind = "run" /\ inbox[e][1].id = id /\ inbox[e][1] \in WorkerEvents
        /\ \A i \in 1..Len(inbox'[e]) : i + 1 \in 1..Len(inbox[e]) /\ inbox'[e][i] = inbox[e][i + 1]
        /\ \A i \in 2..Len(inbox[e]) : i - 1 \in 1..Len(inbox'[e]) /\ inbox'[e][i - 1] = inbox[e][i]
        /\ ~drained[e] /\ thread[e] \in {"unborn", "running"}
        /\ \A i \in 1..Len(guiQueue) :
             guiQueue[i].who = e => guiQueue[i].kind \notin {"quit", "joined"}
        /\ \A i \in 1..Len(inbox'[e]) :
             inbox'[e][i].kind = "stop" => i = Len(inbox'[e]) /\ stopping[e]
    BY <1>1, <1>3, <1>6, InboxHead DEF id
  <2>2. Len(ran[e]) \in Nat /\ ran[e] \in Seq(Nat) /\ nextTaskId[e] \in Nat
    BY DEF TypeOK
  <2>a. \A i \in 1..Len(inbox[e]) :
          inbox[e][i].kind = "run" => inbox[e][i].id \in Len(ran[e])+1..nextTaskId[e]
    BY <1>1 DEF QueueInv
  <2>b. \A i, j \in 1..Len(inbox[e]) :
          i < j /\ inbox[e][i].kind = "run" /\ inbox[e][j].kind = "run" =>
            inbox[e][i].id < inbox[e][j].id
    BY <1>1 DEF QueueInv
  <2>c. \A k \in Len(ran[e])+1..nextTaskId[e] :
          \E i \in 1..Len(inbox[e]) : inbox[e][i].kind = "run" /\ inbox[e][i].id = k
    BY <1>1 DEF QueueInv
  <2>d. 1 \in 1..Len(inbox[e])
    BY <2>1
  <2>3. id = Len(ran[e]) + 1 /\ id <= nextTaskId[e]
    <3>1. id \in Len(ran[e])+1..nextTaskId[e]
      BY <2>1, <2>a, <2>d
    <3>2. Len(ran[e]) + 1 \in Len(ran[e])+1..nextTaskId[e]
      BY <2>2, <3>1
    <3>3. PICK k \in 1..Len(inbox[e]) : inbox[e][k].kind = "run" /\ inbox[e][k].id = Len(ran[e]) + 1
      BY <2>c, <3>2
    <3>4. 1 < k => id < Len(ran[e]) + 1
      BY <2>1, <2>b, <2>d, <3>3
    <3>5. id \in Nat /\ Len(ran[e]) + 1 <= id /\ id <= nextTaskId[e]
      BY <2>2, <3>1
    <3>6. CASE k = 1
      BY <2>1, <3>3, <3>5, <3>6
    <3>7. CASE k # 1
      <4>1. id < Len(ran[e]) + 1
        BY <2>1, <3>3, <3>4, <3>7
      <4> QED
        BY <2>2, <3>5, <4>1
    <3> QED
      BY <3>6, <3>7
  <2>4. /\ Len(ran'[e]) = Len(ran[e]) + 1 /\ ran'[e][Len(ran[e]) + 1] = id
        /\ \A i \in 1..Len(ran[e]) : ran'[e][i] = ran[e][i]
    BY <1>3, <1>4, <1>6, <2>2, AppendFacts
  <2>5. QueueInv(e)'
    <3>1. Len(ran'[e]) <= nextTaskId'[e] /\ \A i \in 1..Len(ran'[e]) : ran'[e][i] = i
      <4>1. \A i \in 1..Len(ran[e]) : ran[e][i] = i
        BY <1>1 DEF QueueInv
      <4>2. nextTaskId'[e] = nextTaskId[e]
        BY <1>3
      <4>3. ASSUME NEW i \in 1..Len(ran'[e])
            PROVE  ran'[e][i] = i
        <5>1. CASE i = Len(ran[e]) + 1
          BY <2>3, <2>4, <5>1
        <5>2. CASE i # Len(ran[e]) + 1
          <6>1. i \in 1..Len(ran[e])
            BY <2>2, <2>4, <5>2
          <6> QED
            BY <2>4, <4>1, <6>1
        <5> QED
          BY <5>1, <5>2
      <4> QED
        BY <2>3, <2>4, <4>2, <4>3
    <3>2. ASSUME NEW i \in 1..Len(inbox'[e]), NEW j \in 1..Len(inbox'[e]), i < j,
                 inbox'[e][i].kind = "run", inbox'[e][j].kind = "run"
          PROVE  inbox'[e][i].id < inbox'[e][j].id
      <4>1. /\ i + 1 \in 1..Len(inbox[e]) /\ inbox'[e][i] = inbox[e][i + 1]
            /\ j + 1 \in 1..Len(inbox[e]) /\ inbox'[e][j] = inbox[e][j + 1]
        BY <2>1
      <4>2. i + 1 < j + 1
        BY <2>1, <3>2
      <4> QED
        BY <2>b, <3>2, <4>1, <4>2
    <3>3. ASSUME NEW i \in 1..Len(inbox'[e]), inbox'[e][i].kind = "run"
          PROVE  inbox'[e][i].id \in Len(ran'[e])+1..nextTaskId'[e]
      <4>1. i + 1 \in 1..Len(inbox[e]) /\ inbox'[e][i] = inbox[e][i + 1] /\ 1 < i + 1
        BY <2>1
      <4>2. inbox[e][i + 1].id \in Len(ran[e])+1..nextTaskId[e]
        BY <2>a, <3>3, <4>1
      <4>3. id < inbox[e][i + 1].id
        BY <2>1, <2>b, <2>d, <3>3, <4>1
      <4> QED
        BY <1>3, <2>2, <2>3, <2>4, <4>1, <4>2, <4>3
    <3>4. ASSUME NEW k \in Len(ran'[e])+1..nextTaskId'[e]
          PROVE  \E i \in 1..Len(inbox'[e]) : inbox'[e][i].kind = "run" /\ inbox'[e][i].id = k
      <4>1. k \in Len(ran[e])+1..nextTaskId[e] /\ k # id
        BY <1>3, <2>2, <2>3, <2>4
      <4>2. PICK i \in 1..Len(inbox[e]) : inbox[e][i].kind = "run" /\ inbox[e][i].id = k
        BY <2>c, <4>1
      <4>3. i # 1
        BY <2>1, <4>1, <4>2
      <4>4. i \in 2..Len(inbox[e])
        BY <2>1, <4>3
      <4> QED
        BY <2>1, <4>2, <4>4
    <3> QED
      BY <3>1, <3>2, <3>3, <3>4 DEF QueueInv
  <2>6. StopInv(e)'
    BY <1>1, <1>3, <2>1 DEF StopInv
  <2>7. \A i \in 1..Len(guiQueue') :
          \/ i \in 1..Len(guiQueue) /\ guiQueue'[i] = guiQueue[i]
          \/ i = Len(guiQueue) + 1 /\ guiQueue'[i] = ev
    BY <1>2, <1>3, <1>4, AppendFacts
  <2>8. EndInv(e)'
    BY <1>4, <2>1, <2>7 DEF EndInv
  <2>9. CompletionInv(e)'
    <3>1. ASSUME NEW c \in guiCompletions[e] PROVE WorkerHolds(e, c.id)'
      <4>1. WorkerHolds(e, c.id)
        BY <1>1 DEF CompletionInv
      <4>2. CASE c.id \in retained[e] \/ c.id = id
        BY <1>3, <1>6, <4>2 DEF WorkerHolds
      <4>3. CASE c.id # id /\ \E i \in 1..Len(inbox[e]) : inbox[e][i] = RunEvent(c.id)
        <5>1. PICK i \in 1..Len(inbox[e]) : inbox[e][i] = RunEvent(c.id)
          BY <4>3
        <5>2. i # 1
          BY <2>1, <4>3, <5>1 DEF RunEvent
        <5>3. i \in 2..Len(inbox[e])
          BY <2>1, <5>2
        <5> QED
          BY <2>1, <5>1, <5>3 DEF WorkerHolds
      <4> QED
        BY <4>1, <4>2, <4>3 DEF WorkerHolds
    <3>2. \A i \in 1..Len(inbox'[e]) : \E j \in 1..Len(inbox[e]) : inbox'[e][i] = inbox[e][j]
      BY <2>1
    <3> QED
      BY <1>1, <1>3, <3>1, <3>2 DEF CompletionInv
  <2>10. DeliveryInv(e)'
    <3>1. \A i \in 1..Len(guiQueue') : guiQueue'[i].kind = "completed" /\ guiQueue'[i].who = e =>
            guiQueue'[i].id <= Len(ran'[e])
      <4>1. \A i \in 1..Len(guiQueue) : guiQueue[i].id \in Nat
        BY <1>2, GuiEventId
      <4> QED
        BY <1>1, <1>4, <2>2, <2>3, <2>4, <2>7, <4>1 DEF DeliveryInv
    <3>2. delivered[e] \in Seq(Nat) /\ Len(delivered[e]) \in Nat
      BY DEF TypeOK
    <3>3. \A i \in 1..Len(delivered[e]) : delivered[e][i] \in Nat /\ delivered[e][i] <= Len(ran[e])
      BY <1>1, <3>2 DEF DeliveryInv
    <3>4. ASSUME NEW i \in 1..Len(guiQueue'), guiQueue'[i].kind = "completed", guiQueue'[i].who = e
          PROVE  /\ \A k \in 1..Len(delivered[e]) : delivered[e][k] < guiQueue'[i].id
                 /\ \A j \in 1..Len(guiQueue') :
                      i < j /\ guiQueue'[j].kind = "completed" /\ guiQueue'[j].who = e =>
                        guiQueue'[i].id < guiQueue'[j].id
      <4>0. Len(guiQueue) \in Nat
        BY <1>2
      <4>1. CASE i \in 1..Len(guiQueue) /\ guiQueue'[i] = guiQueue[i]
        <5>1. guiQueue[i].id <= Len(ran[e]) /\ guiQueue[i].id \in Nat
          BY <1>1, <1>2, <3>4, <4>1, GuiEventId DEF DeliveryInv
        <5>2. \A k \in 1..Len(delivered[e]) : delivered[e][k] < guiQueue'[i].id
          BY <1>1, <3>4, <4>1 DEF DeliveryInv
        <5>3. ASSUME NEW j \in 1..Len(guiQueue'), i < j, guiQueue'[j].kind = "completed",
                     guiQueue'[j].who = e
              PROVE  guiQueue'[i].id < guiQueue'[j].id
          <6>1. CASE j \in 1..Len(guiQueue) /\ guiQueue'[j] = guiQueue[j]
            BY <1>1, <3>4, <4>1, <5>3, <6>1 DEF DeliveryInv
          <6>2. CASE j = Len(guiQueue) + 1 /\ guiQueue'[j] = ev
            BY <1>4, <2>2, <2>3, <4>1, <5>1, <6>2
          <6> QED
            BY <2>7, <6>1, <6>2
        <5> QED
          BY <5>2, <5>3
      <4>2. CASE i = Len(guiQueue) + 1 /\ guiQueue'[i] = ev
        <5>1. \A j \in 1..Len(guiQueue') : ~(i < j)
          BY <2>7, <4>0, <4>2
        <5> QED
          BY <1>4, <2>2, <2>3, <3>3, <4>2, <5>1
      <4> QED
        BY <2>7, <4>1, <4>2
    <3>5. \A i \in 1..Len(delivered'[e]) : delivered'[e][i] <= Len(ran'[e])
      BY <1>3, <2>2, <2>4, <3>3
    <3> QED
      BY <1>1, <1>3, <3>1, <3>4, <3>5 DEF DeliveryInv
  <2> QED
    BY <2>5, <2>6, <2>8, <2>9, <2>10 DEF ExecutorInv
<1> QED
  BY <1>5, <1>6

\* An event that runs no task is taken from the inbox.
LEMMA QueueTail ==
  ASSUME TypeOK, NEW e \in Executors, QueueInv(e), StopInv(e), EndInv(e),
         inbox[e] # <<>>, Head(inbox[e]).kind # "run", inbox'[e] = Tail(inbox[e]),
         ran'[e] = ran[e], nextTaskId'[e] = nextTaskId[e]
  PROVE  QueueInv(e)'
<1>1. /\ Len(inbox[e]) \in Nat /\ Len(inbox[e]) >= 1 /\ Len(inbox'[e]) = Len(inbox[e]) - 1
      /\ inbox[e][1].kind # "run"
      /\ \A i \in 1..Len(inbox'[e]) : i + 1 \in 1..Len(inbox[e]) /\ inbox'[e][i] = inbox[e][i + 1]
      /\ \A i \in 2..Len(inbox[e]) : i - 1 \in 1..Len(inbox'[e]) /\ inbox'[e][i - 1] = inbox[e][i]
  BY InboxHead
<1>2. \A i \in 1..Len(inbox'[e]) :
        inbox'[e][i].kind = "run" => inbox'[e][i].id \in Len(ran'[e])+1..nextTaskId'[e]
  BY <1>1 DEF QueueInv
<1>3. ASSUME NEW i \in 1..Len(inbox'[e]), NEW j \in 1..Len(inbox'[e]), i < j,
             inbox'[e][i].kind = "run", inbox'[e][j].kind = "run"
      PROVE  inbox'[e][i].id < inbox'[e][j].id
  <2>1. /\ i + 1 \in 1..Len(inbox[e]) /\ inbox'[e][i] = inbox[e][i + 1]
        /\ j + 1 \in 1..Len(inbox[e]) /\ inbox'[e][j] = inbox[e][j + 1]
    BY <1>1
  <2>2. i + 1 < j + 1
    BY <1>1, <1>3
  <2>3. \A a, b \in 1..Len(inbox[e]) :
          a < b /\ inbox[e][a].kind = "run" /\ inbox[e][b].kind = "run" =>
            inbox[e][a].id < inbox[e][b].id
    BY DEF QueueInv
  <2> QED
    BY <1>3, <2>1, <2>2, <2>3
<1>4. ASSUME NEW k \in Len(ran'[e])+1..nextTaskId'[e]
      PROVE  \E i \in 1..Len(inbox'[e]) : inbox'[e][i].kind = "run" /\ inbox'[e][i].id = k
  <2>1. PICK i \in 1..Len(inbox[e]) : inbox[e][i].kind = "run" /\ inbox[e][i].id = k
    BY DEF QueueInv
  <2>2. i \in 2..Len(inbox[e])
    BY <1>1, <2>1
  <2> QED
    BY <1>1, <2>1, <2>2
<1>5. Len(ran'[e]) <= nextTaskId'[e] /\ \A i \in 1..Len(ran'[e]) : ran'[e][i] = i
  BY DEF QueueInv
<1> QED
  BY <1>2, <1>3, <1>4, <1>5 DEF QueueInv

\* releaseTask drops a task whose completion is gone from the GUI thread.
LEMMA ReleaseTaskInv ==
  ASSUME TypeOK, TypeOK', SafetyInv, NEW x \in Executors, ReleaseTask(x),
         NEW e \in Executors
  PROVE  ExecutorInv(e)'
<1>1. ExecutorInv(e) /\ QueueInv(e) /\ StopInv(e) /\ EndInv(e) /\ CompletionInv(e) /\ DeliveryInv(e)
  BY DEF SafetyInv, ExecutorInv
<1>2. Kept(e, 0) /\ guiQueue' \in Seq(GuiEvents)
  BY KeptUnchanged DEF ReleaseTask, TypeOK
<1>3. /\ inbox[x] # <<>> /\ inbox'[x] = Tail(inbox[x]) /\ Head(inbox[x]).kind = "release"
      /\ retained'[x] = retained[x] \ {Head(inbox[x]).id}
      /\ owner' = owner /\ stopping' = stopping /\ drained' = drained
      /\ nextTaskId' = nextTaskId /\ guiCompletions' = guiCompletions /\ thread' = thread
      /\ active' = active /\ delivered' = delivered /\ ran' = ran /\ guiQueue' = guiQueue
  BY DEF ReleaseTask, execVars, histVars, TypeOK
<1>4. CASE e # x
  <2>1. inbox'[e] = inbox[e] /\ retained'[e] = retained[e]
    BY <1>4 DEF ReleaseTask, TypeOK
  <2> QED
    BY <1>1, <1>2, <1>3, <2>1, Frame
<1>5. CASE e = x
  <2>1. /\ Len(inbox[e]) \in Nat /\ Len(inbox[e]) >= 1 /\ Head(inbox[e]) = inbox[e][1]
        /\ \A i \in 1..Len(inbox'[e]) : i + 1 \in 1..Len(inbox[e]) /\ inbox'[e][i] = inbox[e][i + 1]
        /\ \A i \in 2..Len(inbox[e]) : i - 1 \in 1..Len(inbox'[e]) /\ inbox'[e][i - 1] = inbox[e][i]
        /\ ~drained[e] /\ thread[e] \in {"unborn", "running"}
        /\ \A i \in 1..Len(inbox'[e]) :
             inbox'[e][i].kind = "stop" => i = Len(inbox'[e]) /\ stopping[e]
    BY <1>1, <1>3, <1>5, InboxHead
  <2>2. QueueInv(e)'
    BY <1>1, <1>3, <1>5, QueueTail
  <2>3. StopInv(e)'
    BY <1>1, <1>3, <2>1 DEF StopInv
  <2>4. EndInv(e)'
    <3>1. ~Quiescent(e)
      BY <1>3, <1>5 DEF Quiescent
    <3> QED
      BY <1>1, <1>2, <1>3, <3>1, EndFrame
  <2>5. CompletionInv(e)'
    <3>1. ASSUME NEW c \in guiCompletions[e] PROVE WorkerHolds(e, c.id)'
      <4>1. WorkerHolds(e, c.id) /\ c.id # inbox[e][1].id
        BY <1>1, <1>3, <1>5, <2>1 DEF CompletionInv
      <4>2. CASE c.id \in retained[e]
        BY <1>3, <1>5, <2>1, <4>1, <4>2 DEF WorkerHolds
      <4>3. CASE \E i \in 1..Len(inbox[e]) : inbox[e][i] = RunEvent(c.id)
        <5>1. PICK i \in 1..Len(inbox[e]) : inbox[e][i] = RunEvent(c.id)
          BY <4>3
        <5>2. i # 1
          BY <1>3, <1>5, <2>1, <5>1 DEF RunEvent
        <5>3. i \in 2..Len(inbox[e])
          BY <2>1, <5>2
        <5> QED
          BY <2>1, <5>1, <5>3 DEF WorkerHolds
      <4> QED
        BY <4>1, <4>2, <4>3 DEF WorkerHolds
    <3>2. \A i \in 1..Len(inbox'[e]) : \E j \in 1..Len(inbox[e]) : inbox'[e][i] = inbox[e][j]
      BY <2>1
    <3> QED
      BY <1>1, <1>3, <3>1, <3>2 DEF CompletionInv
  <2>6. DeliveryInv(e)'
    BY <1>1, <1>2, <1>3, DeliveryFrame
  <2> QED
    BY <2>2, <2>3, <2>4, <2>5, <2>6 DEF ExecutorInv
<1> QED
  BY <1>4, <1>5

\* The stop event leaves the worker with nothing to do.
LEMMA StopWorkerInv ==
  ASSUME TypeOK, TypeOK', SafetyInv, NEW x \in Executors, StopWorker(x),
         NEW e \in Executors
  PROVE  ExecutorInv(e)'
<1>1. ExecutorInv(e) /\ QueueInv(e) /\ StopInv(e) /\ EndInv(e) /\ CompletionInv(e) /\ DeliveryInv(e)
  BY DEF SafetyInv, ExecutorInv
<1> DEFINE ev == GuiEvent("quit", x, 0)
<1>2. guiQueue \in Seq(GuiEvents) /\ guiQueue' \in Seq(GuiEvents)
  BY DEF TypeOK
<1>3. /\ inbox[x] # <<>> /\ inbox'[x] = Tail(inbox[x]) /\ Head(inbox[x]).kind = "stop"
      /\ retained'[x] = {} /\ guiQueue' = Append(guiQueue, ev) /\ thread[x] = "running"
      /\ owner' = owner /\ stopping' = stopping /\ drained' = drained
      /\ nextTaskId' = nextTaskId /\ guiCompletions' = guiCompletions /\ thread' = thread
      /\ active' = active /\ delivered' = delivered /\ ran' = ran
  BY DEF StopWorker, PostToGui, execVars, histVars, TypeOK
<1>4. ev \in GuiEvents /\ ev.kind = "quit" /\ ev.who = x
  BY DEF GuiEvent, GuiEvents
<1> HIDE DEF ev
<1>5. CASE e # x
  <2>1. inbox'[e] = inbox[e] /\ retained'[e] = retained[e]
    BY <1>5 DEF StopWorker, TypeOK
  <2>2. Kept(e, 0)
    BY <1>3, <1>4, <1>5, KeptAppend
  <2> QED
    BY <1>1, <1>2, <1>3, <2>1, <2>2, Frame
<1>6. CASE e = x
  <2>1. /\ Len(inbox[e]) \in Nat /\ Len(inbox[e]) >= 1 /\ Len(inbox'[e]) = Len(inbox[e]) - 1
        /\ Head(inbox[e]) = inbox[e][1]
        /\ ~drained[e]
        /\ \A i \in 1..Len(guiQueue) :
             guiQueue[i].who = e => guiQueue[i].kind \notin {"quit", "joined"}
    BY <1>1, <1>3, <1>6, InboxHead
  <2>2. Len(inbox[e]) = 1 /\ stopping[e]
    <3>1. \A i \in 1..Len(inbox[e]) :
            inbox[e][i].kind = "stop" => i = Len(inbox[e]) /\ stopping[e]
      BY <1>1 DEF StopInv
    <3>2. 1 \in 1..Len(inbox[e]) /\ inbox[e][1].kind = "stop"
      BY <1>3, <1>6, <2>1
    <3> QED
      BY <3>1, <3>2
  <2>3. inbox'[e] = <<>> /\ Len(inbox'[e]) = 0
    <3>1. inbox'[e] \in Seq(WorkerEvents)
      BY DEF TypeOK
    <3> QED
      BY <2>1, <2>2, <3>1
  <2>4. Quiescent(e)'
    BY <1>3, <1>6, <2>2, <2>3 DEF Quiescent
  <2>5. QueueInv(e)'
    BY <1>1, <1>3, <1>6, QueueTail
  <2>6. StopInv(e)'
    BY <1>1, <1>3, <2>3, <2>4 DEF StopInv
  <2>7. \A i \in 1..Len(guiQueue') :
          \/ i \in 1..Len(guiQueue) /\ guiQueue'[i] = guiQueue[i]
          \/ i = Len(guiQueue) + 1 /\ guiQueue'[i] = ev
    BY <1>2, <1>3, <1>4, AppendFacts
  <2>8. EndInv(e)'
    BY <1>3, <1>4, <1>6, <2>1, <2>4, <2>7 DEF EndInv
  <2>9. CompletionInv(e)'
    BY <1>1, <1>3, <2>2, <2>3 DEF CompletionInv
  <2>10. DeliveryInv(e)'
    <3>1. \A i \in 1..Len(guiQueue') : guiQueue'[i].kind = "completed" =>
            i \in 1..Len(guiQueue) /\ guiQueue'[i] = guiQueue[i]
      BY <1>4, <2>7
    <3> QED
      BY <1>1, <1>3, <3>1 DEF DeliveryInv
  <2> QED
    BY <2>5, <2>6, <2>8, <2>9, <2>10 DEF ExecutorInv
<1> QED
  BY <1>5, <1>6

\* The thread of e leaves its event loop, ends or is told to quit.
LEMMA ThreadLeavesInv ==
  ASSUME TypeOK, TypeOK', NEW e \in Executors, ExecutorInv(e), NEW d \in {0, 1}, Kept(e, d),
         Quiescent(e),
         \A i \in 1..Len(guiQueue') : guiQueue'[i].who = e => guiQueue'[i].kind # "quit",
         thread'[e] \in {"quitting", "finished", "ended"},
         \A i \in 1..Len(guiQueue') : ~(guiQueue'[i].who = e /\ guiQueue'[i].kind = "joined"),
         owner' = owner, stopping' = stopping, drained' = drained,
         nextTaskId' = nextTaskId, guiCompletions' = guiCompletions, inbox' = inbox,
         retained' = retained, active' = active, ran' = ran, delivered' = delivered
  PROVE  ExecutorInv(e)'
<1>1. QueueInv(e) /\ StopInv(e) /\ CompletionInv(e) /\ DeliveryInv(e)
  BY DEF ExecutorInv
<1>2. guiQueue' \in Seq(GuiEvents)
  BY DEF TypeOK
<1>3. QueueInv(e)' /\ CompletionInv(e)' /\ DeliveryInv(e)'
  BY <1>1, <1>2, QueueFrame, CompletionFrame, DeliveryFrame
<1>4. Quiescent(e)'
  BY DEF Quiescent
<1>5. StopInv(e)'
  BY <1>1, <1>4 DEF StopInv
<1>6. EndInv(e)'
  BY DEF EndInv
<1> QED
  BY <1>3, <1>5, <1>6 DEF ExecutorInv

\* As long as the thread has not ended, no joined event is there; only a
\* running thread is told to quit.
LEMMA NoEndEvents ==
  ASSUME NEW e \in Executors, EndInv(e), thread[e] \in {"quitting", "finished"}
  PROVE  \A i \in 1..Len(guiQueue) : guiQueue[i].who = e => guiQueue[i].kind \notin {"quit", "joined"}
  BY DEF EndInv

LEMMA ThreadFinishedInv ==
  ASSUME TypeOK, TypeOK', SafetyInv, NEW t \in Threads, ThreadFinished(t),
         NEW e \in Executors
  PROVE  ExecutorInv(e)'
<1>1. ExecutorInv(e) /\ StopInv(e) /\ EndInv(e)
  BY DEF SafetyInv, ExecutorInv
<1> DEFINE ev == GuiEvent("finished", t, 0)
<1>2. guiQueue \in Seq(GuiEvents) /\ guiQueue' \in Seq(GuiEvents)
  BY DEF TypeOK
<1>3. /\ thread[t] = "quitting" /\ thread' = [thread EXCEPT ![t] = "finished"]
      /\ guiQueue' = guiQueue \/ (t \in Executors /\ guiQueue' = Append(guiQueue, ev))
      /\ owner' = owner /\ stopping' = stopping /\ drained' = drained
      /\ nextTaskId' = nextTaskId /\ guiCompletions' = guiCompletions
      /\ inbox' = inbox /\ retained' = retained
      /\ active' = active /\ delivered' = delivered /\ ran' = ran
  BY DEF ThreadFinished, PostToGui, execVars, histVars
<1>4. t \in Executors => ev \in GuiEvents /\ ev.kind = "finished" /\ ev.who = t
  BY DEF GuiEvent, GuiEvents
<1> HIDE DEF ev
<1>5. Kept(e, 0)
  BY <1>3, <1>4, KeptUnchanged, KeptAppend
<1>6. CASE e # t
  <2>1. thread'[e] = thread[e]
    BY <1>3, <1>6 DEF TypeOK
  <2> QED
    BY <1>1, <1>2, <1>3, <1>5, <2>1, Frame
<1>7. CASE e = t
  <2>1. thread'[e] = "finished" /\ Quiescent(e)
    BY <1>1, <1>3, <1>7 DEF StopInv, TypeOK
  <2>2. \A i \in 1..Len(guiQueue) : guiQueue[i].who = e => guiQueue[i].kind \notin {"quit", "joined"}
    BY <1>1, <1>3, <1>7, NoEndEvents
  <2>3. \A i \in 1..Len(guiQueue') : guiQueue'[i].who = e => guiQueue'[i].kind \notin {"quit", "joined"}
    BY <1>5, <2>2 DEF Kept
  <2> QED
    BY <1>1, <1>3, <1>5, <2>1, <2>3, ThreadLeavesInv
<1> QED
  BY <1>6, <1>7

LEMMA ThreadEndedInv ==
  ASSUME TypeOK, TypeOK', SafetyInv, NEW t \in Threads, ThreadEnded(t),
         NEW e \in Executors
  PROVE  ExecutorInv(e)'
<1>1. ExecutorInv(e) /\ StopInv(e) /\ EndInv(e)
  BY DEF SafetyInv, ExecutorInv
<1>2. Kept(e, 0) /\ guiQueue' \in Seq(GuiEvents)
  BY KeptUnchanged DEF ThreadEnded, TypeOK
<1>3. /\ thread[t] = "finished" /\ thread' = [thread EXCEPT ![t] = "ended"]
      /\ guiQueue' = guiQueue
      /\ owner' = owner /\ stopping' = stopping /\ drained' = drained
      /\ nextTaskId' = nextTaskId /\ guiCompletions' = guiCompletions
      /\ inbox' = inbox /\ retained' = retained
      /\ active' = active /\ delivered' = delivered /\ ran' = ran
  BY DEF ThreadEnded, execVars, histVars
<1>4. CASE e # t
  <2>1. thread'[e] = thread[e]
    BY <1>3, <1>4 DEF TypeOK
  <2> QED
    BY <1>1, <1>2, <1>3, <2>1, Frame
<1>5. CASE e = t
  <2>1. thread'[e] = "ended" /\ Quiescent(e)
    BY <1>1, <1>3, <1>5 DEF StopInv, TypeOK
  <2>2. \A i \in 1..Len(guiQueue) : guiQueue[i].who = e => guiQueue[i].kind \notin {"quit", "joined"}
    BY <1>1, <1>3, <1>5, NoEndEvents
  <2> QED
    BY <1>1, <1>2, <1>3, <2>1, <2>2, ThreadLeavesInv
<1> QED
  BY <1>4, <1>5

LEMMA HandleQuitInv ==
  ASSUME TypeOK, TypeOK', SafetyInv, HandleQuit, NEW e \in Executors
  PROVE  ExecutorInv(e)'
<1>1. ExecutorInv(e) /\ StopInv(e) /\ EndInv(e)
  BY DEF SafetyInv, ExecutorInv
<1> DEFINE x == Head(guiQueue).who
<1>2. /\ guiQueue # <<>> /\ guiQueue' = Tail(guiQueue) /\ Head(guiQueue).kind = "quit"
      /\ thread' = [thread EXCEPT ![x] = "quitting"]
      /\ owner' = owner /\ stopping' = stopping /\ drained' = drained
      /\ nextTaskId' = nextTaskId /\ guiCompletions' = guiCompletions
      /\ inbox' = inbox /\ retained' = retained
      /\ active' = active /\ delivered' = delivered /\ ran' = ran
  BY DEF HandleQuit, NextGuiEvent, execVars, histVars
<1>3. guiQueue \in Seq(GuiEvents) /\ guiQueue' \in Seq(GuiEvents)
  BY DEF TypeOK
<1>4. /\ Len(guiQueue) \in Nat /\ Len(guiQueue) >= 1 /\ Head(guiQueue) = guiQueue[1]
      /\ \A i \in 1..Len(guiQueue') : i + 1 \in 1..Len(guiQueue) /\ guiQueue'[i] = guiQueue[i + 1]
  BY <1>2, <1>3, TailFacts
<1>5. Kept(e, 1)
  BY <1>2, KeptTail
<1>6. CASE e # x
  <2>1. thread'[e] = thread[e]
    BY <1>2, <1>6 DEF TypeOK
  <2> QED
    BY <1>1, <1>2, <1>3, <1>5, <2>1, Frame
<1>7. CASE e = x
  <2>1. 1 \in 1..Len(guiQueue) /\ guiQueue[1].kind = "quit" /\ guiQueue[1].who = e
    BY <1>2, <1>4, <1>7
  <2>2. /\ Quiescent(e) /\ thread[e] = "running"
        /\ \A j \in 1..Len(guiQueue) : guiQueue[j].kind = "quit" /\ guiQueue[j].who = e => 1 = j
        /\ \A j \in 1..Len(guiQueue) : ~(guiQueue[j].kind = "joined" /\ guiQueue[j].who = e)
    BY <1>1, <2>1 DEF EndInv
  <2>3. \A i \in 1..Len(guiQueue') : guiQueue'[i].who = e => guiQueue'[i].kind \notin {"quit", "joined"}
    BY <1>4, <2>2
  <2>4. thread'[e] = "quitting"
    BY <1>2, <1>7 DEF TypeOK
  <2> QED
    BY <1>1, <1>2, <1>5, <2>2, <2>3, <2>4, ThreadLeavesInv
<1> QED
  BY <1>6, <1>7

\* The joiner announces the end of a thread that has ended.
LEMMA JoinerReturnsInv ==
  ASSUME TypeOK, TypeOK', SafetyInv, NEW t \in Threads, JoinerReturns(t),
         NEW e \in Executors
  PROVE  ExecutorInv(e)'
<1>1. ExecutorInv(e) /\ QueueInv(e) /\ StopInv(e) /\ EndInv(e) /\ CompletionInv(e) /\ DeliveryInv(e)
  BY DEF SafetyInv, ExecutorInv
<1> DEFINE ev == GuiEvent("joined", t, 0)
<1>2. guiQueue \in Seq(GuiEvents) /\ guiQueue' \in Seq(GuiEvents)
  BY DEF TypeOK
<1>3. /\ thread[t] = "ended" /\ guiQueue' = Append(guiQueue, ev)
      /\ owner' = owner /\ stopping' = stopping /\ drained' = drained
      /\ nextTaskId' = nextTaskId /\ guiCompletions' = guiCompletions /\ thread' = thread
      /\ inbox' = inbox /\ retained' = retained
      /\ active' = active /\ delivered' = delivered /\ ran' = ran
  BY DEF JoinerReturns, PostToGui, execVars, workerVars, histVars
<1>4. ev \in GuiEvents /\ ev.kind = "joined" /\ ev.who = t
  BY DEF GuiEvent, GuiEvents
<1> HIDE DEF ev
<1>5. CASE e # t
  <2>1. Kept(e, 0)
    BY <1>3, <1>4, <1>5, KeptAppend
  <2> QED
    BY <1>1, <1>2, <1>3, <2>1, Frame
<1>6. CASE e = t
  <2>1. Quiescent(e) /\ Quiescent(e)'
    BY <1>1, <1>3, <1>6 DEF StopInv, Quiescent
  <2>2. \A i \in 1..Len(guiQueue') :
          \/ i \in 1..Len(guiQueue) /\ guiQueue'[i] = guiQueue[i]
          \/ i = Len(guiQueue) + 1 /\ guiQueue'[i] = ev
    BY <1>2, <1>3, <1>4, AppendFacts
  <2>3. QueueInv(e)' /\ StopInv(e)' /\ CompletionInv(e)'
    BY <1>1, <1>3, QueueFrame, StopFrame, CompletionFrame
  <2>4. EndInv(e)'
    BY <1>1, <1>3, <1>4, <1>6, <2>1, <2>2 DEF EndInv
  <2>5. DeliveryInv(e)'
    <3>1. \A i \in 1..Len(guiQueue') : guiQueue'[i].kind = "completed" =>
            i \in 1..Len(guiQueue) /\ guiQueue'[i] = guiQueue[i]
      BY <1>4, <2>2
    <3> QED
      BY <1>1, <1>3, <3>1 DEF DeliveryInv
  <2> QED
    BY <2>3, <2>4, <2>5 DEF ExecutorInv
<1> QED
  BY <1>5, <1>6

\* The continuation of a join finds a thread that is quiescent.
LEMMA HandleJoinedInv ==
  ASSUME TypeOK, TypeOK', SafetyInv, HandleJoined, NEW e \in Executors
  PROVE  ExecutorInv(e)'
<1>1. ExecutorInv(e) /\ QueueInv(e) /\ StopInv(e) /\ EndInv(e) /\ CompletionInv(e) /\ DeliveryInv(e)
  BY DEF SafetyInv, ExecutorInv
<1> DEFINE t == Head(guiQueue).who
<1>2. /\ guiQueue # <<>> /\ Head(guiQueue).kind = "joined"
      /\ thread' = [thread EXCEPT ![t] = "deleted"]
      /\ drained' = [x \in Executors |-> drained[x] \/ (x = t /\ owner[x] = "alive")]
      /\ owner' = owner /\ stopping' = stopping
      /\ nextTaskId' = nextTaskId /\ guiCompletions' = guiCompletions
      /\ inbox' = inbox /\ retained' = retained
      /\ active' = active /\ delivered' = delivered /\ ran' = ran
      /\ NotifyIfDrained(t \in Executors /\ ownersByThread \ {t} = {},
                         execCallbacks, pendingJoins - 1, Tail(guiQueue))
  BY DEF HandleJoined, NextGuiEvent, histVars
<1>3. guiQueue \in Seq(GuiEvents) /\ guiQueue' \in Seq(GuiEvents) /\ execCallbacks \in Seq(Waiters)
  BY DEF TypeOK
<1>4. Kept(e, 1)
  <2>1. 1 \in {0, 1} /\ (1 = 0 => Tail(guiQueue) = guiQueue)
    OBVIOUS
  <2> HIDE DEF t
  <2> QED
    BY <1>2, <1>3, <2>1, KeptDrain, Zenon
<1>5. CASE e # t
  <2>1. thread'[e] = thread[e] /\ drained'[e] = drained[e]
    BY <1>2, <1>5 DEF TypeOK
  <2> QED
    BY <1>1, <1>2, <1>3, <1>4, <2>1, Frame
<1>6. CASE e = t
  <2>1. 1 \in 1..Len(guiQueue) /\ guiQueue[1].kind = "joined" /\ guiQueue[1].who = e
    BY <1>2, <1>3, <1>6, TailFacts
  <2>2. Quiescent(e) /\ Quiescent(e)' /\ thread[e] \in {"ended", "deleted"}
    BY <1>1, <1>2, <2>1 DEF EndInv, Quiescent
  <2>3. thread'[e] = "deleted"
    BY <1>2, <1>6 DEF TypeOK
  <2>4. QueueInv(e)' /\ CompletionInv(e)' /\ DeliveryInv(e)'
    BY <1>1, <1>2, <1>3, <1>4, QueueFrame, CompletionFrame, DeliveryFrame
  <2>5. StopInv(e)'
    BY <1>1, <1>2, <2>2 DEF StopInv
  <2>6. EndInv(e)'
    <3>1. \A i \in 1..Len(guiQueue) : ~(guiQueue[i].kind = "quit" /\ guiQueue[i].who = e)
      BY <1>1, <2>2 DEF EndInv
    <3>2. \A i \in 1..Len(guiQueue') : ~(guiQueue'[i].kind = "quit" /\ guiQueue'[i].who = e)
      BY <1>4, <3>1 DEF Kept
    <3> QED
      BY <2>2, <2>3, <3>2 DEF EndInv
  <2> QED
    BY <2>4, <2>5, <2>6 DEF ExecutorInv
<1> QED
  BY <1>5, <1>6

\* A release event is posted for a task of an executor that is not stopping,
\* and whose completion is gone.
LEMMA PostReleaseInv ==
  ASSUME TypeOK, TypeOK', NEW e \in Executors, QueueInv(e), StopInv(e), CompletionInv(e),
         ~stopping[e], NEW id \in Nat, id <= nextTaskId[e],
         inbox'[e] = Append(inbox[e], ReleaseEvent(id)),
         guiCompletions'[e] \subseteq guiCompletions[e],
         \A c \in guiCompletions'[e] : c.id # id,
         active' = active \/ active' = NoTask,
         owner' = owner, stopping' = stopping, drained' = drained, nextTaskId' = nextTaskId,
         retained' = retained, thread' = thread, ran' = ran
  PROVE  QueueInv(e)' /\ StopInv(e)' /\ CompletionInv(e)'
<1> DEFINE ev == ReleaseEvent(id)
<1>1. ev \in WorkerEvents /\ ev.kind = "release" /\ ev.id = id
  BY DEF ReleaseEvent, WorkerEvents
<1>2. inbox[e] \in Seq(WorkerEvents)
  BY DEF TypeOK
<1>3. inbox'[e] = Append(inbox[e], ev)
  OBVIOUS
<1> HIDE DEF ev
<1>4. /\ Len(inbox[e]) \in Nat /\ Len(inbox'[e]) = Len(inbox[e]) + 1
      /\ \A i \in 1..Len(inbox[e]) : inbox'[e][i] = inbox[e][i]
      /\ \A i \in 1..Len(inbox'[e]) :
           \/ i \in 1..Len(inbox[e]) /\ inbox'[e][i] = inbox[e][i]
           \/ i = Len(inbox[e]) + 1 /\ inbox'[e][i] = ev
  BY <1>1, <1>2, <1>3, AppendFacts
<1>5. QueueInv(e)'
  BY <1>1, <1>3, QueueAppend
<1>6. StopInv(e)'
  <2>1. \A i \in 1..Len(inbox'[e]) : inbox'[e][i].kind # "stop"
    BY <1>1, <1>4 DEF StopInv
  <2>2. thread[e] \in {"unborn", "running"} /\ ~drained[e]
    BY DEF StopInv, Quiescent
  <2> QED
    BY <2>1, <2>2 DEF StopInv
<1>7. CompletionInv(e)'
  <2>1. ASSUME NEW c \in guiCompletions'[e]
        PROVE  /\ c.id \in 1..nextTaskId'[e]
               /\ WorkerHolds(e, c.id)'
               /\ ~(active'.ex = e /\ active'.id = c.id)
               /\ \A i \in 1..Len(inbox'[e]) :
                    ~(inbox'[e][i].kind = "release" /\ inbox'[e][i].id = c.id)
    <3>1. /\ c.id \in 1..nextTaskId[e] /\ WorkerHolds(e, c.id)
          /\ ~(active.ex = e /\ active.id = c.id)
          /\ \A i \in 1..Len(inbox[e]) :
               ~(inbox[e][i].kind = "release" /\ inbox[e][i].id = c.id)
      BY DEF CompletionInv
    <3>2. WorkerHolds(e, c.id)'
      BY <1>4, <3>1 DEF WorkerHolds
    <3>3. ~(active'.ex = e /\ active'.id = c.id)
      BY <3>1 DEF NoTask, TypeOK
    <3>4. \A i \in 1..Len(inbox'[e]) :
            ~(inbox'[e][i].kind = "release" /\ inbox'[e][i].id = c.id)
      BY <1>1, <1>4, <3>1
    <3> QED
      BY <3>1, <3>2, <3>3, <3>4
  <2>2. active'.ex = e => active'.id <= nextTaskId'[e]
    BY DEF CompletionInv, NoTask, TypeOK
  <2>3. \A i \in 1..Len(inbox'[e]) :
          inbox'[e][i].kind = "release" => inbox'[e][i].id <= nextTaskId'[e]
    BY <1>1, <1>4 DEF CompletionInv
  <2> QED
    BY <2>1, <2>2, <2>3 DEF CompletionInv
<1> QED
  BY <1>5, <1>6, <1>7

\* The slot of completed(id).
LEMMA HandleCompletedInv ==
  ASSUME TypeOK, TypeOK', SafetyInv, HandleCompleted, NEW e \in Executors
  PROVE  ExecutorInv(e)'
<1>1. ExecutorInv(e) /\ QueueInv(e) /\ StopInv(e) /\ EndInv(e) /\ CompletionInv(e) /\ DeliveryInv(e)
  BY DEF SafetyInv, ExecutorInv
<1> DEFINE x == Head(guiQueue).who
           id == Head(guiQueue).id
<1>2. /\ guiQueue # <<>> /\ guiQueue' = Tail(guiQueue) /\ Head(guiQueue).kind = "completed"
      /\ guiCompletions' = [guiCompletions EXCEPT ![x] = @ \ CompletionOf(x, id)]
      /\ owner' = owner /\ stopping' = stopping /\ drained' = drained
      /\ nextTaskId' = nextTaskId /\ thread' = thread /\ retained' = retained /\ ran' = ran
  BY DEF HandleCompleted, NextGuiEvent
<1>3. \/ inbox' = inbox /\ active' = active /\ delivered' = delivered
      \/ /\ CompletionOf(x, id) # {} /\ inbox' = inbox
         /\ active' = [ex |-> x, id |-> id]
         /\ delivered' = [delivered EXCEPT ![x] = Append(@, id)]
      \/ /\ CompletionOf(x, id) # {} /\ active' = active /\ delivered' = delivered
         /\ inbox' = [inbox EXCEPT ![x] = Append(@, ReleaseEvent(id))]
  BY DEF HandleCompleted, CompletionOf, PostRelease
<1>4. guiQueue \in Seq(GuiEvents) /\ guiQueue' \in Seq(GuiEvents)
  BY DEF TypeOK
<1>5. /\ Len(guiQueue) \in Nat /\ 1 \in 1..Len(guiQueue) /\ Head(guiQueue) = guiQueue[1]
      /\ \A i \in 1..Len(guiQueue') : i + 1 \in 1..Len(guiQueue) /\ guiQueue'[i] = guiQueue[i + 1]
  BY <1>2, <1>4, TailFacts
<1>6. x \in Executors /\ id \in Nat
  <2>1. Head(guiQueue) \in GuiEvents
    BY <1>2, <1>4, TailFacts
  <2> QED
    BY <1>2, <2>1 DEF GuiEvents
<1>7. Kept(e, 1)
  BY <1>2, KeptTail
<1>8. guiQueue[1].who = x /\ guiQueue[1].id = id /\ guiQueue[1].kind = "completed"
  BY <1>2, <1>5
<1> HIDE DEF x, id
<1>9. CASE e # x
  <2>1. guiCompletions'[e] = guiCompletions[e] /\ inbox'[e] = inbox[e] /\ delivered'[e] = delivered[e]
    <3>0. /\ DOMAIN guiCompletions = Executors /\ DOMAIN inbox = Executors
          /\ DOMAIN delivered = Executors
      BY DEF TypeOK
    <3>1. guiCompletions'[e] = guiCompletions[e]
      BY <1>2, <1>9, <3>0
    <3>2. inbox'[e] = inbox[e]
      BY <1>3, <1>9, <3>0
    <3>3. delivered'[e] = delivered[e]
      BY <1>3, <1>9, <3>0
    <3> QED
      BY <3>1, <3>2, <3>3
  <2>2. active' = active \/ active'.ex # e
    BY <1>3, <1>9
  <2> QED
    BY <1>1, <1>2, <1>4, <1>7, <2>1, <2>2, Frame
<1>10. CASE e = x
  <2>1. /\ id <= Len(ran[e])
        /\ \A k \in 1..Len(delivered[e]) : delivered[e][k] < id
        /\ \A j \in 1..Len(guiQueue) :
             1 < j /\ guiQueue[j].kind = "completed" /\ guiQueue[j].who = e => id < guiQueue[j].id
    BY <1>1, <1>5, <1>8, <1>10 DEF DeliveryInv
  <2>2. id <= nextTaskId[e] /\ Len(ran[e]) \in Nat /\ nextTaskId[e] \in Nat
    <3>1. Len(ran[e]) \in Nat /\ nextTaskId[e] \in Nat
      BY DEF TypeOK
    <3>2. Len(ran[e]) <= nextTaskId[e]
      BY <1>1 DEF QueueInv
    <3> QED
      BY <1>6, <2>1, <3>1, <3>2
  <2>3. /\ guiCompletions'[e] \subseteq guiCompletions[e]
        /\ \A c \in guiCompletions'[e] : c.id # id
    BY <1>2, <1>10 DEF CompletionOf, TypeOK
  <2>4. CompletionOf(x, id) # {} => ~stopping[e]
    BY <1>1, <1>10 DEF CompletionInv, CompletionOf
  <2>5. CASE inbox' = inbox /\ active' = active /\ delivered' = delivered
    <3>1. QueueInv(e)' /\ StopInv(e)'
      BY <1>1, <1>2, <2>5, QueueFrame, StopFrame
    <3>2. Quiescent(e) => Quiescent(e)'
      BY <1>2, <2>5 DEF Quiescent
    <3>3. EndInv(e)' /\ DeliveryInv(e)'
      BY <1>1, <1>2, <1>4, <1>7, <2>5, <3>2, EndFrame, DeliveryFrame
    <3>4. CompletionInv(e)'
      BY <1>1, <1>2, <2>3, <2>5 DEF CompletionInv, WorkerHolds
    <3> QED
      BY <3>1, <3>3, <3>4 DEF ExecutorInv
  <2>6. CASE /\ CompletionOf(x, id) # {} /\ inbox' = inbox
             /\ active' = [ex |-> x, id |-> id]
             /\ delivered' = [delivered EXCEPT ![x] = Append(@, id)]
    <3>1. QueueInv(e)' /\ StopInv(e)'
      BY <1>1, <1>2, <2>6, QueueFrame, StopFrame
    <3>2. EndInv(e)'
      <4>1. ~Quiescent(e)
        BY <2>4, <2>6 DEF Quiescent
      <4> QED
        BY <1>1, <1>2, <1>4, <1>7, <4>1, EndFrame
    <3>3. CompletionInv(e)'
      <4>1. active'.ex = e /\ active'.id = id
        BY <1>10, <2>6
      <4>2. guiCompletions'[e] # {} => ~stopping'[e]
        BY <1>2, <2>4, <2>6
      <4>3. \A c \in guiCompletions'[e] :
              /\ c.id \in 1..nextTaskId'[e]
              /\ WorkerHolds(e, c.id)'
              /\ \A i \in 1..Len(inbox'[e]) :
                   ~(inbox'[e][i].kind = "release" /\ inbox'[e][i].id = c.id)
        BY <1>1, <1>2, <2>3, <2>6 DEF CompletionInv, WorkerHolds
      <4>4. \A i \in 1..Len(inbox'[e]) :
              inbox'[e][i].kind = "release" => inbox'[e][i].id <= nextTaskId'[e]
        BY <1>1, <1>2, <2>6 DEF CompletionInv
      <4>5. active'.id <= nextTaskId'[e]
        BY <1>2, <2>2, <4>1
      <4> QED
        BY <2>3, <4>1, <4>2, <4>3, <4>4, <4>5 DEF CompletionInv
    <3>4. DeliveryInv(e)'
      <4>1. delivered[e] \in Seq(Nat) /\ delivered'[e] = Append(delivered[e], id)
        BY <1>6, <1>10, <2>6 DEF TypeOK
      <4>2. /\ Len(delivered[e]) \in Nat /\ Len(delivered'[e]) = Len(delivered[e]) + 1
            /\ delivered'[e][Len(delivered[e]) + 1] = id
            /\ \A i \in 1..Len(delivered[e]) : delivered'[e][i] = delivered[e][i]
        BY <1>6, <4>1, AppendFacts
      <4>3. \A i \in 1..Len(delivered'[e]) :
              \/ i \in 1..Len(delivered[e]) /\ delivered'[e][i] = delivered[e][i]
              \/ i = Len(delivered[e]) + 1 /\ delivered'[e][i] = id
        BY <4>2
      <4>4. /\ \A i, j \in 1..Len(delivered[e]) : i < j => delivered[e][i] < delivered[e][j]
            /\ \A i \in 1..Len(delivered[e]) : delivered[e][i] <= Len(ran[e])
        BY <1>1 DEF DeliveryInv
      <4>5. \A i \in 1..Len(delivered'[e]) : delivered'[e][i] <= Len(ran'[e])
        BY <1>2, <2>1, <4>3, <4>4
      <4>6. \A i, j \in 1..Len(delivered'[e]) : i < j => delivered'[e][i] < delivered'[e][j]
        BY <2>1, <4>2, <4>3, <4>4
      <4>7. ASSUME NEW i \in 1..Len(guiQueue'), guiQueue'[i].kind = "completed",
                   guiQueue'[i].who = e
            PROVE  /\ guiQueue'[i].id <= Len(ran'[e])
                   /\ \A k \in 1..Len(delivered'[e]) : delivered'[e][k] < guiQueue'[i].id
                   /\ \A j \in 1..Len(guiQueue') :
                        i < j /\ guiQueue'[j].kind = "completed" /\ guiQueue'[j].who = e =>
                          guiQueue'[i].id < guiQueue'[j].id
        <5>1. /\ i + 1 \in 1..Len(guiQueue) /\ guiQueue'[i] = guiQueue[i + 1] /\ 1 < i + 1
          BY <1>5
        <5>2. /\ guiQueue[i + 1].id <= Len(ran[e])
              /\ \A k \in 1..Len(delivered[e]) : delivered[e][k] < guiQueue[i + 1].id
              /\ \A j \in 1..Len(guiQueue) :
                   i + 1 < j /\ guiQueue[j].kind = "completed" /\ guiQueue[j].who = e =>
                     guiQueue[i + 1].id < guiQueue[j].id
          BY <1>1, <4>7, <5>1 DEF DeliveryInv
        <5>3. id < guiQueue[i + 1].id
          BY <2>1, <4>7, <5>1
        <5>4. \A k \in 1..Len(delivered'[e]) : delivered'[e][k] < guiQueue'[i].id
          BY <4>3, <5>1, <5>2, <5>3
        <5>5. ASSUME NEW j \in 1..Len(guiQueue'), i < j, guiQueue'[j].kind = "completed",
                     guiQueue'[j].who = e
              PROVE  guiQueue'[i].id < guiQueue'[j].id
          <6>1. j + 1 \in 1..Len(guiQueue) /\ guiQueue'[j] = guiQueue[j + 1]
            BY <1>5
          <6>2. i + 1 < j + 1
            BY <5>5
          <6> QED
            BY <5>1, <5>2, <5>5, <6>1, <6>2
        <5> QED
          BY <1>2, <5>1, <5>2, <5>4, <5>5
      <4> QED
        BY <4>5, <4>6, <4>7 DEF DeliveryInv
    <3> QED
      BY <3>1, <3>2, <3>3, <3>4 DEF ExecutorInv
  <2>7. CASE /\ CompletionOf(x, id) # {} /\ active' = active /\ delivered' = delivered
             /\ inbox' = [inbox EXCEPT ![x] = Append(@, ReleaseEvent(id))]
    <3>1. inbox'[e] = Append(inbox[e], ReleaseEvent(id))
      BY <1>10, <2>7 DEF TypeOK
    <3>2. QueueInv(e)' /\ StopInv(e)' /\ CompletionInv(e)'
      BY <1>1, <1>2, <1>6, <2>2, <2>3, <2>4, <2>7, <3>1, PostReleaseInv
    <3>3. ~Quiescent(e)
      BY <2>4, <2>7 DEF Quiescent
    <3>4. EndInv(e)' /\ DeliveryInv(e)'
      BY <1>1, <1>2, <1>4, <1>7, <2>7, <3>3, EndFrame, DeliveryFrame
    <3> QED
      BY <3>2, <3>4 DEF ExecutorInv
  <2> QED
    BY <1>3, <2>5, <2>6, <2>7
<1> QED
  BY <1>9, <1>10

LEMMA CompletionReturnsInv ==
  ASSUME TypeOK, TypeOK', SafetyInv, CompletionReturns, NEW e \in Executors
  PROVE  ExecutorInv(e)'
<1>1. ExecutorInv(e) /\ QueueInv(e) /\ StopInv(e) /\ EndInv(e) /\ CompletionInv(e) /\ DeliveryInv(e)
  BY DEF SafetyInv, ExecutorInv
<1>2. Kept(e, 0) /\ guiQueue' \in Seq(GuiEvents)
  BY KeptUnchanged DEF CompletionReturns, TypeOK
<1>3. /\ active # NoTask /\ active' = NoTask
      /\ \/ inbox' = inbox
         \/ ~stopping[active.ex] /\ inbox' = PostRelease(active.ex, active.id)
      /\ owner' = owner /\ stopping' = stopping /\ drained' = drained
      /\ nextTaskId' = nextTaskId /\ guiCompletions' = guiCompletions /\ thread' = thread
      /\ retained' = retained /\ guiQueue' = guiQueue /\ delivered' = delivered /\ ran' = ran
  BY DEF CompletionReturns, execVars, histVars
<1>4. active.ex \in Executors /\ active.id \in Nat
  BY <1>3 DEF TypeOK
<1>5. CASE inbox'[e] = inbox[e]
  BY <1>1, <1>2, <1>3, <1>5, Frame
<1>6. CASE inbox'[e] # inbox[e]
  <2>1. /\ e = active.ex /\ ~stopping[e]
        /\ inbox'[e] = Append(inbox[e], ReleaseEvent(active.id))
    <3>0. DOMAIN inbox = Executors
      BY DEF TypeOK
    <3>1. /\ ~stopping[active.ex]
          /\ inbox' = [inbox EXCEPT ![active.ex] = Append(@, ReleaseEvent(active.id))]
      BY <1>3, <1>6 DEF PostRelease
    <3>2. e = active.ex
      BY <1>6, <3>0, <3>1
    <3> QED
      BY <3>0, <3>1, <3>2
  <2>2. active.id <= nextTaskId[e] /\ \A c \in guiCompletions[e] : c.id # active.id
    BY <1>1, <2>1 DEF CompletionInv
  <2>3. QueueInv(e)' /\ StopInv(e)' /\ CompletionInv(e)'
    BY <1>1, <1>3, <1>4, <2>1, <2>2, PostReleaseInv
  <2>4. ~Quiescent(e)
    BY <2>1 DEF Quiescent
  <2>5. EndInv(e)' /\ DeliveryInv(e)'
    BY <1>1, <1>2, <1>3, <2>4, EndFrame, DeliveryFrame
  <2> QED
    BY <2>3, <2>5 DEF ExecutorInv
<1> QED
  BY <1>5, <1>6

----------------------------------------------------------------------------
(* The invariant is inductive. *)

LEMMA SafetyInit == Init => SafetyInv
<1> SUFFICES ASSUME Init, NEW e \in Executors PROVE ExecutorInv(e)
  BY DEF SafetyInv
<1>0. ran[e] = <<>> /\ inbox[e] = <<>> /\ nextTaskId[e] = 0
  BY DEF Init
<1>1. QueueInv(e)
  <2>1. Len(ran[e]) = 0 /\ Len(inbox[e]) = 0 /\ 1..0 = {} /\ 0 + 1..0 = {}
    BY <1>0
  <2> QED
    BY <1>0, <2>1 DEF QueueInv
<1> USE DEF Init
<1>2. StopInv(e)
  BY DEF StopInv, Threads
<1>3. EndInv(e)
  BY DEF EndInv
<1>4. CompletionInv(e)
  BY DEF CompletionInv, NoTask
<1>5. DeliveryInv(e)
  BY DEF DeliveryInv
<1> QED
  BY <1>1, <1>2, <1>3, <1>4, <1>5 DEF ExecutorInv

\* Steps that leave the executors and their queues alone.
LEMMA OutsideStepInv ==
  ASSUME TypeOK, TypeOK', SafetyInv, NEW e \in Executors,
         NEW d \in {0, 1}, Kept(e, d), active' = active,
         UNCHANGED <<execVars, inbox, retained, ran, delivered>>, thread'[e] = thread[e]
  PROVE  ExecutorInv(e)'
<1>1. ExecutorInv(e) /\ guiQueue' \in Seq(GuiEvents)
  BY DEF SafetyInv, TypeOK
<1> QED
  BY <1>1, Frame DEF execVars

LEMMA SafetyNext == TypeOK /\ TypeOK' /\ SafetyInv /\ [Next]_vars => SafetyInv'
<1> SUFFICES ASSUME TypeOK, TypeOK', SafetyInv, [Next]_vars, NEW e \in Executors
             PROVE  ExecutorInv(e)'
  BY DEF SafetyInv
<1>0. ExecutorInv(e) /\ guiQueue \in Seq(GuiEvents)
  BY DEF SafetyInv, TypeOK
<1>1. ASSUME NEW x \in Executors, Construct(x) PROVE ExecutorInv(e)'
  BY <1>1, ConstructInv
<1>2. ASSUME NEW x \in Executors, Shutdown(x) PROVE ExecutorInv(e)'
  <2>1. StopExecutors({x}) /\ (e \in {x} => owner[e] # "unborn") /\ guiQueue' = guiQueue
    BY <1>2 DEF Shutdown
  <2>2. Kept(e, 0)
    BY <2>1, KeptUnchanged
  <2> QED
    BY <1>0, <1>2, <2>1, <2>2, StopExecutorsInv DEF Shutdown, histVars
<1>3. ASSUME NEW x \in Executors, Destroy(x) PROVE ExecutorInv(e)'
  <2>1. StopExecutors({x}) /\ (e \in {x} => owner[e] # "unborn") /\ guiQueue' = guiQueue
    BY <1>3 DEF Destroy
  <2>2. Kept(e, 0)
    BY <2>1, KeptUnchanged
  <2>3. owner'[e] = owner[e] \/ owner'[e] = "dead"
    BY <1>3 DEF Destroy, TypeOK
  <2> QED
    BY <1>0, <1>3, <2>1, <2>2, <2>3, StopExecutorsInv DEF Destroy, histVars
<1>4. ASSUME NEW x \in Executors, NEW r \in Receivers, Submit(x, r) PROVE ExecutorInv(e)'
  BY <1>4, SubmitInv
<1>5. ASSUME NEW r \in Receivers \cup Waiters, DestroyReceiver(r) PROVE ExecutorInv(e)'
  <2>1. Kept(e, 0)
    BY <1>5, KeptUnchanged DEF DestroyReceiver
  <2> QED
    BY <1>5, <2>1, OutsideStepInv DEF DestroyReceiver, workerVars, histVars
<1>6. ASSUME NEW w \in Waiters, ShutdownAll(w) PROVE ExecutorInv(e)'
  <2> DEFINE es == {x \in ownersByThread : owner[x] = "alive"}
  <2>1. StopExecutors(es) /\ (e \in es => owner[e] # "unborn")
    BY <1>6 DEF ShutdownAll
  <2>2. Append(execCallbacks, w) \in Seq(Waiters)
    BY DEF TypeOK
  <2> HIDE DEF es
  <2>3. Kept(e, 0)
    <3>1. NotifyIfDrained(ownersByThread = {}, Append(execCallbacks, w), pendingJoins, guiQueue)
      BY <1>6 DEF ShutdownAll
    <3>2. 0 \in {0, 1} /\ (0 = 1 => guiQueue # <<>> /\ guiQueue = Tail(guiQueue))
      OBVIOUS
    <3> QED
      BY <2>2, <3>1, <3>2, KeptDrain, Zenon
  <2> QED
    BY <1>0, <1>6, <2>1, <2>3, StopExecutorsInv DEF ShutdownAll
<1>7. ASSUME NEW t \in OtherThreads, JoinOther(t) PROVE ExecutorInv(e)'
  <2>1. Kept(e, 0)
    BY <1>7, KeptUnchanged DEF JoinOther
  <2>2. thread'[e] = thread[e]
    BY <1>7, ThreadsAssumption DEF JoinOther, TypeOK
  <2> QED
    BY <1>7, <2>1, <2>2, OutsideStepInv DEF JoinOther, histVars
<1>8. ASSUME HandleCompleted PROVE ExecutorInv(e)'
  BY <1>8, HandleCompletedInv
<1>9. ASSUME CompletionReturns PROVE ExecutorInv(e)'
  BY <1>9, CompletionReturnsInv
<1>10. ASSUME HandleQuit PROVE ExecutorInv(e)'
  BY <1>10, HandleQuitInv
<1>11. ASSUME HandleFinished PROVE ExecutorInv(e)'
  <2>1. Kept(e, 1)
    BY <1>11, KeptTail DEF HandleFinished, NextGuiEvent
  <2> QED
    BY <1>11, <2>1, OutsideStepInv DEF HandleFinished, workerVars, histVars
<1>12. ASSUME HandleJoined PROVE ExecutorInv(e)'
  BY <1>12, HandleJoinedInv
<1>13. ASSUME HandleDrained PROVE ExecutorInv(e)'
  <2>1. Kept(e, 1)
    BY <1>13, KeptTail DEF HandleDrained, NextGuiEvent
  <2> QED
    BY <1>13, <2>1, OutsideStepInv DEF HandleDrained, workerVars, histVars
<1>14. ASSUME NEW x \in Executors, RunTask(x) PROVE ExecutorInv(e)'
  BY <1>14, RunTaskInv
<1>15. ASSUME NEW x \in Executors, ReleaseTask(x) PROVE ExecutorInv(e)'
  BY <1>15, ReleaseTaskInv
<1>16. ASSUME NEW x \in Executors, StopWorker(x) PROVE ExecutorInv(e)'
  BY <1>16, StopWorkerInv
<1>17. ASSUME NEW t \in Threads, ThreadFinished(t) PROVE ExecutorInv(e)'
  BY <1>17, ThreadFinishedInv
<1>18. ASSUME NEW t \in Threads, ThreadEnded(t) PROVE ExecutorInv(e)'
  BY <1>18, ThreadEndedInv
<1>19. ASSUME NEW t \in Threads, JoinerReturns(t) PROVE ExecutorInv(e)'
  BY <1>19, JoinerReturnsInv
<1>20. CASE UNCHANGED vars
  <2>1. Kept(e, 0)
    BY <1>20, KeptUnchanged DEF vars
  <2> QED
    BY <1>20, <2>1, OutsideStepInv DEF vars, workerVars, histVars
<1> QED
  BY <1>1, <1>2, <1>3, <1>4, <1>5, <1>6, <1>7, <1>8, <1>9, <1>10, <1>11, <1>12, <1>13,
     <1>14, <1>15, <1>16, <1>17, <1>18, <1>19, <1>20
  DEF Next, GuiCall, GuiStep, WorkerStep, ThreadStep

\* SafetyInv holds in every reachable state.
THEOREM SafetyInvariant == Spec => []SafetyInv
<1>1. Init => SafetyInv
  BY SafetyInit
<1>2. TypeOK /\ TypeOK' /\ SafetyInv /\ [Next]_vars => SafetyInv'
  BY SafetyNext
<1> QED
  BY <1>1, <1>2, TypeCorrect, PTL DEF Spec

----------------------------------------------------------------------------
(* What follows for the users of an executor. *)

\* Tasks run in submission order, none twice and none left out, however many
\* executors there are and whatever else happens.
THEOREM RunsInOrder == Spec => []RunsInSubmissionOrder
<1>1. SafetyInv => RunsInSubmissionOrder
  BY DEF SafetyInv, ExecutorInv, QueueInv, RunsInSubmissionOrder
<1> QED
  BY <1>1, SafetyInvariant, PTL

\* shutdown() loses no accepted task: an executor whose thread is gone, or
\* that reports drained, has run them all and keeps none.
THEOREM DrainLosesNothing == Spec => []DrainedExecutorRanEverything
<1>1. TypeOK /\ SafetyInv => DrainedExecutorRanEverything
  <2> SUFFICES ASSUME TypeOK, SafetyInv, NEW e \in Executors, drained[e] \/ thread[e] = "deleted"
               PROVE  Len(ran[e]) = nextTaskId[e] /\ inbox[e] = <<>> /\ retained[e] = {}
    BY DEF DrainedExecutorRanEverything
  <2>1. QueueInv(e) /\ StopInv(e)
    BY DEF SafetyInv, ExecutorInv
  <2>2. inbox[e] = <<>> /\ retained[e] = {}
    BY <2>1 DEF StopInv, Quiescent
  <2>3. Len(ran[e]) \in Nat /\ nextTaskId[e] \in Nat /\ Len(inbox[e]) = 0
    BY <2>2 DEF TypeOK
  <2>4. ~(Len(ran[e]) + 1 \in Len(ran[e])+1..nextTaskId[e])
    BY <2>1, <2>3 DEF QueueInv
  <2>5. Len(ran[e]) <= nextTaskId[e]
    BY <2>1 DEF QueueInv
  <2> QED
    BY <2>2, <2>3, <2>4, <2>5
<1> QED
  BY <1>1, TypeCorrect, SafetyInvariant, PTL

\* Callbacks come in submission order, at most once, after their task.
THEOREM DeliversInOrder == Spec => []DeliveredInOrder
<1>1. SafetyInv => DeliveredInOrder
  BY DEF SafetyInv, ExecutorInv, DeliveryInv, DeliveredInOrder
<1> QED
  BY <1>1, SafetyInvariant, PTL

\* A result the GUI thread has not delivered is never destroyed by it: the
\* worker always holds the task as well.
THEOREM WorkerKeepsUndelivered == Spec => []UndeliveredResultHeldByWorker
<1>1. SafetyInv => UndeliveredResultHeldByWorker
  BY DEF SafetyInv, ExecutorInv, CompletionInv, UndeliveredResultHeldByWorker
<1> QED
  BY <1>1, SafetyInvariant, PTL

\* No callback is delivered once shutdown() was called or the executor was
\* destroyed, although the completion event may still be queued: the slot
\* looks the completion up again, and shutdown() has dropped them all.
THEOREM NothingAfterShutdown == Spec => NoDeliveryAfterShutdown
<1>1. TypeOK /\ SafetyInv /\ [Next]_vars =>
        [\A e \in Executors :
           delivered'[e] # delivered[e] => owner[e] = "alive" /\ ~stopping[e]]_vars
  <2> SUFFICES ASSUME TypeOK, SafetyInv, [Next]_vars, NEW e \in Executors,
                      delivered'[e] # delivered[e]
               PROVE  owner[e] = "alive" /\ ~stopping[e]
    OBVIOUS
  <2>1. HandleCompleted
    BY DEF Next, GuiCall, GuiStep, WorkerStep, ThreadStep, Construct, Shutdown, Destroy, Submit,
           DestroyReceiver, ShutdownAll, JoinOther, CompletionReturns, HandleQuit,
           HandleFinished, HandleJoined, HandleDrained, RunTask, ReleaseTask, StopWorker,
           ThreadFinished, ThreadEnded, JoinerReturns, vars, histVars
  <2> DEFINE x == Head(guiQueue).who
  <2>2. owner[x] = "alive" /\ \E c \in CompletionOf(x, Head(guiQueue).id) :
          delivered' = [delivered EXCEPT ![x] = Append(@, c.id)]
    BY <2>1 DEF HandleCompleted
  <2>3. x = e
    BY <2>2 DEF TypeOK
  <2>4. guiCompletions[e] # {}
    BY <2>2, <2>3 DEF CompletionOf
  <2> QED
    BY <2>2, <2>3, <2>4 DEF SafetyInv, ExecutorInv, CompletionInv
<1> QED
  BY <1>1, TypeCorrect, SafetyInvariant, PTL DEF Spec, NoDeliveryAfterShutdown

----------------------------------------------------------------------------
(* Refinement: every step is a step of the abstract executors or leaves    *)
(* them alone.                                                             *)


\* Steps that accept, run and deliver nothing and move no executor to another
\* phase do not show in the abstract executors.
LEMMA SerialStutter ==
  ASSUME nextTaskId' = nextTaskId, ran' = ran, delivered' = delivered,
         \A e \in Executors : ExecutorPhase(e)' = ExecutorPhase(e)
  PROVE  UNCHANGED Serial!vars
  BY DEF Serial!vars

\* The phase of an executor depends on its owner being born, on m_stopping and
\* on the deletion of the thread only.
LEMMA PhaseUnchanged ==
  ASSUME NEW e \in Executors,
         owner'[e] = "unborn" <=> owner[e] = "unborn",
         stopping'[e] = stopping[e],
         thread'[e] = "deleted" <=> thread[e] = "deleted"
  PROVE  ExecutorPhase(e)' = ExecutorPhase(e)
  BY DEF ExecutorPhase

\* An executor that is in use and was not stopped is open: a deleted thread
\* was stopped first.
LEMMA PhaseOpen ==
  ASSUME SafetyInv, NEW e \in Executors, owner[e] # "unborn", ~stopping[e]
  PROVE  ExecutorPhase(e) = "open"
<1>1. thread[e] # "deleted"
  BY DEF SafetyInv, ExecutorInv, StopInv, Quiescent
<1> QED
  BY <1>1 DEF ExecutorPhase

\* Every task of a quiescent executor has run.
LEMMA QuiescentRanAll ==
  ASSUME TypeOK, SafetyInv, NEW e \in Executors, Quiescent(e)
  PROVE  Len(ran[e]) = nextTaskId[e] /\ owner[e] # "unborn"
<1>1. QueueInv(e) /\ StopInv(e) /\ inbox[e] = <<>> /\ stopping[e]
  BY DEF SafetyInv, ExecutorInv, Quiescent
<1>2. Len(ran[e]) \in Nat /\ nextTaskId[e] \in Nat /\ Len(inbox[e]) = 0
  BY <1>1 DEF TypeOK
<1>3. ~(Len(ran[e]) + 1 \in Len(ran[e])+1..nextTaskId[e])
  BY <1>1, <1>2 DEF QueueInv
<1>4. Len(ran[e]) <= nextTaskId[e]
  BY <1>1 DEF QueueInv
<1> QED
  BY <1>1, <1>2, <1>3, <1>4 DEF StopInv

LEMMA InitRefines == Init => Serial!Init
<1> SUFFICES ASSUME Init PROVE Serial!Init
  OBVIOUS
<1>1. \A e \in Executors : ExecutorPhase(e) = "unborn"
  BY DEF Init, ExecutorPhase
<1>2. \A e \in Executors : Len(ran[e]) = 0 /\ delivered[e] = <<>>
  BY DEF Init
<1> QED
  BY <1>1, <1>2 DEF Init, Serial!Init

LEMMA ConstructRefines ==
  ASSUME TypeOK, SafetyInv, NEW x \in Executors, Construct(x)
  PROVE  Serial!Open(x)
<1>1. ExecutorPhase(x) = "unborn"
  BY DEF Construct, ExecutorPhase
<1>2. ExecutorPhase(x)' = "open"
  BY DEF Construct, ExecutorPhase, TypeOK, SafetyInv, ExecutorInv, StopInv, Threads
<1>3. \A e \in Executors \ {x} : ExecutorPhase(e)' = ExecutorPhase(e)
  BY DEF Construct, ExecutorPhase, TypeOK
<1>4. nextTaskId' = nextTaskId /\ ran' = ran /\ delivered' = delivered
  BY DEF Construct, histVars
<1> QED
  BY <1>1, <1>2, <1>3, <1>4 DEF Serial!Open

LEMMA SubmitRefines ==
  ASSUME TypeOK, SafetyInv, NEW x \in Executors, NEW r \in Receivers, Submit(x, r)
  PROVE  Serial!Accept(x)
<1>1. ExecutorPhase(x) = "open"
  BY PhaseOpen DEF Submit
<1>2. \A e \in Executors : ExecutorPhase(e)' = ExecutorPhase(e)
  BY PhaseUnchanged DEF Submit
<1>3. /\ nextTaskId' = [nextTaskId EXCEPT ![x] = @ + 1]
      /\ ran' = ran /\ delivered' = delivered
  BY DEF Submit, histVars
<1> QED
  BY <1>1, <1>2, <1>3 DEF Serial!Accept

\* shutdown(), the destructor and shutdownAll.
LEMMA StopRefines ==
  ASSUME TypeOK, SafetyInv, NEW es \in SUBSET Executors, StopExecutors(es),
         \A e \in es : owner[e] # "unborn",
         \A e \in Executors : owner'[e] = "unborn" <=> owner[e] = "unborn",
         thread' = thread, nextTaskId' = nextTaskId, ran' = ran, delivered' = delivered
  PROVE  \E fs \in SUBSET Executors : Serial!Stop(fs)
<1> DEFINE fs == {e \in es : ~stopping[e]}
<1>1. \A e \in fs : ExecutorPhase(e) = "open" /\ thread[e] # "deleted"
  BY PhaseOpen DEF SafetyInv, ExecutorInv, StopInv, Quiescent
<1>2. \A e \in fs : ExecutorPhase(e)' = "stopping"
  BY <1>1 DEF StopExecutors, ExecutorPhase
<1>3. \A e \in Executors \ fs : ExecutorPhase(e)' = ExecutorPhase(e)
  <2> TAKE e \in Executors \ fs
  <2>1. stopping'[e] = stopping[e]
    BY DEF StopExecutors, TypeOK
  <2> QED
    BY <2>1, PhaseUnchanged
<1>4. fs \in SUBSET Executors
  OBVIOUS
<1> HIDE DEF fs
<1>5. Serial!Stop(fs)
  BY <1>1, <1>2, <1>3, <1>4 DEF Serial!Stop
<1> QED
  BY <1>4, <1>5

LEMMA RunTaskRefines ==
  ASSUME TypeOK, SafetyInv, NEW x \in Executors, RunTask(x)
  PROVE  Serial!Run(x)
<1>1. QueueInv(x) /\ StopInv(x)
  BY DEF SafetyInv, ExecutorInv
<1>2. /\ inbox[x] \in Seq(WorkerEvents) /\ inbox[x] # <<>>
      /\ Head(inbox[x]).kind = "run" /\ thread[x] = "running"
      /\ ran' = [ran EXCEPT ![x] = Append(@, Head(inbox[x]).id)]
      /\ ran[x] \in Seq(Nat) /\ ran \in [Executors -> Seq(Nat)]
      /\ nextTaskId[x] \in Nat
  BY DEF RunTask, TypeOK
<1>3. Head(inbox[x]) = inbox[x][1] /\ 1 \in 1..Len(inbox[x]) /\ Head(inbox[x]).id \in Nat
  BY <1>2, TailFacts, WorkerEventId
<1>4. Head(inbox[x]).id \in Len(ran[x])+1..nextTaskId[x]
  BY <1>1, <1>2, <1>3 DEF QueueInv
<1>5. Len(ran[x]) \in Nat /\ Len(ran[x]) < nextTaskId[x]
  BY <1>2, <1>4
<1>6. ExecutorPhase(x) \in {"open", "stopping"}
  BY <1>1, <1>2, <1>5 DEF ExecutorPhase, StopInv
<1>7. \A e \in Executors : ExecutorPhase(e)' = ExecutorPhase(e)
  BY PhaseUnchanged DEF RunTask, execVars
<1>8. Len(ran'[x]) = Len(ran[x]) + 1 /\ \A e \in Executors \ {x} : ran'[e] = ran[e]
  BY <1>2, <1>3
<1>9. nextTaskId' = nextTaskId /\ delivered' = delivered
  BY DEF RunTask, execVars
<1> QED
  BY <1>5, <1>6, <1>7, <1>8, <1>9 DEF Serial!Run

\* Delivering a callback is a notification; everything else the slot of
\* completed(id) does is hidden.
LEMMA HandleCompletedRefines ==
  ASSUME TypeOK, SafetyInv, HandleCompleted
  PROVE  \/ UNCHANGED Serial!vars
         \/ \E e \in Executors : \E id \in 1..Len(ran[e]) : Serial!Notify(e, id)
<1>1. /\ nextTaskId' = nextTaskId /\ ran' = ran
      /\ \A e \in Executors : ExecutorPhase(e)' = ExecutorPhase(e)
  BY PhaseUnchanged DEF HandleCompleted
<1>2. CASE delivered' = delivered
  BY <1>1, <1>2, SerialStutter
<1>3. CASE delivered' # delivered
  <2>0. PICK x, id : x = Head(guiQueue).who /\ id = Head(guiQueue).id
    OBVIOUS
  <2>1. /\ owner[x] = "alive"
        /\ \E c \in CompletionOf(x, id) : delivered' = [delivered EXCEPT ![x] = Append(@, c.id)]
        /\ guiQueue # <<>> /\ Head(guiQueue).kind = "completed"
    BY <1>3, <2>0 DEF HandleCompleted, NextGuiEvent
  <2>2. /\ guiQueue \in Seq(GuiEvents) /\ guiQueue[1] = Head(guiQueue)
        /\ 1 \in 1..Len(guiQueue) /\ Head(guiQueue) \in GuiEvents /\ id \in Nat
    <3>1. guiQueue \in Seq(GuiEvents)
      BY DEF TypeOK
    <3>2. guiQueue[1] = Head(guiQueue) /\ 1 \in 1..Len(guiQueue)
      BY <2>1, <3>1, TailFacts
    <3> QED
      BY <2>0, <3>1, <3>2, GuiEventId
  <2>3. x \in Executors
    BY <2>0, <2>1, <2>2 DEF GuiEvents
  <2>4. CompletionInv(x) /\ DeliveryInv(x)
    BY <2>3 DEF SafetyInv, ExecutorInv
  <2>5. /\ ~stopping[x] /\ id \in 1..nextTaskId[x]
        /\ delivered' = [delivered EXCEPT ![x] = Append(@, id)]
    BY <2>1, <2>4 DEF CompletionOf, CompletionInv
  <2>6. ExecutorPhase(x) = "open"
    BY <2>1, <2>3, <2>5, PhaseOpen
  <2>7. id <= Len(ran[x]) /\ \A k \in 1..Len(delivered[x]) : delivered[x][k] < id
    BY <2>0, <2>1, <2>2, <2>4 DEF DeliveryInv
  <2>8. delivered \in [Executors -> Seq(Nat)] /\ delivered[x] \in Seq(Nat) /\ ran[x] \in Seq(Nat)
        /\ nextTaskId[x] \in Nat
    BY <2>3 DEF TypeOK
  <2>9. id \in 1..Len(ran[x])
    BY <2>2, <2>5, <2>7, <2>8
  <2>10. (IF delivered[x] = <<>> THEN 0 ELSE delivered[x][Len(delivered[x])]) < id
    <3>1. CASE delivered[x] = <<>>
      BY <2>9, <3>1
    <3>2. CASE delivered[x] # <<>>
      <4>1. Len(delivered[x]) \in 1..Len(delivered[x])
        BY <2>8, <3>2
      <4> QED
        BY <2>7, <3>2, <4>1
    <3> QED
      BY <3>1, <3>2
  <2>11. /\ delivered'[x] # <<>> /\ delivered'[x][Len(delivered'[x])] = id
         /\ \A e \in Executors \ {x} : delivered'[e] = delivered[e]
    <3>1. delivered'[x] = Append(delivered[x], id)
      BY <2>3, <2>5, <2>8
    <3>2. id \in Nat
      BY <2>9
    <3>3. /\ Append(delivered[x], id) \in Seq(Nat)
          /\ Len(Append(delivered[x], id)) = Len(delivered[x]) + 1
          /\ Append(delivered[x], id)[Len(delivered[x]) + 1] = id
      BY <2>8, <3>2, AppendFacts
    <3>4. Append(delivered[x], id) # <<>>
      BY <2>8, <3>3
    <3> QED
      BY <2>5, <2>8, <3>1, <3>3, <3>4
  <2>12. [e \in Executors |->
            IF delivered'[e] = <<>> THEN 0 ELSE delivered'[e][Len(delivered'[e])]]
         = [[e \in Executors |->
               IF delivered[e] = <<>> THEN 0 ELSE delivered[e][Len(delivered[e])]]
            EXCEPT ![x] = id]
    BY <2>3, <2>11
  <2>13. Serial!Notify(x, id)
    BY <1>1, <2>3, <2>6, <2>9, <2>10, <2>12 DEF Serial!Notify
  <2> QED
    BY <2>3, <2>9, <2>13
<1> QED
  BY <1>2, <1>3

LEMMA HandleJoinedRefines ==
  ASSUME TypeOK, SafetyInv, HandleJoined
  PROVE  UNCHANGED Serial!vars \/ \E e \in Executors : Serial!Drain(e)
<1> DEFINE t == Head(guiQueue).who
<1>1. /\ guiQueue # <<>> /\ Head(guiQueue).kind = "joined"
      /\ thread' = [thread EXCEPT ![t] = "deleted"]
      /\ owner' = owner /\ stopping' = stopping /\ nextTaskId' = nextTaskId
      /\ delivered' = delivered /\ ran' = ran
  BY DEF HandleJoined, NextGuiEvent, histVars
<1>2. guiQueue[1] = Head(guiQueue) /\ 1 \in 1..Len(guiQueue)
  BY <1>1, TailFacts DEF TypeOK
<1>3. \A e \in Executors \ {t} : ExecutorPhase(e)' = ExecutorPhase(e)
  BY <1>1, PhaseUnchanged DEF TypeOK
<1>4. CASE t \notin Executors \/ thread[t] = "deleted"
  <2>1. \A e \in Executors : ExecutorPhase(e)' = ExecutorPhase(e)
    BY <1>1, <1>3, <1>4, PhaseUnchanged DEF TypeOK
  <2> QED
    BY <1>1, <2>1, SerialStutter
<1>5. CASE t \in Executors /\ thread[t] # "deleted"
  <2>0. PICK x \in Executors : x = t
    BY <1>5
  <2> HIDE DEF t
  <2>1. Quiescent(x)
    BY <1>1, <1>2, <2>0 DEF SafetyInv, ExecutorInv, EndInv, t
  <2>2. Len(ran[x]) = nextTaskId[x] /\ owner[x] # "unborn" /\ stopping[x]
    BY <2>1, QuiescentRanAll DEF Quiescent
  <2>3. ExecutorPhase(x) = "stopping"
    BY <1>5, <2>0, <2>2 DEF ExecutorPhase
  <2>4. thread'[x] = "deleted"
    BY <1>1, <2>0 DEF TypeOK, Threads
  <2>5. ExecutorPhase(x)' = "drained"
    BY <1>1, <2>2, <2>4 DEF ExecutorPhase
  <2>6. Serial!Drain(x)
    BY <1>1, <1>3, <2>0, <2>2, <2>3, <2>5 DEF Serial!Drain
  <2> QED
    BY <2>6
<1> QED
  BY <1>4, <1>5

\* Quitting, finishing and joining a thread before it is deleted is hidden.
LEMMA ThreadMoveRefines ==
  ASSUME TypeOK, NEW t \in Threads, thread[t] # "deleted", NEW s, s # "deleted",
         thread' = [thread EXCEPT ![t] = s],
         UNCHANGED execVars, ran' = ran, delivered' = delivered
  PROVE  UNCHANGED Serial!vars
<1>1. ASSUME NEW e \in Executors PROVE ExecutorPhase(e)' = ExecutorPhase(e)
  <2>1. thread'[e] = thread[e] \/ (thread[e] # "deleted" /\ thread'[e] # "deleted")
    BY DEF TypeOK, Threads
  <2> QED
    BY <2>1, PhaseUnchanged DEF execVars
<1> QED
  BY <1>1, SerialStutter DEF execVars

LEMMA HandleQuitRefines ==
  ASSUME TypeOK, SafetyInv, HandleQuit
  PROVE  UNCHANGED Serial!vars
<1> DEFINE t == Head(guiQueue).who
<1>1. /\ guiQueue # <<>> /\ Head(guiQueue).kind = "quit"
      /\ thread' = [thread EXCEPT ![t] = "quitting"]
      /\ UNCHANGED execVars /\ ran' = ran /\ delivered' = delivered
  BY DEF HandleQuit, NextGuiEvent, histVars
<1>2. guiQueue[1] = Head(guiQueue) /\ 1 \in 1..Len(guiQueue) /\ Head(guiQueue) \in GuiEvents
  BY <1>1, TailFacts DEF TypeOK
<1>3. t \in Executors
  BY <1>1, <1>2 DEF GuiEvents
<1>4. thread[t] = "running"
  BY <1>1, <1>2, <1>3 DEF SafetyInv, ExecutorInv, EndInv
<1> HIDE DEF t
<1>5. t \in Threads /\ thread[t] # "deleted"
  BY <1>3, <1>4 DEF Threads
<1> QED
  BY <1>1, <1>5, ThreadMoveRefines

LEMMA StepRefines == TypeOK /\ SafetyInv /\ [Next]_vars => [Serial!Next]_(Serial!vars)
<1> SUFFICES ASSUME TypeOK, SafetyInv, [Next]_vars
             PROVE  Serial!Next \/ UNCHANGED Serial!vars
  OBVIOUS
<1> USE DEF Serial!Next
<1>1. ASSUME NEW x \in Executors, Construct(x) PROVE Serial!Next
  BY <1>1, ConstructRefines
<1>2. ASSUME NEW x \in Executors, Shutdown(x) PROVE Serial!Next
  <2>1. /\ StopExecutors({x}) /\ {x} \in SUBSET Executors /\ owner[x] # "unborn"
        /\ owner' = owner /\ thread' = thread /\ nextTaskId' = nextTaskId
        /\ ran' = ran /\ delivered' = delivered
    BY <1>2 DEF Shutdown, histVars
  <2>2. \E fs \in SUBSET Executors : Serial!Stop(fs)
    BY <2>1, StopRefines
  <2> QED
    BY <2>2
<1>3. ASSUME NEW x \in Executors, Destroy(x) PROVE Serial!Next
  <2>1. /\ StopExecutors({x}) /\ {x} \in SUBSET Executors /\ owner[x] # "unborn"
        /\ \A e \in Executors : owner'[e] = "unborn" <=> owner[e] = "unborn"
        /\ thread' = thread /\ nextTaskId' = nextTaskId
        /\ ran' = ran /\ delivered' = delivered
    BY <1>3 DEF Destroy, histVars, TypeOK
  <2>2. \E fs \in SUBSET Executors : Serial!Stop(fs)
    BY <2>1, StopRefines
  <2> QED
    BY <2>2
<1>4. ASSUME NEW x \in Executors, NEW r \in Receivers, Submit(x, r) PROVE Serial!Next
  BY <1>4, SubmitRefines
<1>5. ASSUME NEW w \in Waiters, ShutdownAll(w) PROVE Serial!Next
  <2> DEFINE es == {x \in ownersByThread : owner[x] = "alive"}
  <2>1. /\ StopExecutors(es) /\ es \in SUBSET Executors
        /\ \A e \in es : owner[e] # "unborn"
        /\ owner' = owner /\ thread' = thread /\ nextTaskId' = nextTaskId
        /\ ran' = ran /\ delivered' = delivered
    BY <1>5 DEF ShutdownAll, TypeOK
  <2> HIDE DEF es
  <2>2. \E fs \in SUBSET Executors : Serial!Stop(fs)
    BY <2>1, StopRefines
  <2> QED
    BY <2>2
<1>6. ASSUME NEW x \in Executors, RunTask(x) PROVE Serial!Next
  BY <1>6, RunTaskRefines
<1>7. ASSUME HandleCompleted PROVE Serial!Next \/ UNCHANGED Serial!vars
  BY <1>7, HandleCompletedRefines
<1>8. ASSUME HandleJoined PROVE Serial!Next \/ UNCHANGED Serial!vars
  BY <1>8, HandleJoinedRefines
<1>9. ASSUME HandleQuit PROVE UNCHANGED Serial!vars
  BY <1>9, HandleQuitRefines
<1>10. ASSUME NEW t \in OtherThreads, JoinOther(t) PROVE UNCHANGED Serial!vars
  <2>1. \A e \in Executors : thread'[e] = thread[e]
    BY <1>10, ThreadsAssumption DEF JoinOther, TypeOK
  <2>2. \A e \in Executors : ExecutorPhase(e)' = ExecutorPhase(e)
    BY <1>10, <2>1, PhaseUnchanged DEF JoinOther, execVars
  <2> QED
    BY <1>10, <2>2, SerialStutter DEF JoinOther, execVars, histVars
<1>11. ASSUME NEW t \in Threads, ThreadFinished(t) PROVE UNCHANGED Serial!vars
  <2>1. /\ thread[t] # "deleted" /\ thread' = [thread EXCEPT ![t] = "finished"]
        /\ UNCHANGED execVars /\ ran' = ran /\ delivered' = delivered
    BY <1>11 DEF ThreadFinished, histVars
  <2> QED
    BY <2>1, ThreadMoveRefines
<1>12. ASSUME NEW t \in Threads, ThreadEnded(t) PROVE UNCHANGED Serial!vars
  <2>1. /\ thread[t] # "deleted" /\ thread' = [thread EXCEPT ![t] = "ended"]
        /\ UNCHANGED execVars /\ ran' = ran /\ delivered' = delivered
    BY <1>12 DEF ThreadEnded, histVars
  <2> QED
    BY <2>1, ThreadMoveRefines
<1>13. ASSUME UNCHANGED <<execVars, thread, ran, delivered>> PROVE UNCHANGED Serial!vars
  <2>1. \A e \in Executors : ExecutorPhase(e)' = ExecutorPhase(e)
    BY <1>13, PhaseUnchanged DEF execVars
  <2> QED
    BY <1>13, <2>1, SerialStutter DEF execVars
<1>14. ASSUME \/ \E r \in Receivers \cup Waiters : DestroyReceiver(r)
              \/ \E x \in Executors : ReleaseTask(x) \/ StopWorker(x)
              \/ \E t \in Threads : JoinerReturns(t)
              \/ CompletionReturns \/ HandleFinished \/ HandleDrained
              \/ UNCHANGED vars
       PROVE  UNCHANGED <<execVars, thread, ran, delivered>>
  BY <1>14 DEF DestroyReceiver, ReleaseTask, StopWorker, JoinerReturns, CompletionReturns,
               HandleFinished, HandleDrained, vars, workerVars, histVars
<1> HIDE DEF Serial!Next
<1> QED
  BY <1>1, <1>2, <1>3, <1>4, <1>5, <1>6, <1>7, <1>8, <1>9, <1>10, <1>11, <1>12, <1>13, <1>14
  DEF Next, GuiCall, GuiStep, WorkerStep, ThreadStep

\* The executors behave for their users as serial executors: tasks are
\* accepted, run and notified in order, nothing is notified after the stop,
\* and an executor drains only when every accepted task has run.
THEOREM Refinement == Spec => ImplementsSerialExecutor
<1>1. Init => Serial!Init
  BY InitRefines
<1>2. TypeOK /\ SafetyInv /\ [Next]_vars => [Serial!Next]_(Serial!vars)
  BY StepRefines
<1> QED
  BY <1>1, <1>2, TypeCorrect, SafetyInvariant, PTL
  DEF Spec, ImplementsSerialExecutor, Serial!Spec

(***************************************************************************)
(* NodeStatus: the pause shown is the node's, for any number of changes,   *)
(* notifications and commands.  The argument is about generations: a value *)
(* that a task read from the node is the node's as long as no notification *)
(* of network activity was sent since the task was given its generation,   *)
(* unless one is still owed.  PauseInv states that for the mailbox, the    *)
(* snapshot and the command.                                               *)
(***************************************************************************)

\* The node has changed its network activity and not said so yet.
ChangeOwed == "active" \in owed \/ action.step = "notify"

\* What the mailbox holds, a snapshot brings, or a command found.
MailboxCurrent == mailbox.active # None => mailbox.active = Some(node.active)

SnapshotCurrent ==
  status.step = "read" /\ status.active # None /\ status.netGen = netGen =>
    status.active = Some(node.active)

CommandCurrent ==
  action.step = "done" /\ action.gen = netGen => action.paused = ~node.active

ShownCurrent ==
  Accepting(gui) /\ gui.known /\ mailbox.active = None => gui.pause = ~node.active

PauseInv ==
  ~ChangeOwed => MailboxCurrent /\ SnapshotCurrent /\ CommandCurrent /\ ShownCurrent

----------------------------------------------------------------------------
(* Types *)

NodeType == [active : BOOLEAN, peers : 0..1, warning : 0..1]
MailboxType == [peers : BOOLEAN, warnings : BOOLEAN, active : Optional(BOOLEAN),
                total : Optional(0..1)]
DeliveryType == [pending : BOOLEAN, attached : BOOLEAN, publishing : BOOLEAN]
GuiType == [ready : BOOLEAN, shutdown : BOOLEAN, stopping : BOOLEAN,
            peers : 0..1, warning : 0..1, pause : BOOLEAN, known : BOOLEAN]
StatusType == [step : {"idle", "submitted", "counted", "read"}, again : BOOLEAN,
               ready : BOOLEAN, gen : Nat, netGen : Nat, peers : 0..1, warning : 0..1,
               active : Optional(BOOLEAN), failed : BOOLEAN]
ActionType == [step : {"idle", "submitted", "notify", "set", "generation", "done", "abandoned"},
               desired : BOOLEAN, requested : BOOLEAN, gen : Nat,
               paused : BOOLEAN, error : BOOLEAN, requests : 0..MaxEvents]

\* No task has a generation of the future.
GenerationsKnown ==
  /\ statusGen \in Nat /\ netGen \in Nat /\ netGen <= statusGen
  /\ status.gen <= statusGen /\ status.netGen <= netGen /\ action.gen <= netGen

\* The type invariant by parts, with the generations apart from the records.
Types ==
  /\ node \in NodeType /\ owed \subseteq Kinds /\ changes \in 0..MaxEvents
  /\ mailbox \in MailboxType /\ delivery \in DeliveryType /\ gui \in GuiType
  /\ status \in StatusType /\ action \in ActionType
  /\ GenerationsKnown

LEMMA TypesImplyTypeOK == Types => StatusTypeOK
  BY DEF Types, StatusTypeOK, GenerationsKnown, NodeType, MailboxType, DeliveryType, GuiType, StatusType,
         ActionType

\* The value of an optional that holds one.
LEMMA OptionalValue ==
  ASSUME NEW S
  PROVE  /\ \A v \in S : Some(v) \in Optional(S) /\ Value(Some(v)) = v /\ Some(v) # None
         /\ None \in Optional(S)
         /\ \A o \in Optional(S) : o # None => Value(o) \in S /\ o = Some(Value(o))
<1>1. \A v \in S : Some(v) \in Optional(S) /\ Value(Some(v)) = v /\ Some(v) # None
  BY DEF Some, Optional, Value, None
<1>2. None \in Optional(S)
  BY DEF None, Optional
<1>3. ASSUME NEW o \in Optional(S), o # None PROVE Value(o) \in S /\ o = Some(Value(o))
  <2>1. PICK v \in S : o = {v}
    BY <1>3 DEF Optional, None
  <2> QED
    BY <2>1 DEF Value, Some
<1> QED
  BY <1>1, <1>2, <1>3

LEMMA StatusInitType == StatusInit => Types
<1> SUFFICES ASSUME StatusInit PROVE Types
  OBVIOUS
<1>1. None \in Optional(BOOLEAN) /\ None \in Optional(0..1)
  BY OptionalValue
<1>2. status \in StatusType /\ status.gen = 0 /\ status.netGen = 0
  BY <1>1 DEF StatusInit, IdleStatus, StatusType
<1>0. 0 \in 0..MaxEvents
  BY BoundsAssumption
<1>3. action \in ActionType /\ action.gen = 0
  BY <1>0 DEF StatusInit, ActionType
<1>4. mailbox \in MailboxType
  BY <1>1 DEF StatusInit, MailboxType
<1>5. node \in NodeType /\ delivery \in DeliveryType /\ gui \in GuiType
  BY DEF StatusInit, NodeType, DeliveryType, GuiType
<1>6. owed \subseteq Kinds /\ changes = 0 /\ statusGen = 0 /\ netGen = 0
  BY DEF StatusInit
<1>7. GenerationsKnown
  BY <1>2, <1>3, <1>6 DEF GenerationsKnown
<1> QED
  BY <1>0, <1>2, <1>3, <1>4, <1>5, <1>6, <1>7 DEF Types

----------------------------------------------------------------------------
(* The operators of the model *)

\* A status whose generations are not of the future.
KnownStatus(st) == st \in StatusType /\ st.gen <= statusGen /\ st.netGen <= netGen

\* Asking for a snapshot keeps the type and never makes up a result.
LEMMA RefreshedStatusFacts ==
  ASSUME Types, NEW st, KnownStatus(st), NEW g \in GuiType, NEW b \in BOOLEAN
  PROVE  /\ KnownStatus(RefreshedStatus(st, g, b))
         /\ RefreshedStatus(st, g, b).step = "read" =>
              /\ st.step = "read"
              /\ RefreshedStatus(st, g, b).active = st.active
              /\ RefreshedStatus(st, g, b).netGen = st.netGen
<1>1. CASE ~g.ready \/ g.shutdown \/ g.stopping
  BY <1>1 DEF RefreshedStatus, KnownStatus
<1>2. CASE ~(~g.ready \/ g.shutdown \/ g.stopping) /\ st.step # "idle"
  <2>1. RefreshedStatus(st, g, b) = [st EXCEPT !.again = TRUE]
    BY <1>2 DEF RefreshedStatus
  <2> QED
    BY <2>1 DEF KnownStatus, StatusType
<1>3. CASE ~(~g.ready \/ g.shutdown \/ g.stopping) /\ st.step = "idle"
  <2>1. RefreshedStatus(st, g, b) = [st EXCEPT !.step = "submitted", !.ready = b,
                                      !.gen = statusGen, !.netGen = netGen]
    BY <1>3 DEF RefreshedStatus
  <2>2. st \in StatusType /\ statusGen \in Nat /\ netGen \in Nat
    BY DEF KnownStatus, Types, GenerationsKnown
  <2>3. /\ RefreshedStatus(st, g, b) \in StatusType
        /\ RefreshedStatus(st, g, b).step = "submitted"
        /\ RefreshedStatus(st, g, b).gen = statusGen
        /\ RefreshedStatus(st, g, b).netGen = netGen
    BY <2>1, <2>2 DEF StatusType
  <2> QED
    BY <2>2, <2>3 DEF KnownStatus
<1> QED
  BY <1>1, <1>2, <1>3

LEMMA IdleStatusKnown ==
  ASSUME Types, NEW f \in BOOLEAN
  PROVE  KnownStatus(IdleStatus(f)) /\ IdleStatus(f).step = "idle"
<1>1. None \in Optional(BOOLEAN)
  BY OptionalValue
<1> QED
  BY <1>1 DEF IdleStatus, KnownStatus, StatusType, Types, GenerationsKnown

\* The same for the snapshot a publication asks for.
LEMMA PublishedStatusFacts ==
  ASSUME Types, NEW g \in GuiType, NEW b \in BOOLEAN
  PROVE  /\ KnownStatus(PublishedStatus(g, b))
         /\ PublishedStatus(g, b).step = "read" =>
              /\ status.step = "read"
              /\ PublishedStatus(g, b).active = status.active
              /\ PublishedStatus(g, b).netGen = status.netGen
<1>1. KnownStatus(status)
  BY DEF Types, GenerationsKnown, KnownStatus
<1> QED
  BY <1>1, RefreshedStatusFacts DEF PublishedStatus

\* A publication shows what the mailbox holds and empties it, or does nothing.
LEMMA PublishedFacts ==
  ASSUME Types, NEW g \in GuiType
  PROVE  /\ PublishedMailbox \in MailboxType
         /\ PublishedMailbox.active = IF Accepting(gui) THEN None ELSE mailbox.active
         /\ PublishedGui(g) \in GuiType
         /\ PublishedGui(g).stopping = g.stopping /\ PublishedGui(g).shutdown = g.shutdown
         /\ Accepting(g) /\ mailbox.active # None =>
              PublishedGui(g).pause = ~Value(mailbox.active)
         /\ ~(Accepting(g) /\ mailbox.active # None) => PublishedGui(g) = g
<1>1. None \in Optional(BOOLEAN) /\ mailbox.active \in Optional(BOOLEAN) /\ mailbox \in MailboxType
  BY OptionalValue DEF Types, MailboxType
<1>2. PublishedMailbox \in MailboxType
        /\ PublishedMailbox.active = IF Accepting(gui) THEN None ELSE mailbox.active
  BY <1>1 DEF PublishedMailbox, MailboxType
<1>3. CASE Accepting(g) /\ mailbox.active # None
  <2>1. Value(mailbox.active) \in BOOLEAN
    BY <1>1, <1>3, OptionalValue
  <2>2. PublishedGui(g) = [g EXCEPT !.known = TRUE, !.pause = ~Value(mailbox.active)]
    BY <1>3 DEF PublishedGui
  <2> QED
    BY <1>2, <1>3, <2>1, <2>2 DEF GuiType
<1>4. CASE ~(Accepting(g) /\ mailbox.active # None)
  BY <1>2, <1>4 DEF PublishedGui
<1> QED
  BY <1>3, <1>4

\* The command after its completion.
LEMMA ContinuedFacts ==
  ASSUME Types, NEW b \in BOOLEAN
  PROVE  /\ IdleAction \in ActionType /\ IdleAction.gen = 0 /\ IdleAction.step = "idle"
         /\ Continued(b) \in ActionType /\ Continued(b).gen = 0
         /\ Continued(b).step \in {"idle", "submitted"}
<1>1. IdleAction \in ActionType /\ IdleAction.gen = 0 /\ IdleAction.step = "idle"
  BY DEF Types, IdleAction, ActionType
<1>2. CASE action.desired # action.requested
  <2>1. Continued(b) = [IdleAction EXCEPT !.step = "submitted", !.requested = action.desired]
    BY <1>2 DEF Continued
  <2> QED
    BY <1>1, <2>1 DEF ActionType, Types
<1>3. CASE action.desired = action.requested
  <2>1. PICK e \in BOOLEAN : Continued(b) = [IdleAction EXCEPT !.error = e]
    <3>1. Continued(b) = [IdleAction EXCEPT !.error =
                            IdleAction.error \/ (b /\ action.paused # action.requested)]
      BY <1>3, <1>1 DEF Continued, ActionType
    <3> QED
      BY <3>1
  <2> QED
    BY <1>1, <2>1 DEF ActionType
<1> QED
  BY <1>1, <1>2, <1>3

----------------------------------------------------------------------------
(* Every step keeps the types. *)

\* The generations only grow, so a status or a command they knew stays known.
LEMMA KeepKnown ==
  ASSUME Types, statusGen' \in Nat, netGen' \in Nat, netGen' <= statusGen',
         netGen' >= netGen, statusGen' >= statusGen,
         KnownStatus(status') \/ status' = status,
         action'.gen <= netGen \/ action' = action,
         action' \in ActionType
  PROVE  status' \in StatusType /\ GenerationsKnown'
<1>1. /\ statusGen \in Nat /\ netGen \in Nat /\ KnownStatus(status) /\ action.gen <= netGen
      /\ action \in ActionType
  BY DEF Types, GenerationsKnown, KnownStatus
<1>2. KnownStatus(status') /\ action'.gen <= netGen
  BY <1>1
<1>3. /\ status'.gen \in Nat /\ status'.netGen \in Nat /\ action'.gen \in Nat
      /\ status' \in StatusType /\ status'.gen <= statusGen /\ status'.netGen <= netGen
  BY <1>2 DEF KnownStatus, StatusType, ActionType
<1> QED
  BY <1>1, <1>2, <1>3 DEF GenerationsKnown

\* A notification that is dropped into the mailbox.
LEMMA DropFacts ==
  ASSUME Types, NEW kind \in {"active", "peers", "warning"}, Drop(kind)
  PROVE  /\ mailbox' \in MailboxType /\ delivery' \in DeliveryType
         /\ statusGen' = statusGen + 1
         /\ kind = "active" => mailbox'.active = Some(node.active) /\ netGen' = netGen + 1
         /\ kind # "active" => mailbox'.active = mailbox.active /\ netGen' = netGen
<1>1. /\ Some(node.active) \in Optional(BOOLEAN) /\ Some(node.peers) \in Optional(0..1)
      /\ mailbox \in MailboxType /\ delivery \in DeliveryType
  BY OptionalValue DEF Types, NodeType
<1>2. delivery' \in DeliveryType
  BY <1>1 DEF Drop, Scheduled, DeliveryType
<1>3. /\ statusGen' = statusGen + 1
      /\ kind = "active" => netGen' = netGen + 1
      /\ kind # "active" => netGen' = netGen
  BY DEF Drop
<1>4. CASE kind = "active"
  <2>1. mailbox' = [mailbox EXCEPT !.active = Some(node.active)]
    BY <1>4 DEF Drop
  <2> QED
    BY <1>1, <1>2, <1>3, <1>4, <2>1 DEF MailboxType
<1>5. CASE kind = "peers"
  <2>1. mailbox' = [mailbox EXCEPT !.peers = TRUE, !.total = Some(node.peers)]
    BY <1>5 DEF Drop
  <2> QED
    BY <1>1, <1>2, <1>3, <1>5, <2>1 DEF MailboxType
<1>6. CASE kind = "warning"
  <2>1. mailbox' = [mailbox EXCEPT !.warnings = TRUE]
    BY <1>6 DEF Drop
  <2> QED
    BY <1>1, <1>2, <1>3, <1>6, <2>1 DEF MailboxType
<1> QED
  BY <1>4, <1>5, <1>6

----------------------------------------------------------------------------
(* Every step keeps the types and the pause. *)

\* What a step may do without touching the pause: take less for accepting, end
\* a snapshot or a command.
StatusKept ==
  status'.step = "read" =>
    status.step = "read" /\ status'.active = status.active /\ status'.netGen = status.netGen

ActionKept ==
  /\ action'.step = "notify" <=> action.step = "notify"
  /\ action'.step = "done" =>
       action.step = "done" /\ action'.gen = action.gen /\ action'.paused = action.paused

GuiKept ==
  /\ Accepting(gui)' => Accepting(gui)
  /\ gui'.known = gui.known /\ gui'.pause = gui.pause

LEMMA PauseFrame ==
  ASSUME PauseInv, node'.active = node.active, netGen' = netGen,
         mailbox'.active = mailbox.active, "active" \in owed <=> "active" \in owed',
         StatusKept, ActionKept, GuiKept
  PROVE  PauseInv'
<1> SUFFICES ASSUME ~ChangeOwed'
             PROVE  MailboxCurrent' /\ SnapshotCurrent' /\ CommandCurrent' /\ ShownCurrent'
  BY DEF PauseInv
<1>1. ~ChangeOwed
  BY DEF ChangeOwed, ActionKept
<1>2. MailboxCurrent /\ SnapshotCurrent /\ CommandCurrent /\ ShownCurrent
  BY <1>1 DEF PauseInv
<1>3. MailboxCurrent'
  BY <1>2 DEF MailboxCurrent, Some
<1>4. SnapshotCurrent'
  BY <1>2 DEF SnapshotCurrent, StatusKept, Some
<1>5. CommandCurrent'
  BY <1>2 DEF CommandCurrent, ActionKept
<1>6. ShownCurrent'
  BY <1>2 DEF ShownCurrent, GuiKept
<1> QED
  BY <1>3, <1>4, <1>5, <1>6

\* The parts that a step leaves alone.
LEMMA StutterKept ==
  /\ status' = status => StatusKept
  /\ action' = action => ActionKept
  /\ gui' = gui => GuiKept
  BY DEF StatusKept, ActionKept, GuiKept, Accepting

LEMMA NodeChangesStep ==
  ASSUME Types, PauseInv, NEW kind \in Kinds, NodeChanges(kind)
  PROVE  Types' /\ PauseInv'
<1>1. /\ changes' = changes + 1 /\ owed' = owed \cup {kind}
      /\ UNCHANGED <<mailbox, statusGen, netGen, delivery, gui, status, action>>
      /\ changes + action.requests < MaxEvents
  BY DEF NodeChanges, boxVars
<1>2. /\ kind \in {"active", "peers", "warning"}
      /\ node \in NodeType
  BY KindsAssumption DEF Types
<1>3. node' \in NodeType /\ (kind # "active" => node'.active = node.active)
  <2>1. CASE kind = "active"
    <3>1. node' = [node EXCEPT !.active = ~@]
      BY <2>1 DEF NodeChanges
    <3> QED
      BY <1>2, <2>1, <3>1 DEF NodeType
  <2>2. CASE kind = "peers"
    <3>1. node' = [node EXCEPT !.peers = 1 - @]
      BY <2>2 DEF NodeChanges
    <3> QED
      BY <1>2, <2>2, <3>1 DEF NodeType
  <2>3. CASE kind = "warning"
    <3>1. node' = [node EXCEPT !.warning = 1 - @]
      BY <2>3 DEF NodeChanges
    <3> QED
      BY <1>2, <2>3, <3>1 DEF NodeType
  <2> QED
    BY <1>2, <2>1, <2>2, <2>3
<1>4. changes' \in 0..MaxEvents
  <2>1. changes \in 0..MaxEvents /\ action.requests \in 0..MaxEvents
    BY DEF Types, ActionType
  <2> QED
    BY <1>1, <2>1, BoundsAssumption
<1>5. Types'
  BY <1>1, <1>3, <1>4 DEF Types, GenerationsKnown
<1>6. PauseInv'
  <2>1. CASE kind = "active"
    BY <1>1, <2>1 DEF PauseInv, ChangeOwed
  <2>2. CASE kind # "active"
    BY <1>1, <1>3, <2>2, PauseFrame, StutterKept
  <2> QED
    BY <2>1, <2>2
<1> QED
  BY <1>5, <1>6

\* After a notification of network activity the mailbox holds the node's value
\* and what any task read before is of an older generation.
LEMMA ActiveDropped ==
  ASSUME Types, Drop("active"), node' = node, gui' = gui, status' = status,
         action'.step # "done" \/ action' = action
  PROVE  PauseInv'
<1>1. mailbox'.active = Some(node.active) /\ netGen' = netGen + 1
  BY DropFacts
<1>2. netGen \in Nat /\ status.netGen <= netGen /\ action.gen <= netGen
      /\ status.netGen \in Nat /\ action.gen \in Nat
  BY DEF Types, GenerationsKnown, StatusType, ActionType
<1>3. mailbox'.active # None
  BY <1>1 DEF Some, None
<1>4. MailboxCurrent'
  BY <1>1 DEF MailboxCurrent, Some
<1>5. status'.netGen # netGen' /\ (action' = action => action'.gen # netGen')
  BY <1>1, <1>2
<1>6. SnapshotCurrent' /\ CommandCurrent' /\ ShownCurrent'
  BY <1>3, <1>5 DEF SnapshotCurrent, CommandCurrent, ShownCurrent, None
<1> QED
  BY <1>4, <1>6 DEF PauseInv

LEMMA NotifyStep ==
  ASSUME Types, PauseInv, NEW kind \in Kinds, Notify(kind)
  PROVE  Types' /\ PauseInv'
<1>1. /\ owed' = owed \ {kind} /\ Drop(kind)
      /\ UNCHANGED <<node, changes, gui, status, action>>
  BY DEF Notify
<1>2. kind \in {"active", "peers", "warning"}
  BY KindsAssumption
<1>3. /\ mailbox' \in MailboxType /\ delivery' \in DeliveryType
      /\ statusGen' = statusGen + 1
      /\ kind = "active" => netGen' = netGen + 1
      /\ kind # "active" => mailbox'.active = mailbox.active /\ netGen' = netGen
  BY <1>1, <1>2, DropFacts
<1>4. statusGen \in Nat /\ netGen \in Nat /\ netGen <= statusGen /\ action \in ActionType
  BY DEF Types, GenerationsKnown
<1>5. statusGen' \in Nat /\ netGen' \in Nat /\ netGen' <= statusGen' /\ netGen' >= netGen
        /\ statusGen' >= statusGen
  BY <1>3, <1>4
<1>6. status' \in StatusType /\ GenerationsKnown'
  BY <1>1, <1>4, <1>5, KeepKnown
<1>7. Types'
  BY <1>1, <1>3, <1>6 DEF Types
<1>8. PauseInv'
  <2>1. CASE kind = "active"
    BY <1>1, <2>1, ActiveDropped
  <2>2. CASE kind # "active"
    BY <1>1, <1>3, <2>2, PauseFrame, StutterKept
  <2> QED
    BY <2>1, <2>2
<1> QED
  BY <1>7, <1>8

LEMMA NotifyOwnChangeStep ==
  ASSUME Types, PauseInv, NotifyOwnChange
  PROVE  Types' /\ PauseInv'
<1>1. /\ Drop("active") /\ action' = [action EXCEPT !.step = "set"]
      /\ UNCHANGED <<node, owed, changes, gui, status>>
  BY DEF NotifyOwnChange, nodeVars
<1>2. /\ mailbox' \in MailboxType /\ delivery' \in DeliveryType
      /\ statusGen' = statusGen + 1 /\ netGen' = netGen + 1
  BY <1>1, DropFacts
<1>3. statusGen \in Nat /\ netGen \in Nat /\ netGen <= statusGen /\ action \in ActionType
        /\ action.gen <= netGen
  BY DEF Types, GenerationsKnown
<1>4. action' \in ActionType /\ action'.gen = action.gen /\ action'.step = "set"
  BY <1>1, <1>3 DEF ActionType
<1>5. statusGen' \in Nat /\ netGen' \in Nat /\ netGen' <= statusGen' /\ netGen' >= netGen
        /\ statusGen' >= statusGen
  BY <1>2, <1>3
<1>6. status' \in StatusType /\ GenerationsKnown'
  BY <1>1, <1>3, <1>4, <1>5, KeepKnown
<1>7. Types'
  BY <1>1, <1>2, <1>4, <1>6 DEF Types
<1>8. PauseInv'
  BY <1>1, <1>4, ActiveDropped
<1> QED
  BY <1>7, <1>8

\* The types after a step that sends no notification.
LEMMA TypesFrame ==
  ASSUME Types, UNCHANGED <<statusGen, netGen, owed, changes>>,
         node' \in NodeType, mailbox' \in MailboxType, delivery' \in DeliveryType,
         gui' \in GuiType, KnownStatus(status'), action' \in ActionType, action'.gen <= netGen
  PROVE  Types'
<1>1. statusGen \in Nat /\ netGen \in Nat /\ netGen <= statusGen
  BY DEF Types, GenerationsKnown
<1>2. status' \in StatusType /\ GenerationsKnown'
  BY <1>1, KeepKnown
<1> QED
  BY <1>2 DEF Types

LEMMA TypesParts ==
  ASSUME Types
  PROVE  /\ node \in NodeType /\ mailbox \in MailboxType /\ delivery \in DeliveryType
         /\ gui \in GuiType /\ KnownStatus(status) /\ action \in ActionType
         /\ action.gen <= netGen /\ netGen \in Nat /\ statusGen \in Nat
  BY DEF Types, GenerationsKnown, KnownStatus

\* A publication, whatever snapshot it asks for.
LEMMA PublicationKeepsPause ==
  ASSUME Types, PauseInv, UNCHANGED <<node, owed, netGen>>,
         NEW g \in GuiType, g.stopping = gui.stopping, g.shutdown = gui.shutdown,
         g.known = gui.known, g.pause = gui.pause,
         mailbox' = PublishedMailbox, gui' = PublishedGui(g), StatusKept, ActionKept
  PROVE  PauseInv'
<1>0. Accepting(g) <=> Accepting(gui)
  BY DEF Accepting
<1>1. CASE Accepting(gui) /\ mailbox.active # None
  <2> SUFFICES ASSUME ~ChangeOwed'
               PROVE  MailboxCurrent' /\ SnapshotCurrent' /\ CommandCurrent' /\ ShownCurrent'
    BY DEF PauseInv
  <2>1. ~ChangeOwed
    BY DEF ChangeOwed, ActionKept
  <2>2. MailboxCurrent /\ SnapshotCurrent /\ CommandCurrent
    BY <2>1 DEF PauseInv
  <2>3. mailbox'.active = None /\ gui'.pause = ~Value(mailbox.active)
    BY <1>0, <1>1, PublishedFacts
  <2>4. Value(mailbox.active) = node.active
    <3>1. node.active \in BOOLEAN
      BY TypesParts DEF NodeType
    <3>2. mailbox.active = Some(node.active)
      BY <1>1, <2>2 DEF MailboxCurrent
    <3> QED
      BY <3>1, <3>2, OptionalValue
  <2>5. MailboxCurrent'
    BY <2>3 DEF MailboxCurrent, None
  <2>6. SnapshotCurrent'
    BY <2>2 DEF SnapshotCurrent, StatusKept, Some
  <2>7. CommandCurrent'
    BY <2>2 DEF CommandCurrent, ActionKept
  <2>8. ShownCurrent'
    BY <2>3, <2>4 DEF ShownCurrent
  <2> QED
    BY <2>5, <2>6, <2>7, <2>8
<1>2. CASE ~(Accepting(gui) /\ mailbox.active # None)
  <2>1. gui' = g
    BY <1>0, <1>2, PublishedFacts
  <2>2. GuiKept
    BY <2>1, <1>0 DEF GuiKept, Accepting
  <2>3. mailbox'.active = mailbox.active
    BY <1>2, PublishedFacts
  <2> QED
    BY <2>2, <2>3, PauseFrame
<1> QED
  BY <1>1, <1>2

LEMMA PublishStep ==
  ASSUME Types, PauseInv, Publish
  PROVE  Types' /\ PauseInv'
<1>1. /\ delivery' = [delivery EXCEPT !.publishing = FALSE]
      /\ mailbox' = PublishedMailbox /\ gui' = PublishedGui(gui)
      /\ status' = PublishedStatus(gui, gui.ready)
      /\ UNCHANGED <<node, owed, changes, statusGen, netGen, action>>
  BY DEF Publish, nodeVars
<1>2. gui \in GuiType /\ gui.ready \in BOOLEAN /\ delivery' \in DeliveryType
  BY <1>1, TypesParts DEF GuiType, DeliveryType
<1>3. KnownStatus(status') /\ StatusKept
  BY <1>1, <1>2, PublishedStatusFacts DEF StatusKept
<1>4. mailbox' \in MailboxType /\ gui' \in GuiType
  BY <1>1, <1>2, PublishedFacts
<1>5. Types'
  BY <1>1, <1>2, <1>3, <1>4, TypesParts, TypesFrame
<1>6. PauseInv'
  BY <1>1, <1>2, <1>3, StutterKept, PublicationKeepsPause
<1> QED
  BY <1>5, <1>6

LEMMA InitializedStep ==
  ASSUME Types, PauseInv, Initialized
  PROVE  Types' /\ PauseInv'
<1> DEFINE g == [gui EXCEPT !.ready = TRUE]
           st == PublishedStatus(g, FALSE)
<1>1. /\ mailbox' = PublishedMailbox /\ gui' = PublishedGui(g)
      /\ status' = RefreshedStatus(st, g, TRUE)
      /\ UNCHANGED <<node, owed, changes, statusGen, netGen, delivery, action>>
  BY DEF Initialized, nodeVars
<1>2. /\ g \in GuiType /\ g.stopping = gui.stopping /\ g.shutdown = gui.shutdown
      /\ g.known = gui.known /\ g.pause = gui.pause
  BY TypesParts DEF GuiType
<1>3. /\ KnownStatus(st)
      /\ st.step = "read" =>
           status.step = "read" /\ st.active = status.active /\ st.netGen = status.netGen
  BY <1>2, PublishedStatusFacts
<1> HIDE DEF st
<1>4. KnownStatus(status') /\ StatusKept
  BY <1>1, <1>2, <1>3, RefreshedStatusFacts DEF StatusKept
<1> HIDE DEF g
<1>5. mailbox' \in MailboxType /\ gui' \in GuiType
  BY <1>1, <1>2, PublishedFacts
<1>6. Types'
  BY <1>1, <1>4, <1>5, TypesParts, TypesFrame
<1>7. PauseInv'
  BY <1>1, <1>2, <1>4, StutterKept, PublicationKeepsPause
<1> QED
  BY <1>6, <1>7

LEMMA LifeCycleStep ==
  ASSUME Types, PauseInv, BeginDelivery \/ RequestShutdown \/ BeginShutdown
  PROVE  Types' /\ PauseInv'
<1>1. UNCHANGED <<node, owed, changes, mailbox, statusGen, netGen, status, action>>
  BY DEF BeginDelivery, RequestShutdown, BeginShutdown, nodeVars, boxVars
<1>2. delivery' \in DeliveryType /\ gui' \in GuiType /\ GuiKept
  <2>1. CASE BeginDelivery
    BY <2>1, TypesParts, StutterKept DEF BeginDelivery, DeliveryType
  <2>2. CASE RequestShutdown
    BY <2>2, TypesParts DEF RequestShutdown, GuiType, GuiKept, Accepting
  <2>3. CASE BeginShutdown
    BY <2>3, TypesParts DEF BeginShutdown, GuiType, DeliveryType, GuiKept, Accepting
  <2> QED
    BY <2>1, <2>2, <2>3
<1>3. Types'
  BY <1>1, <1>2, TypesParts, TypesFrame
<1>4. PauseInv'
  BY <1>1, <1>2, StutterKept, PauseFrame
<1> QED
  BY <1>3, <1>4

\* A snapshot or a command that shows a value: it is the node's, unless a
\* notification is owed.
LEMMA ShowingKeepsPause ==
  ASSUME PauseInv, UNCHANGED <<node, owed, netGen, mailbox>>,
         ~ChangeOwed => gui'.pause = ~node.active, StatusKept, ActionKept
  PROVE  PauseInv'
<1> SUFFICES ASSUME ~ChangeOwed'
             PROVE  MailboxCurrent' /\ SnapshotCurrent' /\ CommandCurrent' /\ ShownCurrent'
  BY DEF PauseInv
<1>1. ~ChangeOwed
  BY DEF ChangeOwed, ActionKept
<1>2. MailboxCurrent /\ SnapshotCurrent /\ CommandCurrent
  BY <1>1 DEF PauseInv
<1>3. MailboxCurrent'
  BY <1>2 DEF MailboxCurrent, Some
<1>4. SnapshotCurrent'
  BY <1>2 DEF SnapshotCurrent, StatusKept, Some
<1>5. CommandCurrent'
  BY <1>2 DEF CommandCurrent, ActionKept
<1>6. ShownCurrent'
  BY <1>1 DEF ShownCurrent
<1> QED
  BY <1>3, <1>4, <1>5, <1>6

LEMMA StatusReadStep ==
  ASSUME Types, PauseInv, StatusRead
  PROVE  Types' /\ PauseInv'
<1> DEFINE idle == IdleStatus(status.failed)
           overtaken == status.gen # statusGen
           peers == IF mailbox.total = None THEN status.peers ELSE Value(mailbox.total)
           g == [gui EXCEPT !.peers = peers, !.warning = status.warning]
<1>1. /\ status.step = "read"
      /\ UNCHANGED <<node, owed, changes, mailbox, statusGen, netGen, delivery, action>>
  BY DEF StatusRead, nodeVars, boxVars
<1>2. \/ /\ gui.shutdown
         /\ status' = [idle EXCEPT !.again = status.again] /\ gui' = gui
      \/ /\ ~gui.shutdown
         /\ gui' = IF status.active # None /\ NetworkCurrent
                   THEN [g EXCEPT !.known = TRUE, !.pause = ~Value(status.active)] ELSE g
         /\ status' = IF status.again \/ overtaken
                      THEN RefreshedStatus(idle, gui, gui.ready) ELSE idle
  BY DEF StatusRead
<1>3. /\ status \in StatusType /\ gui \in GuiType /\ mailbox \in MailboxType
      /\ status.failed \in BOOLEAN /\ status.again \in BOOLEAN /\ gui.ready \in BOOLEAN
      /\ mailbox.total \in Optional(0..1) /\ status.active \in Optional(BOOLEAN)
      /\ status.peers \in 0..1 /\ status.warning \in 0..1
  BY TypesParts DEF KnownStatus, StatusType, GuiType, MailboxType
<1>4. KnownStatus(idle) /\ idle.step = "idle"
  BY <1>3, IdleStatusKnown
<1>5. peers \in 0..1
  BY <1>3, OptionalValue
<1> HIDE DEF idle, overtaken, peers
<1>6. g \in GuiType /\ g.known = gui.known /\ g.pause = gui.pause
        /\ g.shutdown = gui.shutdown /\ g.stopping = gui.stopping
  BY <1>3, <1>5 DEF GuiType
<1> HIDE DEF g
<1>7. KnownStatus(status') /\ StatusKept
  <2>1. CASE gui.shutdown
    BY <1>2, <1>3, <1>4, <2>1 DEF KnownStatus, StatusType, StatusKept
  <2>2. CASE ~gui.shutdown /\ (status.again \/ overtaken)
    <3>1. status' = RefreshedStatus(idle, gui, gui.ready)
      BY <1>2, <2>2
    <3> QED
      BY <1>3, <1>4, <3>1, RefreshedStatusFacts DEF StatusKept
  <2>3. CASE ~gui.shutdown /\ ~(status.again \/ overtaken)
    BY <1>2, <1>4, <2>3 DEF StatusKept
  <2> QED
    BY <2>1, <2>2, <2>3
<1>8. CASE ~gui.shutdown /\ status.active # None /\ NetworkCurrent
  <2>1. gui' = [g EXCEPT !.known = TRUE, !.pause = ~Value(status.active)]
    BY <1>2, <1>8
  <2>2. Value(status.active) \in BOOLEAN
    BY <1>3, <1>8, OptionalValue
  <2>3. gui' \in GuiType /\ gui'.pause = ~Value(status.active)
    BY <1>6, <2>1, <2>2 DEF GuiType
  <2>4. Types'
    BY <1>1, <1>7, <2>3, TypesParts, TypesFrame
  <2>5. ~ChangeOwed => gui'.pause = ~node.active
    <3>1. ~ChangeOwed => status.active = Some(node.active)
      BY <1>1, <1>8 DEF PauseInv, SnapshotCurrent, NetworkCurrent
    <3>2. Value(Some(node.active)) = node.active
      BY TypesParts, OptionalValue DEF NodeType
    <3> QED
      BY <2>3, <3>1, <3>2
  <2> QED
    BY <1>1, <1>7, <2>4, <2>5, StutterKept, ShowingKeepsPause
<1>9. CASE ~(~gui.shutdown /\ status.active # None /\ NetworkCurrent)
  <2>1. gui' = g \/ gui' = gui
    BY <1>2, <1>9
  <2>2. gui' \in GuiType /\ GuiKept
    BY <1>3, <1>6, <2>1 DEF GuiKept, Accepting
  <2> QED
    BY <1>1, <1>7, <2>2, TypesParts, TypesFrame, StutterKept, PauseFrame
<1> QED
  BY <1>8, <1>9

LEMMA StatusFailedStep ==
  ASSUME Types, PauseInv, StatusFailed
  PROVE  Types' /\ PauseInv'
<1>1. /\ status' = IF status.again THEN RefreshedStatus(IdleStatus(TRUE), gui, gui.ready)
                   ELSE IdleStatus(TRUE)
      /\ UNCHANGED <<node, owed, changes, mailbox, statusGen, netGen, delivery, gui, action>>
  BY DEF StatusFailed, nodeVars, boxVars
<1>2. gui \in GuiType /\ gui.ready \in BOOLEAN
  BY TypesParts DEF GuiType
<1>3. KnownStatus(IdleStatus(TRUE)) /\ IdleStatus(TRUE).step = "idle"
  BY IdleStatusKnown
<1>4. KnownStatus(status') /\ StatusKept
  <2>1. CASE status.again
    BY <1>1, <1>2, <1>3, <2>1, RefreshedStatusFacts DEF StatusKept
  <2>2. CASE ~status.again
    BY <1>1, <1>3, <2>2 DEF StatusKept
  <2> QED
    BY <2>1, <2>2
<1> QED
  BY <1>1, <1>4, TypesParts, TypesFrame, StutterKept, PauseFrame

LEMMA ReadCountsStep ==
  ASSUME Types, PauseInv, ReadCounts
  PROVE  Types' /\ PauseInv'
<1>1. /\ status' = [status EXCEPT !.step = "counted", !.peers = node.peers,
                                  !.warning = node.warning]
      /\ UNCHANGED <<node, owed, changes, mailbox, statusGen, netGen, delivery, gui, action>>
  BY DEF ReadCounts, nodeVars, boxVars
<1>2. node.peers \in 0..1 /\ node.warning \in 0..1
  BY TypesParts DEF NodeType
<1>3. KnownStatus(status') /\ StatusKept
  BY <1>1, <1>2, TypesParts DEF KnownStatus, StatusType, StatusKept
<1> QED
  BY <1>1, <1>3, TypesParts, TypesFrame, StutterKept, PauseFrame

\* The value read last is the node's; so is the shown one that it may replace.
LEMMA ReadActiveStep ==
  ASSUME Types, PauseInv, ReadActive
  PROVE  Types' /\ PauseInv'
<1> DEFINE a == IF status.ready THEN Some(node.active) ELSE None
<1>1. /\ status' = [status EXCEPT !.step = "read", !.active = a]
      /\ UNCHANGED <<node, owed, changes, mailbox, statusGen, netGen, delivery, gui, action>>
  BY DEF ReadActive, nodeVars, boxVars
<1>2. a \in Optional(BOOLEAN) /\ (a # None => a = Some(node.active))
  BY TypesParts, OptionalValue DEF NodeType
<1> HIDE DEF a
<1>3. KnownStatus(status') /\ status'.active = a
  BY <1>1, <1>2, TypesParts DEF KnownStatus, StatusType
<1>4. Types'
  BY <1>1, <1>3, TypesParts, TypesFrame
<1>5. SnapshotCurrent'
  BY <1>1, <1>2, <1>3 DEF SnapshotCurrent, Some
<1>6. /\ ChangeOwed' <=> ChangeOwed
      /\ MailboxCurrent' <=> MailboxCurrent
      /\ CommandCurrent' <=> CommandCurrent
      /\ ShownCurrent' <=> ShownCurrent
  BY <1>1 DEF ChangeOwed, MailboxCurrent, CommandCurrent, ShownCurrent, Accepting, Some
<1> QED
  BY <1>4, <1>5, <1>6 DEF PauseInv

\* The steps of the command that show nothing.
LEMMA SetPauseStep ==
  ASSUME Types, PauseInv, NEW pause \in BOOLEAN, SetPause(pause)
  PROVE  Types' /\ PauseInv'
<1>1. /\ changes + action.requests < MaxEvents
      /\ UNCHANGED <<node, owed, changes, mailbox, statusGen, netGen, delivery, gui, status>>
  BY DEF SetPause, nodeVars, boxVars
<1>2. \/ action' = [action EXCEPT !.desired = pause, !.requests = @ + 1]
      \/ /\ action.step = "idle"
         /\ action' = [action EXCEPT !.desired = pause, !.requests = @ + 1, !.error = FALSE,
                                     !.requested = pause, !.step = "submitted"]
  BY DEF SetPause
<1>3. action \in ActionType /\ action.requests + 1 \in 0..MaxEvents
  <2>1. /\ action \in ActionType /\ action.requests \in 0..MaxEvents
        /\ changes \in 0..MaxEvents
    BY DEF Types, ActionType
  <2> QED
    BY <1>1, <2>1, BoundsAssumption
<1>4. action' \in ActionType /\ action'.gen = action.gen /\ ActionKept
  <2>1. CASE action' = [action EXCEPT !.desired = pause, !.requests = @ + 1]
    BY <1>3, <2>1 DEF ActionType, ActionKept
  <2>2. CASE /\ action.step = "idle"
             /\ action' = [action EXCEPT !.desired = pause, !.requests = @ + 1, !.error = FALSE,
                                         !.requested = pause, !.step = "submitted"]
    BY <1>3, <2>2 DEF ActionType, ActionKept
  <2> QED
    BY <1>2, <2>1, <2>2
<1> QED
  BY <1>1, <1>4, TypesParts, TypesFrame, StutterKept, PauseFrame

LEMMA ActionFailedStep ==
  ASSUME Types, PauseInv, ActionFailed
  PROVE  Types' /\ PauseInv'
<1>1. /\ action.step = "submitted" /\ action' = [IdleAction EXCEPT !.error = TRUE]
      /\ UNCHANGED <<node, owed, changes, mailbox, statusGen, netGen, delivery, gui, status>>
  BY DEF ActionFailed, nodeVars, boxVars
<1>2. action' \in ActionType /\ action'.gen = 0 /\ action'.step = "idle"
  BY <1>1, ContinuedFacts DEF ActionType
<1>3. ActionKept /\ action'.gen <= netGen
  BY <1>1, <1>2, TypesParts DEF ActionKept
<1> QED
  BY <1>1, <1>2, <1>3, TypesParts, TypesFrame, StutterKept, PauseFrame

LEMMA ReadGenerationStep ==
  ASSUME Types, PauseInv, ReadGeneration
  PROVE  Types' /\ PauseInv'
<1>1. /\ action.step = "set"
      /\ action' = [action EXCEPT !.step = "generation", !.gen = netGen]
      /\ UNCHANGED <<node, owed, changes, mailbox, statusGen, netGen, delivery, gui, status>>
  BY DEF ReadGeneration, nodeVars, boxVars
<1>2. action' \in ActionType /\ action'.gen = netGen /\ ActionKept
  BY <1>1, TypesParts DEF ActionType, ActionKept
<1>3. action'.gen <= netGen
  BY <1>2, TypesParts
<1> QED
  BY <1>1, <1>2, <1>3, TypesParts, TypesFrame, StutterKept, PauseFrame

\* The command sets what the node had already, or owes a notification.
LEMMA SetNetworkActiveStep ==
  ASSUME Types, PauseInv, SetNetworkActive
  PROVE  Types' /\ PauseInv'
<1>1. /\ action.step = "submitted"
      /\ node' = [node EXCEPT !.active = ~action.requested]
      /\ action' = [action EXCEPT !.step = IF node.active = action.requested THEN "notify" ELSE "set"]
      /\ UNCHANGED <<owed, changes, mailbox, statusGen, netGen, delivery, gui, status>>
  BY DEF SetNetworkActive, boxVars
<1>2. /\ node \in NodeType /\ action \in ActionType
      /\ node.active \in BOOLEAN /\ action.requested \in BOOLEAN
  BY TypesParts DEF NodeType, ActionType
<1>3. node' \in NodeType /\ node'.active = ~action.requested
  BY <1>1, <1>2 DEF NodeType
<1>4. /\ action' \in ActionType /\ action'.gen = action.gen
      /\ node.active = action.requested => action'.step = "notify"
      /\ node.active # action.requested => action'.step = "set"
  BY <1>1, <1>2 DEF ActionType
<1>5. Types'
  BY <1>1, <1>3, <1>4, TypesParts, TypesFrame
<1>6. CASE node.active = action.requested
  BY <1>4, <1>5, <1>6 DEF PauseInv, ChangeOwed
<1>7. CASE node.active # action.requested
  <2>1. node'.active = node.active
    BY <1>2, <1>3, <1>7
  <2>2. ActionKept
    BY <1>1, <1>4, <1>7 DEF ActionKept
  <2> QED
    BY <1>1, <1>5, <2>1, <2>2, StutterKept, PauseFrame
<1> QED
  BY <1>6, <1>7

\* The command reads the node after its generation.
LEMMA ReadPausedStep ==
  ASSUME Types, PauseInv, ReadPaused
  PROVE  Types' /\ PauseInv'
<1>1. /\ action.step = "generation"
      /\ action' = [action EXCEPT !.step = "done", !.paused = ~node.active]
      /\ UNCHANGED <<node, owed, changes, mailbox, statusGen, netGen, delivery, gui, status>>
  BY DEF ReadPaused, nodeVars, boxVars
<1>2. node.active \in BOOLEAN
  BY TypesParts DEF NodeType
<1>3. /\ action' \in ActionType /\ action'.gen = action.gen /\ action'.step = "done"
      /\ action'.paused = ~node.active
  BY <1>1, <1>2, TypesParts DEF ActionType
<1>4. Types'
  BY <1>1, <1>3, TypesParts, TypesFrame
<1>5. CommandCurrent'
  BY <1>1, <1>3 DEF CommandCurrent
<1>6. /\ ChangeOwed' <=> ChangeOwed
      /\ MailboxCurrent' <=> MailboxCurrent
      /\ SnapshotCurrent' <=> SnapshotCurrent
      /\ ShownCurrent' <=> ShownCurrent
  BY <1>1, <1>3 DEF ChangeOwed, MailboxCurrent, SnapshotCurrent, ShownCurrent, Accepting, Some
<1> QED
  BY <1>4, <1>5, <1>6 DEF PauseInv

LEMMA ActionCompletedStep ==
  ASSUME Types, PauseInv, ActionCompleted
  PROVE  Types' /\ PauseInv'
<1>1. /\ action.step = "done"
      /\ UNCHANGED <<node, owed, changes, statusGen, netGen, delivery>>
  BY DEF ActionCompleted, nodeVars
<1>2. /\ gui \in GuiType /\ gui.ready \in BOOLEAN /\ action.paused \in BOOLEAN
      /\ netGen \in Nat
  BY TypesParts DEF GuiType, ActionType
<1>3. CASE gui.shutdown
  <2>1. /\ action' = [IdleAction EXCEPT !.step = "abandoned"]
        /\ UNCHANGED <<mailbox, gui, status>>
    BY <1>3 DEF ActionCompleted
  <2>2. action' \in ActionType /\ action'.gen = 0 /\ action'.step = "abandoned"
    BY <2>1, ContinuedFacts DEF ActionType
  <2>3. ActionKept /\ action'.gen <= netGen
    BY <1>1, <1>2, <2>2 DEF ActionKept
  <2> QED
    BY <1>1, <2>1, <2>2, <2>3, TypesParts, TypesFrame, StutterKept, PauseFrame
<1>4. CASE ~gui.shutdown /\ action.gen = netGen
  <2>1. /\ gui' = [gui EXCEPT !.known = TRUE, !.pause = action.paused]
        /\ action' = Continued(TRUE)
        /\ UNCHANGED <<mailbox, status>>
    BY <1>4 DEF ActionCompleted
  <2>2. /\ action' \in ActionType /\ action'.gen = 0
        /\ action'.step \in {"idle", "submitted"}
    BY <2>1, ContinuedFacts
  <2>3. ActionKept /\ action'.gen <= netGen
    BY <1>1, <1>2, <2>2 DEF ActionKept
  <2>4. gui' \in GuiType /\ gui'.pause = action.paused
    BY <1>2, <2>1 DEF GuiType
  <2>5. ~ChangeOwed => gui'.pause = ~node.active
    BY <1>1, <1>4, <2>4 DEF PauseInv, CommandCurrent
  <2> QED
    BY <1>1, <2>1, <2>2, <2>3, <2>4, <2>5, TypesParts, TypesFrame, StutterKept, ShowingKeepsPause
<1>5. CASE ~gui.shutdown /\ action.gen # netGen
  <2> DEFINE st == PublishedStatus(gui, gui.ready)
  <2>1. /\ mailbox' = PublishedMailbox /\ gui' = PublishedGui(gui)
        /\ status' = RefreshedStatus(st, gui, gui.ready)
        /\ action' = Continued(FALSE)
    BY <1>5 DEF ActionCompleted
  <2>2. /\ action' \in ActionType /\ action'.gen = 0
        /\ action'.step \in {"idle", "submitted"}
    BY <2>1, ContinuedFacts
  <2>3. ActionKept /\ action'.gen <= netGen
    BY <1>1, <1>2, <2>2 DEF ActionKept
  <2>4. /\ KnownStatus(st)
        /\ st.step = "read" =>
             status.step = "read" /\ st.active = status.active /\ st.netGen = status.netGen
    BY <1>2, PublishedStatusFacts
  <2> HIDE DEF st
  <2>5. KnownStatus(status') /\ StatusKept
    BY <1>2, <2>1, <2>4, RefreshedStatusFacts DEF StatusKept
  <2>6. mailbox' \in MailboxType /\ gui' \in GuiType
    BY <1>2, <2>1, PublishedFacts
  <2>7. Types'
    BY <1>1, <2>2, <2>3, <2>5, <2>6, TypesParts, TypesFrame
  <2> QED
    BY <1>1, <1>2, <2>1, <2>3, <2>5, <2>7, PublicationKeepsPause
<1> QED
  BY <1>3, <1>4, <1>5

----------------------------------------------------------------------------
(* The theorem *)

\* The invariant says what the property says, and more.
LEMMA PauseIsCurrent == Types /\ PauseInv => NodeStatusIsCurrent
<1>1. PauseInv => KnownPauseIsCurrent
  BY DEF PauseInv, ChangeOwed, ShownCurrent, KnownPauseIsCurrent
<1> QED
  BY <1>1, TypesImplyTypeOK DEF NodeStatusIsCurrent

LEMMA InitPause == StatusInit => PauseInv
  BY DEF StatusInit, IdleStatus, PauseInv, MailboxCurrent, SnapshotCurrent, CommandCurrent,
         ShownCurrent, None

LEMMA NextPause == Types /\ PauseInv /\ [StatusNext]_statusVars => Types' /\ PauseInv'
<1> SUFFICES ASSUME Types, PauseInv, [StatusNext]_statusVars PROVE Types' /\ PauseInv'
  OBVIOUS
<1>1. CASE UNCHANGED statusVars
  <2>1. UNCHANGED <<node, owed, changes, mailbox, statusGen, netGen, delivery, gui, status, action>>
    BY <1>1 DEF statusVars
  <2> QED
    BY <2>1, TypesParts, TypesFrame, StutterKept, PauseFrame
<1>2. CASE \E kind \in Kinds : NodeChanges(kind) \/ Notify(kind)
  BY <1>2, NodeChangesStep, NotifyStep
<1>3. CASE BeginDelivery \/ RequestShutdown \/ BeginShutdown
  BY <1>3, LifeCycleStep
<1>4. CASE Publish
  BY <1>4, PublishStep
<1>5. CASE Initialized
  BY <1>5, InitializedStep
<1>6. CASE StatusRead
  BY <1>6, StatusReadStep
<1>7. CASE StatusFailed
  BY <1>7, StatusFailedStep
<1>8. CASE \E pause \in BOOLEAN : SetPause(pause)
  BY <1>8, SetPauseStep
<1>9. CASE ActionCompleted
  BY <1>9, ActionCompletedStep
<1>10. CASE ActionFailed
  BY <1>10, ActionFailedStep
<1>11. CASE TaskStep
  BY <1>11, ReadCountsStep, ReadActiveStep, SetNetworkActiveStep, NotifyOwnChangeStep,
     ReadGenerationStep, ReadPausedStep DEF TaskStep
<1> QED
  BY <1>1, <1>2, <1>3, <1>4, <1>5, <1>6, <1>7, <1>8, <1>9, <1>10, <1>11 DEF StatusNext

\* However snapshots, commands and notifications of the node interleave with
\* refreshStatus, submitNetworkAction and publishNotifications, no late
\* result puts an older value of the network activity over a newer one, for
\* any number of changes and of setPause calls, with failures or without.
THEOREM PauseStaysCurrent == StatusSpec => []NodeStatusIsCurrent
<1>1. StatusInit => Types /\ PauseInv
  BY StatusInitType, InitPause
<1>2. Types /\ PauseInv /\ [StatusNext]_statusVars => (Types /\ PauseInv)'
  BY NextPause
<1>3. Types /\ PauseInv => NodeStatusIsCurrent
  BY PauseIsCurrent
<1> QED
  BY <1>1, <1>2, <1>3, PTL DEF StatusSpec

=============================================================================
