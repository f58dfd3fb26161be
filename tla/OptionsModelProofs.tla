------------------------- MODULE OptionsModelProofs -------------------------
(***************************************************************************)
(* What the user sees of a setting follows the newest edit, and failures   *)
(* are shown, for any settings and any number of edits, data directory     *)
(* selections, validations and saves by the wallet code.                   *)
(*                                                                         *)
(* The argument follows the commands on their way: they are the newest     *)
(* ones, in the order of their revisions and behind every data directory   *)
(* selection (OrderInv, CountInv); the answer of the newest one has the    *)
(* values that are saved (GoodResult); and the last edit of a setting that *)
(* is not yet saved has the value that is shown (SaveInv).                 *)
(***************************************************************************)
EXTENDS OptionsModel, SequenceTheorems, TLAPS

Bits == {0, 1}
TaskType ==
  [kind : {"command", "dir", "validate"},
   what : Keys \cup {"load", "default", "other"} \cup Paths, value : Bits, rev : Nat]
ResultType ==
  [task : TaskType, error : BOOLEAN, threw : BOOLEAN, shown : [Keys -> Bits], dir : Dirs]
GuiType ==
  [shown : [Keys -> Bits], ready : BOOLEAN, stopping : BOOLEAN, pending : Nat, rev : Nat,
   error : BOOLEAN, used : Nat, failed : BOOLEAN, threw : BOOLEAN]
DirType == [saved : Dirs, shown : Dirs, pending : BOOLEAN]
SignerType ==
  [requested : Paths, rev : Nat, pending : BOOLEAN, inFlight : BOOLEAN,
   validated : Paths \cup {"none"}, error : {"none", "bad", "unable"}, threw : BOOLEAN]
WorkerType == [step : {"idle", "changed", "read"}, before : Bits, error : BOOLEAN]

Types ==
  /\ saved \in [Keys \cup {WalletKey} -> Bits] /\ file \in [Keys \cup {WalletKey} -> Bits]
  /\ live \in [LiveKeys -> Bits] /\ outcome \in [Keys -> {"none", "saved", "failed"}]
  /\ gui \in GuiType /\ dir \in DirType /\ signer \in SignerType /\ worker \in WorkerType
  /\ tasks \in Seq(TaskType) /\ done \in Seq(ResultType)

----------------------------------------------------------------------------
(* The invariant *)

\* Everything on its way, to the worker or back
Waiting == {done[i].task : i \in DOMAIN done} \cup {tasks[i] : i \in DOMAIN tasks}

GoodTask(t) ==
  /\ t.kind = "command" => t.what \in Keys \cup {"load"}
  /\ t.kind = "dir" => t.what \in {"default", "other"}
  /\ t.kind = "validate" =>
       t.rev <= signer.rev /\ (t.rev = signer.rev => t.what = signer.requested)

\* The answer of the newest command shows what is saved.
GoodResult(r) ==
  /\ GoodTask(r.task)
  /\ r.task.kind = "validate" => (r.error <=> r.task.what = "bad")
  /\ r.task.kind = "command" /\ r.task.rev = gui.rev =>
       \A k \in Keys : r.shown[k] = saved[k]

AcceptedTasks == {tasks[i] : i \in DOMAIN tasks}
Answers == {done[i] : i \in DOMAIN done}

QueueInv ==
  /\ \A t \in AcceptedTasks : GoodTask(t)
  /\ \A r \in Answers : GoodResult(r)
  /\ gui.stopping => done = <<>>

\* Of two tasks, t was submitted before u: commands are numbered, and no data
\* directory is selected while a command waits.
Before(t, u) ==
  t.kind = "command" => u.kind # "dir" /\ (u.kind = "command" => t.rev < u.rev)

OrderInv ==
  /\ \A i, j \in DOMAIN tasks : i < j => Before(tasks[i], tasks[j])
  /\ \A i, j \in DOMAIN done : i < j => Before(done[i].task, done[j].task)
  /\ \A i \in DOMAIN done, j \in DOMAIN tasks : Before(done[i].task, tasks[j])

\* The commands on their way are the newest ones.
CountInv ==
  ~gui.stopping =>
    {t.rev : t \in Unanswered} = (gui.rev - gui.pending + 1)..gui.rev

\* The node knows what is saved, except of a setting that is being saved.
WorkerInv ==
  /\ worker.step # "idle" => tasks # <<>> /\ Now.kind = "command"
  /\ worker.step = "changed" =>
       /\ Now.what \in CoreKeys \cup SessionKeys
       /\ saved[Now.what] = Now.value
       /\ Now.what \in LiveKeys => worker.before = live[Now.what]
  /\ \A k \in LiveKeys :
       live[k] = saved[k] \/ (worker.step = "changed" /\ Now.what = k)

\* Where in tasks the edits of k are that the worker has not saved
Unsaved(k) ==
  {i \in DOMAIN tasks : /\ tasks[i].kind = "command" /\ tasks[i].what = k
                        /\ ~(i = 1 /\ worker.step = "read")}

SaveInv ==
  \A k \in Keys :
    /\ Unsaved(k) = {} /\ outcome[k] = "saved" => saved[k] = gui.shown[k]
    /\ Unsaved(k) # {} =>
         \E i \in Unsaved(k) : /\ \A j \in Unsaved(k) : j <= i
                               /\ tasks[i].value = gui.shown[k]

ShownInv ==
  gui.ready /\ ~gui.stopping /\ gui.pending = 0 /\ ~gui.threw =>
    \A k \in Keys : gui.shown[k] = saved[k]

\* A data directory selection, whose answer may clear the error, is answered
\* before any command of the group.
FailureInv ==
  gui.pending > 0 =>
    /\ gui.failed => gui.error
    /\ ~gui.stopping /\ (\E t \in Waiting : t.kind = "dir") => ~gui.failed

OptionsInv ==
  /\ Types /\ QueueInv /\ OrderInv /\ CountInv /\ WorkerInv /\ SaveInv /\ ShownInv
  /\ FailureInv /\ NewestEditIsShown /\ ValidationIsForNewestPath

----------------------------------------------------------------------------
(* Queues *)

LEMMA AppendSeq ==
  ASSUME NEW S, NEW s \in Seq(S), NEW e \in S
  PROVE  /\ Append(s, e) \in Seq(S)
         /\ Len(s) \in Nat /\ DOMAIN s = 1..Len(s)
         /\ DOMAIN Append(s, e) = 1..(Len(s) + 1)
         /\ Append(s, e)[Len(s) + 1] = e
         /\ \A i \in DOMAIN s : Append(s, e)[i] = s[i]
  BY AppendProperties, LenProperties

LEMMA TailSeq ==
  ASSUME NEW S, NEW s \in Seq(S), s # <<>>
  PROVE  /\ Tail(s) \in Seq(S) /\ Head(s) \in S /\ 1 \in DOMAIN s /\ Head(s) = s[1]
         /\ \A i \in DOMAIN s : i \in Nat /\ i >= 1
         /\ \A i \in DOMAIN Tail(s) : i \in Nat /\ i + 1 \in DOMAIN s /\ Tail(s)[i] = s[i + 1]
         /\ \A i \in DOMAIN s : i # 1 => i - 1 \in DOMAIN Tail(s) /\ Tail(s)[i - 1] = s[i]
<1>1. /\ Len(s) \in Nat /\ Len(s) >= 1 /\ DOMAIN s = 1..Len(s) /\ Tail(s) \in Seq(S)
      /\ Head(s) = s[1] /\ Head(s) \in S /\ DOMAIN Tail(s) = 1..(Len(s) - 1)
      /\ \A i \in 1..(Len(s) - 1) : Tail(s)[i] = s[i + 1]
  BY LenProperties, HeadTailProperties, EmptySeq
<1> QED
  BY <1>1

----------------------------------------------------------------------------
(* Steps of the queues *)

\* A task is accepted.
Accepted(t) ==
  /\ t \in TaskType /\ tasks' = Append(tasks, t) /\ done' = done

\* The worker finishes one.
Finished(r) ==
  /\ tasks # <<>> /\ tasks' = Tail(tasks)
  /\ r \in ResultType /\ r.task = Now
  /\ done' = IF gui.stopping THEN <<>> ELSE Append(done, r)

\* Its answer is delivered.
Delivered == done # <<>> /\ done' = Tail(done) /\ tasks' = tasks

LEMMA AcceptedFacts ==
  ASSUME Types, NEW t, Accepted(t)
  PROVE  /\ tasks' \in Seq(TaskType) /\ done' \in Seq(ResultType)
         /\ DOMAIN tasks' = DOMAIN tasks \cup {Len(tasks) + 1}
         /\ tasks'[Len(tasks) + 1] = t /\ \A i \in DOMAIN tasks : tasks'[i] = tasks[i]
         /\ Len(tasks) \in Nat /\ DOMAIN tasks = 1..Len(tasks)
         /\ Waiting' = Waiting \cup {t}
<1>1. t \in TaskType /\ tasks \in Seq(TaskType) /\ done \in Seq(ResultType)
  BY DEF Accepted, Types
<1>2. /\ tasks' \in Seq(TaskType) /\ Len(tasks) \in Nat /\ DOMAIN tasks = 1..Len(tasks)
      /\ DOMAIN tasks' = 1..(Len(tasks) + 1)
      /\ tasks'[Len(tasks) + 1] = t /\ \A i \in DOMAIN tasks : tasks'[i] = tasks[i]
  BY <1>1, AppendSeq DEF Accepted
<1>3. DOMAIN tasks' = DOMAIN tasks \cup {Len(tasks) + 1}
  BY <1>2
<1>4. done' = done
  BY DEF Accepted
<1>5. {tasks'[i] : i \in DOMAIN tasks'} = {tasks[i] : i \in DOMAIN tasks} \cup {t}
  BY <1>2, <1>3
<1> QED
  BY <1>1, <1>2, <1>3, <1>4, <1>5 DEF Waiting

LEMMA FinishedFacts ==
  ASSUME Types, NEW r, Finished(r)
  PROVE  /\ tasks' \in Seq(TaskType) /\ done' \in Seq(ResultType)
         /\ 1 \in DOMAIN tasks /\ Now = tasks[1] /\ Now \in TaskType
         /\ \A i \in DOMAIN tasks : i \in Nat /\ i >= 1
         /\ \A i \in DOMAIN tasks' :
              i \in Nat /\ i >= 1 /\ i + 1 \in DOMAIN tasks /\ tasks'[i] = tasks[i + 1]
         /\ \A i \in DOMAIN tasks :
              i # 1 => i - 1 \in DOMAIN tasks' /\ tasks'[i - 1] = tasks[i]
         /\ gui.stopping => done' = <<>> /\ DOMAIN done' = {}
         /\ ~gui.stopping =>
              /\ DOMAIN done' = DOMAIN done \cup {Len(done) + 1}
              /\ done'[Len(done) + 1] = r /\ \A i \in DOMAIN done : done'[i] = done[i]
              /\ Len(done) \in Nat /\ DOMAIN done = 1..Len(done)
              /\ Waiting' = Waiting
<1>1. /\ r \in ResultType /\ tasks \in Seq(TaskType) /\ done \in Seq(ResultType)
      /\ tasks # <<>> /\ tasks' = Tail(tasks) /\ r.task = Now
      /\ gui.stopping => done' = <<>>
      /\ ~gui.stopping => done' = Append(done, r)
  BY DEF Finished, Types
<1>2. /\ tasks' \in Seq(TaskType) /\ 1 \in DOMAIN tasks /\ Now = tasks[1] /\ Now \in TaskType
      /\ \A i \in DOMAIN tasks : i \in Nat /\ i >= 1
      /\ \A i \in DOMAIN tasks' : i \in Nat /\ i + 1 \in DOMAIN tasks /\ tasks'[i] = tasks[i + 1]
      /\ \A i \in DOMAIN tasks : i # 1 => i - 1 \in DOMAIN tasks' /\ tasks'[i - 1] = tasks[i]
  BY <1>1, TailSeq DEF Now
<1>3. \A i \in DOMAIN tasks' : i >= 1
  BY <1>2, LenProperties
<1>4. CASE gui.stopping
  <2>1. done' = <<>>
    BY <1>1, <1>4
  <2>2. done' \in Seq(ResultType) /\ DOMAIN done' = {}
    BY <2>1
  <2> QED
    BY <1>2, <1>3, <1>4, <2>1, <2>2
<1>5. CASE ~gui.stopping
  <2>1. /\ done' \in Seq(ResultType) /\ Len(done) \in Nat /\ DOMAIN done = 1..Len(done)
        /\ DOMAIN done' = 1..(Len(done) + 1)
        /\ done'[Len(done) + 1] = r /\ \A i \in DOMAIN done : done'[i] = done[i]
    <3>1. r \in ResultType /\ done \in Seq(ResultType) /\ done' = Append(done, r)
      BY <1>1, <1>5
    <3> QED
      BY <3>1, AppendSeq
  <2>2. DOMAIN done' = DOMAIN done \cup {Len(done) + 1}
    BY <2>1
  <2>3. {done'[i].task : i \in DOMAIN done'} = {done[i].task : i \in DOMAIN done} \cup {Now}
    <3>1. done'[Len(done) + 1].task = Now
      BY <1>1, <2>1
    <3>2. \A i \in DOMAIN done : done'[i].task = done[i].task
      BY <2>1
    <3> QED
      BY <3>1, <3>2, <2>2
  <2>4. {tasks[i] : i \in DOMAIN tasks} = {tasks'[i] : i \in DOMAIN tasks'} \cup {Now}
    <3>1. \A i \in DOMAIN tasks : i = 1 \/ tasks[i] \in {tasks'[j] : j \in DOMAIN tasks'}
      BY <1>2
    <3>2. \A j \in DOMAIN tasks' : tasks'[j] \in {tasks[i] : i \in DOMAIN tasks}
      BY <1>2
    <3> QED
      BY <1>2, <3>1, <3>2
  <2>5. Waiting' = Waiting
    BY <2>3, <2>4 DEF Waiting
  <2> QED
    BY <1>2, <1>3, <1>5, <2>1, <2>2, <2>5
<1> QED
  BY <1>4, <1>5

LEMMA DeliveredFacts ==
  ASSUME Types, Delivered
  PROVE  /\ done' \in Seq(ResultType)
         /\ 1 \in DOMAIN done /\ Answer = done[1] /\ Answer \in ResultType
         /\ \A i \in DOMAIN done : i \in Nat /\ i >= 1
         /\ \A i \in DOMAIN done' :
              i \in Nat /\ i >= 1 /\ i + 1 \in DOMAIN done /\ done'[i] = done[i + 1]
         /\ Waiting = Waiting' \cup {Answer.task}
<1>1. done \in Seq(ResultType) /\ done # <<>> /\ done' = Tail(done) /\ tasks' = tasks
  BY DEF Delivered, Types
<1>2. /\ done' \in Seq(ResultType) /\ 1 \in DOMAIN done /\ Answer = done[1]
      /\ Answer \in ResultType
      /\ \A i \in DOMAIN done : i \in Nat /\ i >= 1
      /\ \A i \in DOMAIN done' : i \in Nat /\ i + 1 \in DOMAIN done /\ done'[i] = done[i + 1]
      /\ \A i \in DOMAIN done : i # 1 => i - 1 \in DOMAIN done' /\ done'[i - 1] = done[i]
  BY <1>1, TailSeq DEF Answer
<1>3. \A i \in DOMAIN done' : i >= 1
  BY <1>2, LenProperties
<1>4. {done[i].task : i \in DOMAIN done} = {done'[i].task : i \in DOMAIN done'} \cup {Answer.task}
  <2>1. \A i \in DOMAIN done : i = 1 \/ done[i].task \in {done'[j].task : j \in DOMAIN done'}
    BY <1>2
  <2>2. \A j \in DOMAIN done' : done'[j].task \in {done[i].task : i \in DOMAIN done}
    BY <1>2
  <2> QED
    BY <1>2, <2>1, <2>2
<1>5. Waiting = Waiting' \cup {Answer.task}
  BY <1>1, <1>4 DEF Waiting
<1> QED
  BY <1>2, <1>3, <1>5

\* The same, for what is in the queues
LEMMA AcceptedSets ==
  ASSUME Types, NEW t, Accepted(t)
  PROVE  AcceptedTasks' = AcceptedTasks \cup {t} /\ Answers' = Answers
<1>1. Answers' = Answers
  BY DEF Accepted, Answers
<1> QED
  BY <1>1, AcceptedFacts DEF AcceptedTasks

LEMMA FinishedSets ==
  ASSUME Types, NEW r, Finished(r)
  PROVE  /\ AcceptedTasks' \subseteq AcceptedTasks /\ Now \in AcceptedTasks
         /\ Answers' \subseteq Answers \cup {r}
<1>1. AcceptedTasks' \subseteq AcceptedTasks /\ Now \in AcceptedTasks
  BY FinishedFacts DEF AcceptedTasks
<1>2. CASE gui.stopping
  <2>1. DOMAIN done' = {}
    BY <1>2, FinishedFacts
  <2> QED
    BY <1>1, <2>1 DEF Answers
<1>3. CASE ~gui.stopping
  <2>1. /\ DOMAIN done' = DOMAIN done \cup {Len(done) + 1} /\ done'[Len(done) + 1] = r
        /\ \A i \in DOMAIN done : done'[i] = done[i]
    BY <1>3, FinishedFacts
  <2> QED
    BY <1>1, <2>1 DEF Answers
<1> QED
  BY <1>2, <1>3

LEMMA DeliveredSets ==
  ASSUME Types, Delivered
  PROVE  Answers' \subseteq Answers /\ AcceptedTasks' = AcceptedTasks /\ Answer \in Answers
<1>1. AcceptedTasks' = AcceptedTasks
  BY DEF Delivered, AcceptedTasks
<1> QED
  BY <1>1, DeliveredFacts DEF Answers

LEMMA OrderAccepted ==
  ASSUME OptionsInv, NEW t, Accepted(t), \A u \in Waiting : Before(u, t)
  PROVE  OrderInv'
<1>1. /\ DOMAIN tasks' = DOMAIN tasks \cup {Len(tasks) + 1}
      /\ tasks'[Len(tasks) + 1] = t /\ \A i \in DOMAIN tasks : tasks'[i] = tasks[i]
      /\ Len(tasks) \in Nat /\ DOMAIN tasks = 1..Len(tasks)
  BY AcceptedFacts DEF OptionsInv
<1>2. done' = done
  BY DEF Accepted
<1>3. \A i \in DOMAIN tasks : Before(tasks[i], t)
  BY DEF Waiting
<1>4. \A i \in DOMAIN done : Before(done[i].task, t)
  BY DEF Waiting
<1>5. \A i, j \in DOMAIN tasks' : i < j => Before(tasks'[i], tasks'[j])
  BY <1>1, <1>3 DEF OptionsInv, OrderInv
<1>6. \A i \in DOMAIN done', j \in DOMAIN tasks' : Before(done'[i].task, tasks'[j])
  BY <1>1, <1>2, <1>4 DEF OptionsInv, OrderInv
<1> QED
  BY <1>2, <1>5, <1>6 DEF OptionsInv, OrderInv

LEMMA OrderFinished ==
  ASSUME OptionsInv, NEW r, Finished(r)
  PROVE  OrderInv'
<1>1. /\ 1 \in DOMAIN tasks /\ Now = tasks[1]
      /\ \A i \in DOMAIN tasks' :
           i \in Nat /\ i >= 1 /\ i + 1 \in DOMAIN tasks /\ tasks'[i] = tasks[i + 1]
      /\ gui.stopping => DOMAIN done' = {}
      /\ ~gui.stopping =>
           /\ DOMAIN done' = DOMAIN done \cup {Len(done) + 1}
           /\ done'[Len(done) + 1] = r /\ \A i \in DOMAIN done : done'[i] = done[i]
           /\ Len(done) \in Nat /\ DOMAIN done = 1..Len(done)
  BY FinishedFacts DEF OptionsInv
<1>2. r.task = tasks[1]
  BY <1>1 DEF Finished
<1>3. \A i, j \in DOMAIN tasks' : i < j => Before(tasks'[i], tasks'[j])
  <2> SUFFICES ASSUME NEW i \in DOMAIN tasks', NEW j \in DOMAIN tasks', i < j
               PROVE  Before(tasks'[i], tasks'[j])
    OBVIOUS
  <2>1. i + 1 \in DOMAIN tasks /\ j + 1 \in DOMAIN tasks /\ i + 1 < j + 1
    BY <1>1
  <2> QED
    BY <1>1, <2>1 DEF OptionsInv, OrderInv
<1>4. \A j \in DOMAIN tasks' : Before(tasks[1], tasks'[j])
  <2> SUFFICES ASSUME NEW j \in DOMAIN tasks' PROVE Before(tasks[1], tasks'[j])
    OBVIOUS
  <2>1. j + 1 \in DOMAIN tasks /\ 1 < j + 1
    BY <1>1
  <2> QED
    BY <1>1, <2>1 DEF OptionsInv, OrderInv
<1>5. CASE gui.stopping
  BY <1>1, <1>3, <1>5 DEF OrderInv
<1>6. CASE ~gui.stopping
  <2>1. \A i \in DOMAIN done : Before(done[i].task, tasks[1])
    BY <1>1 DEF OptionsInv, OrderInv
  <2>2. \A i, j \in DOMAIN done' : i < j => Before(done'[i].task, done'[j].task)
    BY <1>1, <1>2, <1>6, <2>1 DEF OptionsInv, OrderInv
  <2>3. \A i \in DOMAIN done, j \in DOMAIN tasks' : Before(done[i].task, tasks'[j])
    BY <1>1 DEF OptionsInv, OrderInv
  <2>4. \A i \in DOMAIN done', j \in DOMAIN tasks' : Before(done'[i].task, tasks'[j])
    BY <1>1, <1>2, <1>4, <1>6, <2>3
  <2> QED
    BY <1>3, <2>2, <2>4 DEF OrderInv
<1> QED
  BY <1>5, <1>6

LEMMA OrderDelivered ==
  ASSUME OptionsInv, Delivered
  PROVE  OrderInv'
<1>1. /\ \A i \in DOMAIN done' :
           i \in Nat /\ i >= 1 /\ i + 1 \in DOMAIN done /\ done'[i] = done[i + 1]
  BY DeliveredFacts DEF OptionsInv
<1>2. tasks' = tasks
  BY DEF Delivered
<1>3. \A i, j \in DOMAIN done' : i < j => Before(done'[i].task, done'[j].task)
  <2> SUFFICES ASSUME NEW i \in DOMAIN done', NEW j \in DOMAIN done', i < j
               PROVE  Before(done'[i].task, done'[j].task)
    OBVIOUS
  <2>1. i + 1 \in DOMAIN done /\ j + 1 \in DOMAIN done /\ i + 1 < j + 1
    BY <1>1
  <2> QED
    BY <1>1, <2>1 DEF OptionsInv, OrderInv
<1>4. \A i \in DOMAIN done', j \in DOMAIN tasks : Before(done'[i].task, tasks[j])
  BY <1>1 DEF OptionsInv, OrderInv
<1> QED
  BY <1>2, <1>3, <1>4 DEF OptionsInv, OrderInv

----------------------------------------------------------------------------
(* The commands on their way *)

LEMMA UnansweredParts ==
  /\ \A t : t \in Unanswered <=> t \in Waiting /\ t.kind = "command"
  /\ \A t : t \in Unanswered' <=> t \in Waiting' /\ t.kind = "command"
  BY DEF Unanswered, Waiting

LEMMA CommandsKept ==
  ASSUME CountInv, NewestEditIsShown,
         ~gui'.stopping =>
           /\ Unanswered' = Unanswered /\ ~gui.stopping
           /\ gui'.shown = gui.shown /\ gui'.rev = gui.rev /\ gui'.pending = gui.pending
  PROVE  CountInv' /\ NewestEditIsShown'
<1>1. CASE gui'.stopping
  BY <1>1 DEF CountInv, NewestEditIsShown
<1>2. CASE ~gui'.stopping
  <2>1. CountInv'
    BY <1>2 DEF CountInv
  <2>2. \A k : EditsOf(k)' = EditsOf(k)
    BY <1>2 DEF EditsOf
  <2> QED
    BY <1>2, <2>1, <2>2 DEF NewestEditIsShown
<1> QED
  BY <1>1, <1>2

\* A command that is submitted is the newest one.
LEMMA CommandAccepted ==
  ASSUME OptionsInv, ~gui.stopping, NEW k \in Keys, NEW t, Accepted(t),
         t.kind = "command", t.what = k, t.rev = gui.rev + 1,
         gui'.rev = gui.rev + 1, gui'.pending = gui.pending + 1,
         \A j \in Keys : j # k => gui'.shown[j] = gui.shown[j],
         gui'.shown[k] = t.value
  PROVE  CountInv' /\ NewestEditIsShown' /\ \A u \in Waiting : Before(u, t)
<1>1. gui.rev \in Nat /\ gui.pending \in Nat
  BY DEF OptionsInv, Types, GuiType
<1>2. {u.rev : u \in Unanswered} = (gui.rev - gui.pending + 1)..gui.rev
  BY DEF OptionsInv, CountInv
<1>3. \A u \in Unanswered : u.rev \in Int /\ u.rev <= gui.rev
  <2> TAKE u \in Unanswered
  <2>1. u.rev \in (gui.rev - gui.pending + 1)..gui.rev
    BY <1>2
  <2> QED
    BY <1>1, <2>1
<1>4. Waiting' = Waiting \cup {t}
  BY AcceptedFacts DEF OptionsInv
<1>5. Unanswered' = Unanswered \cup {t}
  BY <1>4, UnansweredParts
<1>6. CountInv'
  <2>1. {u.rev : u \in Unanswered'} = {u.rev : u \in Unanswered} \cup {t.rev}
    BY <1>5
  <2>2. {u.rev : u \in Unanswered'} = (gui.rev - gui.pending + 1)..gui.rev \cup {gui.rev + 1}
    BY <1>2, <2>1
  <2>3. gui'.rev - gui'.pending + 1 = gui.rev - gui.pending + 1
    BY <1>1
  <2>4. (gui.rev - gui.pending + 1)..(gui.rev + 1)
          = (gui.rev - gui.pending + 1)..gui.rev \cup {gui.rev + 1}
    BY <1>1
  <2> QED
    BY <2>2, <2>3, <2>4 DEF CountInv
<1>7. NewestEditIsShown'
  <2> SUFFICES ASSUME NEW j \in Keys, EditsOf(j)' # {}
               PROVE  \E u \in EditsOf(j)' : /\ \A w \in EditsOf(j)' : w.rev <= u.rev
                                             /\ gui'.shown[j] = u.value
    BY DEF NewestEditIsShown
  <2>1. CASE j = k
    <3>1. t \in EditsOf(k)'
      BY <1>5 DEF EditsOf
    <3>2. \A w \in EditsOf(k)' : w.rev <= t.rev
      BY <1>1, <1>3, <1>5 DEF EditsOf
    <3> QED
      BY <2>1, <3>1, <3>2
  <2>2. CASE j # k
    <3>1. EditsOf(j)' = EditsOf(j)
      BY <1>5, <2>2 DEF EditsOf
    <3>2. \E u \in EditsOf(j) : /\ \A w \in EditsOf(j) : w.rev <= u.rev
                                /\ gui.shown[j] = u.value
      BY <3>1 DEF OptionsInv, NewestEditIsShown
    <3> QED
      BY <2>2, <3>1, <3>2
  <2> QED
    BY <2>1, <2>2
<1>8. \A u \in Waiting : Before(u, t)
  BY <1>1, <1>3, UnansweredParts DEF Before
<1> QED
  BY <1>6, <1>7, <1>8

\* The command that is answered is the oldest one; when it is the newest one
\* as well, no command is left.
LEMMA CommandAnswered ==
  ASSUME OptionsInv, Delivered, Answer.task.kind = "command", ~gui.stopping
  PROVE  /\ gui.pending \in Nat /\ gui.pending >= 1 /\ gui.rev \in Nat
         /\ Answer.task.rev = gui.rev - gui.pending + 1
         /\ \A u \in Waiting' : u.kind # "dir"
         /\ Unanswered' = Unanswered \ {Answer.task}
         /\ {u.rev : u \in Unanswered'} = (gui.rev - gui.pending + 2)..gui.rev
<1>1. gui.rev \in Nat /\ gui.pending \in Nat
  BY DEF OptionsInv, Types, GuiType
<1> DEFINE h == Answer.task
<1>2. /\ 1 \in DOMAIN done /\ Answer = done[1] /\ h \in TaskType
      /\ \A i \in DOMAIN done' :
           i \in Nat /\ i >= 1 /\ i + 1 \in DOMAIN done /\ done'[i] = done[i + 1]
      /\ Waiting = Waiting' \cup {h}
  BY DeliveredFacts DEF OptionsInv, ResultType
<1>3. tasks' = tasks
  BY DEF Delivered
<1>4. \A u \in Waiting' : Before(h, u)
  <2>1. \A i \in DOMAIN done' : Before(h, done'[i].task)
    <3> TAKE i \in DOMAIN done'
    <3>1. i + 1 \in DOMAIN done /\ 1 < i + 1 /\ done'[i] = done[i + 1]
      BY <1>2
    <3> QED
      BY <3>1, <1>2 DEF OptionsInv, OrderInv
  <2>2. \A i \in DOMAIN tasks' : Before(h, tasks'[i])
    BY <1>2, <1>3 DEF OptionsInv, OrderInv
  <2> QED
    BY <2>1, <2>2 DEF Waiting
<1>5. h \in Unanswered /\ h.rev \in Nat
  BY <1>2, UnansweredParts DEF TaskType
<1>6. \A u \in Unanswered' : u \in Unanswered /\ h.rev < u.rev
  BY <1>2, <1>4, UnansweredParts DEF Before
<1>7. Unanswered' = Unanswered \ {h}
  <2>1. h \notin Unanswered'
    BY <1>5, <1>6
  <2>2. \A u \in Unanswered : u = h \/ u \in Unanswered'
    BY <1>2, UnansweredParts
  <2> QED
    BY <1>6, <2>1, <2>2
<1>8. {u.rev : u \in Unanswered} = (gui.rev - gui.pending + 1)..gui.rev
  BY DEF OptionsInv, CountInv
<1>9. h.rev \in (gui.rev - gui.pending + 1)..gui.rev
  BY <1>5, <1>8
<1>10. gui.pending >= 1 /\ gui.rev - gui.pending + 1 \in (gui.rev - gui.pending + 1)..gui.rev
  BY <1>1, <1>9
<1>11. h.rev = gui.rev - gui.pending + 1
  <2>1. PICK u \in Unanswered : u.rev = gui.rev - gui.pending + 1
    BY <1>8, <1>10
  <2>2. u = h \/ h.rev < u.rev
    BY <1>6, <1>7
  <2> QED
    BY <1>1, <1>9, <2>1, <2>2
<1>12. {u.rev : u \in Unanswered'} = (gui.rev - gui.pending + 2)..gui.rev
  <2>1. \A u \in Unanswered' : u.rev \in (gui.rev - gui.pending + 2)..gui.rev
    <3> TAKE u \in Unanswered'
    <3>1. u.rev \in (gui.rev - gui.pending + 1)..gui.rev /\ h.rev < u.rev
      BY <1>6, <1>8
    <3> QED
      BY <1>1, <1>11, <3>1
  <2>2. ASSUME NEW n \in (gui.rev - gui.pending + 2)..gui.rev
        PROVE  n \in {u.rev : u \in Unanswered'}
    <3>1. n \in (gui.rev - gui.pending + 1)..gui.rev /\ n # h.rev
      BY <1>1, <1>11
    <3>2. PICK u \in Unanswered : u.rev = n
      BY <1>8, <3>1
    <3>3. u \in Unanswered'
      BY <1>7, <3>1, <3>2
    <3> QED
      BY <3>2, <3>3
  <2> QED
    BY <2>1, <2>2
<1>13. \A u \in Waiting' : u.kind # "dir"
  BY <1>4 DEF Before
<1> QED
  BY <1>1, <1>7, <1>10, <1>11, <1>12, <1>13

----------------------------------------------------------------------------
(* Steps of the GUI thread that edit nothing *)

LEMMA KeyFacts ==
  /\ LiveKeys \subseteq Keys /\ WalletKey \notin Keys /\ "load" \notin Keys
  /\ GuiKeys \subseteq Keys /\ GuiKeys \cap LiveKeys = {}
  /\ CoreKeys \cup SessionKeys \subseteq Keys
  BY KeysAssumption DEF Keys

SameGui ==
  /\ gui'.shown = gui.shown /\ gui'.ready = gui.ready /\ gui'.pending = gui.pending
  /\ gui'.rev = gui.rev /\ gui'.threw = gui.threw
  /\ ~gui'.stopping => ~gui.stopping

\* What the worker has been given stays where it is, and at most tasks that are
\* no commands are added.
TasksKept ==
  /\ \A i \in DOMAIN tasks : i \in DOMAIN tasks' /\ tasks'[i] = tasks[i]
  /\ \A i \in DOMAIN tasks' : i \in DOMAIN tasks \/ tasks'[i].kind # "command"
  /\ tasks # <<>> => tasks' # <<>> /\ Now' = Now

LEMMA SameTasks == ASSUME tasks' = tasks PROVE TasksKept
  BY DEF TasksKept, Now

LEMMA HeadStays ==
  ASSUME Types, NEW t, Accepted(t), tasks # <<>>
  PROVE  tasks' # <<>> /\ Now' = Now
<1>1. tasks \in Seq(TaskType) /\ tasks' \in Seq(TaskType)
  BY AcceptedFacts DEF Types
<1>2. 1 \in DOMAIN tasks /\ Head(tasks) = tasks[1]
  BY <1>1, TailSeq
<1>3. 1 \in DOMAIN tasks' /\ tasks'[1] = tasks[1]
  BY <1>2, AcceptedFacts
<1>4. tasks' # <<>>
  BY <1>3
<1>5. Head(tasks') = tasks'[1]
  BY <1>1, <1>4, TailSeq
<1> QED
  BY <1>2, <1>3, <1>4, <1>5 DEF Now

LEMMA OtherAccepted ==
  ASSUME Types, NEW t, Accepted(t), t.kind # "command"
  PROVE  TasksKept /\ Unanswered' = Unanswered
<1>1. TasksKept
  BY AcceptedFacts, HeadStays DEF TasksKept
<1>2. Waiting' = Waiting \cup {t}
  BY AcceptedFacts
<1> QED
  BY <1>1, <1>2, UnansweredParts

LEMMA WorkerFrame ==
  ASSUME WorkerInv, worker' = worker, live' = live, \A k \in Keys : saved'[k] = saved[k],
         tasks # <<>> => tasks' # <<>> /\ Now' = Now
  PROVE  WorkerInv'
<1>1. worker.step # "idle" => tasks' # <<>> /\ Now' = Now
  BY DEF WorkerInv
<1>2. worker'.step # "idle" => tasks' # <<>> /\ Now'.kind = "command"
  BY <1>1 DEF WorkerInv
<1>3. worker'.step = "changed" =>
       /\ Now'.what \in CoreKeys \cup SessionKeys
       /\ saved'[Now'.what] = Now'.value
       /\ Now'.what \in LiveKeys => worker'.before = live'[Now'.what]
  BY <1>1, KeyFacts DEF WorkerInv
<1>4. \A k \in LiveKeys :
       live'[k] = saved'[k] \/ (worker'.step = "changed" /\ Now'.what = k)
  BY <1>1, KeyFacts DEF WorkerInv
<1> QED
  BY <1>2, <1>3, <1>4 DEF WorkerInv

LEMMA GuiKeeps ==
  ASSUME OptionsInv, UNCHANGED <<live, worker, outcome>>, \A k \in Keys : saved'[k] = saved[k],
         SameGui, TasksKept, ~gui'.stopping => Unanswered' = Unanswered,
         Types', QueueInv', OrderInv', FailureInv', ValidationIsForNewestPath'
  PROVE  OptionsInv'
<1>1. CountInv' /\ NewestEditIsShown'
  BY CommandsKept DEF OptionsInv, SameGui
<1>2. WorkerInv'
  BY WorkerFrame DEF OptionsInv, TasksKept
<1>3. SaveInv'
  <2>1. \A k : Unsaved(k)' = Unsaved(k)
    BY DEF Unsaved, TasksKept
  <2>2. \A k \in Keys : \A i \in Unsaved(k) : tasks'[i] = tasks[i]
    BY DEF Unsaved, TasksKept
  <2> QED
    BY <2>1, <2>2 DEF OptionsInv, SaveInv, SameGui
<1>4. ShownInv'
  BY DEF OptionsInv, ShownInv, SameGui
<1> QED
  BY <1>1, <1>2, <1>3, <1>4 DEF OptionsInv

\* A task and a result stay good while the validation requests and what they
\* refer to are the same.
LEMMA ResultKept ==
  ASSUME NEW r, GoodResult(r), signer' = signer, gui'.rev = gui.rev,
         \A k \in Keys : saved'[k] = saved[k]
  PROVE  GoodResult(r)'
  BY DEF GoodResult, GoodTask

LEMMA DeliveredQueue ==
  ASSUME OptionsInv, Delivered, signer' = signer, gui'.rev = gui.rev, saved' = saved,
         gui'.stopping = gui.stopping
  PROVE  QueueInv' /\ ~gui.stopping /\ GoodResult(Answer)
<1>1. Answers' \subseteq Answers /\ AcceptedTasks' = AcceptedTasks /\ Answer \in Answers
  BY DeliveredSets DEF OptionsInv
<1>2. ~gui.stopping
  BY DEF Delivered, OptionsInv, QueueInv
<1>3. \A r \in Answers' : GoodResult(r)'
  BY <1>1, ResultKept DEF OptionsInv, QueueInv
<1>4. \A t \in AcceptedTasks' : GoodTask(t)'
  BY <1>1 DEF OptionsInv, QueueInv, GoodTask
<1> QED
  BY <1>1, <1>2, <1>3, <1>4 DEF QueueInv, OptionsInv

LEMMA SelectDirKeeps ==
  ASSUME OptionsInv, NEW d \in {"default", "other"}, SelectDir(d)
  PROVE  OptionsInv'
<1> DEFINE t == Task("dir", d, 0, 0)
<1>1. /\ dir' = [dir EXCEPT !.pending = TRUE]
      /\ gui' = [gui EXCEPT !.used = @ + 1, !.error = IF d = "default" THEN @ ELSE FALSE]
      /\ tasks' = Append(tasks, t) /\ done' = done
      /\ UNCHANGED <<saved, file, live, worker, outcome>> /\ signer' = signer
      /\ gui.pending = 0 /\ ~gui.stopping
  BY DEF SelectDir, stores, MaySelectDir
<1>2. gui \in GuiType /\ dir \in DirType
  BY DEF OptionsInv, Types
<1>3. /\ gui' \in GuiType /\ dir' \in DirType /\ SameGui
      /\ gui'.stopping = gui.stopping /\ gui'.pending = 0
  <2>1. PICK error \in BOOLEAN, used \in Nat : gui' = [gui EXCEPT !.used = used, !.error = error]
    <3>1. gui.error \in BOOLEAN /\ gui.used + 1 \in Nat
      BY <1>2 DEF GuiType
    <3>2. CASE d = "default"
      <4>1. gui' = [gui EXCEPT !.used = gui.used + 1, !.error = gui.error]
        BY <1>1, <1>2, <3>2 DEF GuiType
      <4> QED
        BY <3>1, <4>1
    <3>3. CASE d # "default"
      <4>1. gui' = [gui EXCEPT !.used = gui.used + 1, !.error = FALSE]
        BY <1>1, <3>3
      <4> QED
        BY <3>1, <4>1
    <3> QED
      BY <3>2, <3>3
  <2>2. dir' \in DirType
    BY <1>1, <1>2 DEF DirType
  <2>3. gui' \in GuiType /\ SameGui /\ gui'.stopping = gui.stopping /\ gui'.pending = gui.pending
    BY <1>2, <2>1 DEF GuiType, SameGui
  <2> QED
    BY <1>1, <2>2, <2>3
<1>4. t \in TaskType /\ t.kind = "dir" /\ t.what = d
  BY DEF Task, TaskType, Bits
<1>5. Accepted(t)
  BY <1>1, <1>4 DEF Accepted
<1> HIDE DEF t
<1>6. TasksKept /\ Unanswered' = Unanswered
  BY <1>4, <1>5, OtherAccepted DEF OptionsInv
<1>7. \A u \in Waiting : u.kind # "command"
  <2>1. gui.rev \in Nat /\ {u.rev : u \in Unanswered} = (gui.rev - 0 + 1)..gui.rev
    BY <1>1, <1>2 DEF OptionsInv, CountInv, GuiType
  <2>2. Unanswered = {}
    BY <2>1
  <2> QED
    BY <2>2, UnansweredParts
<1>8. OrderInv'
  BY <1>5, <1>7, OrderAccepted DEF Before
<1>9. Types'
  BY <1>1, <1>3, <1>5, AcceptedFacts DEF OptionsInv, Types
<1>10. QueueInv'
  <2>1. AcceptedTasks' = AcceptedTasks \cup {t} /\ Answers' = Answers
    BY <1>5, AcceptedSets DEF OptionsInv
  <2>2. \A r \in Answers' : GoodResult(r)'
    BY <1>1, <2>1, <1>3, ResultKept DEF OptionsInv, QueueInv, SameGui
  <2>3. \A u \in AcceptedTasks' : GoodTask(u)'
    BY <1>1, <1>4, <2>1 DEF OptionsInv, QueueInv, GoodTask
  <2> QED
    BY <1>1, <1>3, <2>2, <2>3 DEF QueueInv
<1>11. FailureInv'
  BY <1>3 DEF FailureInv
<1>12. ValidationIsForNewestPath'
  BY <1>1 DEF OptionsInv, ValidationIsForNewestPath, ValidationError
<1> QED
  BY <1>1, <1>3, <1>6, <1>8, <1>9, <1>10, <1>11, <1>12, GuiKeeps

LEMMA RequestValidationKeeps ==
  ASSUME OptionsInv, NEW p \in Paths, RequestValidation(p)
  PROVE  OptionsInv'
<1> DEFINE t == Task("validate", p, 0, signer.rev + 1)
<1>1. /\ signer' = [signer EXCEPT !.requested = p, !.rev = @ + 1, !.pending = TRUE,
                                  !.inFlight = TRUE, !.error = "none", !.threw = FALSE]
      /\ gui' = [gui EXCEPT !.used = @ + 1]
      /\ UNCHANGED <<saved, file, live, worker, outcome>> /\ dir' = dir /\ done' = done
      /\ tasks' = IF signer.inFlight THEN tasks ELSE SubmitValidation(signer')
      /\ ~gui.stopping
  BY DEF RequestValidation, stores
<1>2. gui \in GuiType /\ signer \in SignerType
  BY DEF OptionsInv, Types
<1>3. gui' \in GuiType /\ SameGui /\ gui'.stopping = gui.stopping
  BY <1>1, <1>2 DEF GuiType, SameGui
<1>4. /\ signer' \in SignerType /\ signer.rev \in Nat /\ signer'.rev = signer.rev + 1
      /\ signer'.requested = p /\ signer'.pending = TRUE
  <2>1. PICK rev \in Nat : rev = signer.rev + 1
    BY <1>2 DEF SignerType
  <2>2. signer' = [signer EXCEPT !.requested = p, !.rev = rev, !.pending = TRUE,
                                 !.inFlight = TRUE, !.error = "none", !.threw = FALSE]
    BY <1>1, <2>1
  <2> QED
    BY <1>2, <2>1, <2>2 DEF SignerType
<1>5. t \in TaskType /\ t.kind = "validate" /\ t.what = p /\ t.rev = signer.rev + 1
  BY <1>4 DEF Task, TaskType, Bits
<1>6. tasks' = tasks \/ Accepted(t)
  BY <1>1, <1>4, <1>5 DEF SubmitValidation, Accepted
<1> HIDE DEF t
<1>7. TasksKept /\ Unanswered' = Unanswered
  <2>1. CASE tasks' = tasks
    BY <1>1, <2>1, SameTasks DEF Unanswered
  <2>2. CASE Accepted(t)
    BY <1>5, <2>2, OtherAccepted DEF OptionsInv
  <2> QED
    BY <1>6, <2>1, <2>2
<1>8. OrderInv'
  <2>1. CASE tasks' = tasks
    BY <1>1, <2>1 DEF OptionsInv, OrderInv
  <2>2. \A u \in Waiting : Before(u, t)
    BY <1>5 DEF Before
  <2> QED
    BY <1>6, <2>1, <2>2, OrderAccepted
<1>9. tasks' \in Seq(TaskType) /\ AcceptedTasks' \subseteq AcceptedTasks \cup {t}
  BY <1>6, AcceptedFacts, AcceptedSets DEF OptionsInv, Types, AcceptedTasks
<1>10. Types'
  BY <1>1, <1>3, <1>4, <1>9 DEF OptionsInv, Types
<1>11. \A u \in TaskType : GoodTask(u) => GoodTask(u)'
  <2> SUFFICES ASSUME NEW u \in TaskType, GoodTask(u) PROVE GoodTask(u)'
    OBVIOUS
  <2>1. u.rev \in Nat
    BY DEF TaskType
  <2> QED
    BY <1>4, <2>1 DEF GoodTask
<1>12. AcceptedTasks \subseteq TaskType /\ \A r \in Answers : r.task \in TaskType
  <2>1. tasks \in Seq(TaskType) /\ done \in Seq(ResultType)
    BY DEF OptionsInv, Types
  <2>2. \A i \in DOMAIN tasks : tasks[i] \in TaskType
    BY <2>1, LenProperties, ElementOfSeq
  <2>3. \A i \in DOMAIN done : done[i] \in ResultType
    BY <2>1, LenProperties, ElementOfSeq
  <2> QED
    BY <2>2, <2>3 DEF AcceptedTasks, Answers, ResultType
<1>13. QueueInv'
  <2>1. Answers' = Answers
    BY <1>1 DEF Answers
  <2>2. \A r \in Answers' : GoodResult(r)'
    BY <1>1, <1>3, <1>11, <1>12, <2>1 DEF OptionsInv, QueueInv, GoodResult, SameGui
  <2>3. \A u \in AcceptedTasks' : GoodTask(u)'
    BY <1>4, <1>5, <1>9, <1>11, <1>12 DEF OptionsInv, QueueInv, GoodTask
  <2> QED
    BY <1>1, <1>3, <2>2, <2>3 DEF QueueInv
<1>14. FailureInv'
  <2>1. gui'.failed = gui.failed /\ gui'.error = gui.error
    BY <1>1, <1>2 DEF GuiType
  <2>2. (\E u \in Waiting' : u.kind = "dir") => \E u \in Waiting : u.kind = "dir"
    <3>1. CASE tasks' = tasks
      BY <1>1, <3>1 DEF Waiting
    <3>2. CASE Accepted(t)
      BY <1>5, <3>2, AcceptedFacts DEF OptionsInv
    <3> QED
      BY <1>6, <3>1, <3>2
  <2> QED
    BY <1>3, <2>1, <2>2 DEF OptionsInv, FailureInv, SameGui
<1>15. ValidationIsForNewestPath'
  BY <1>4 DEF ValidationIsForNewestPath
<1> QED
  BY <1>1, <1>3, <1>7, <1>8, <1>10, <1>13, <1>14, <1>15, GuiKeeps

LEMMA BeginShutdownKeeps ==
  ASSUME OptionsInv, BeginShutdown
  PROVE  OptionsInv'
<1>1. /\ gui' = [gui EXCEPT !.stopping = TRUE] /\ done' = <<>> /\ tasks' = tasks
      /\ UNCHANGED <<saved, file, live, worker, outcome>> /\ dir' = dir /\ signer' = signer
  BY DEF BeginShutdown, stores
<1>2. gui \in GuiType
  BY DEF OptionsInv, Types
<1>3. /\ gui' \in GuiType /\ SameGui /\ gui'.stopping
      /\ gui'.failed = gui.failed /\ gui'.error = gui.error
  BY <1>1, <1>2 DEF GuiType, SameGui
<1>4. done' \in Seq(ResultType) /\ DOMAIN done' = {}
  BY <1>1
<1>5. Types'
  BY <1>1, <1>3, <1>4 DEF OptionsInv, Types
<1>6. OrderInv'
  BY <1>1, <1>4 DEF OptionsInv, OrderInv
<1>7. QueueInv'
  <2>1. Answers' = {} /\ AcceptedTasks' = AcceptedTasks
    BY <1>1, <1>4 DEF Answers, AcceptedTasks
  <2> QED
    BY <1>1, <2>1 DEF OptionsInv, QueueInv, GoodTask
<1>8. FailureInv'
  BY <1>3 DEF OptionsInv, FailureInv, SameGui
<1>9. ValidationIsForNewestPath'
  BY <1>1 DEF OptionsInv, ValidationIsForNewestPath, ValidationError
<1> QED
  BY <1>1, <1>3, <1>5, <1>6, <1>7, <1>8, <1>9, SameTasks, GuiKeeps

LEMMA WalletSavesKeeps ==
  ASSUME OptionsInv, WalletSaves
  PROVE  OptionsInv'
<1>1. /\ saved' = [saved EXCEPT ![WalletKey] = 1] /\ file' = SettingsFile(saved')
      /\ UNCHANGED <<live, worker, outcome>> /\ gui' = gui /\ dir' = dir /\ signer' = signer
      /\ tasks' = tasks /\ done' = done
  BY DEF WalletSaves
<1>2. /\ saved \in [Keys \cup {WalletKey} -> Bits] /\ file \in [Keys \cup {WalletKey} -> Bits]
  BY DEF OptionsInv, Types
<1>3. /\ saved' \in [Keys \cup {WalletKey} -> Bits] /\ \A k \in Keys : saved'[k] = saved[k]
  BY <1>1, <1>2, KeyFacts DEF Bits
<1>4. file' \in [Keys \cup {WalletKey} -> Bits]
  BY <1>1, <1>2, <1>3 DEF SettingsFile
<1>5. Types'
  BY <1>1, <1>3, <1>4 DEF OptionsInv, Types
<1>6. OrderInv' /\ Unanswered' = Unanswered /\ Waiting' = Waiting
  BY <1>1 DEF OptionsInv, OrderInv, Unanswered, Waiting
<1>7. QueueInv'
  <2>1. Answers' = Answers /\ AcceptedTasks' = AcceptedTasks
    BY <1>1 DEF Answers, AcceptedTasks
  <2>2. \A r \in Answers' : GoodResult(r)'
    BY <1>1, <1>3, <2>1, ResultKept DEF OptionsInv, QueueInv
  <2> QED
    BY <1>1, <2>1, <2>2 DEF OptionsInv, QueueInv, GoodTask
<1>8. FailureInv' /\ SameGui
  BY <1>1, <1>6 DEF OptionsInv, FailureInv, SameGui
<1>9. ValidationIsForNewestPath'
  BY <1>1 DEF OptionsInv, ValidationIsForNewestPath, ValidationError
<1> QED
  BY <1>1, <1>3, <1>5, <1>6, <1>7, <1>8, <1>9, SameTasks, GuiKeeps

LEMMA DirSelectedKeeps ==
  ASSUME OptionsInv, DirSelected
  PROVE  OptionsInv'
<1>1. /\ done # <<>> /\ Answer.task.kind = "dir" /\ done' = Tail(done) /\ tasks' = tasks
      /\ dir' = [dir EXCEPT !.pending = FALSE,
                            !.shown = IF Answer.error THEN @ ELSE Answer.task.what]
      /\ gui' = [gui EXCEPT !.error = Answer.error]
      /\ UNCHANGED <<saved, file, live, worker, outcome>> /\ signer' = signer
  BY DEF DirSelected, Answered, stores
<1>2. Delivered
  BY <1>1 DEF Delivered
<1>3. /\ gui \in GuiType /\ dir \in DirType
      /\ Answer \in ResultType /\ done' \in Seq(ResultType) /\ Waiting = Waiting' \cup {Answer.task}
  BY <1>2, DeliveredFacts DEF OptionsInv, Types
<1>4. gui' \in GuiType /\ SameGui /\ gui'.stopping = gui.stopping /\ gui'.failed = gui.failed
  <2>1. PICK error \in BOOLEAN : gui' = [gui EXCEPT !.error = error]
    BY <1>1, <1>3 DEF ResultType
  <2> QED
    BY <1>3, <2>1 DEF GuiType, SameGui
<1>5. QueueInv' /\ ~gui.stopping /\ GoodResult(Answer)
  BY <1>1, <1>2, <1>4, DeliveredQueue DEF SameGui
<1>6. dir' \in DirType
  <2>1. PICK shown \in Dirs : dir' = [dir EXCEPT !.pending = FALSE, !.shown = shown]
    <3>1. dir.shown \in Dirs /\ Answer.task.what \in Dirs
      BY <1>1, <1>3, <1>5 DEF GoodResult, GoodTask, DirType, Dirs
    <3>2. CASE Answer.error
      <4>1. dir' = [dir EXCEPT !.pending = FALSE, !.shown = dir.shown]
        BY <1>1, <1>3, <3>2 DEF DirType
      <4> QED
        BY <3>1, <4>1
    <3>3. CASE ~Answer.error
      BY <1>1, <3>1, <3>3
    <3> QED
      BY <3>2, <3>3
  <2> QED
    BY <1>3, <2>1 DEF DirType
<1>7. Types'
  BY <1>1, <1>3, <1>4, <1>6 DEF OptionsInv, Types
<1>8. TasksKept /\ Unanswered' = Unanswered
  BY <1>1, <1>3, SameTasks, UnansweredParts
<1>9. FailureInv'
  <2>1. gui.pending > 0 => ~gui.failed
    BY <1>1, <1>3, <1>5 DEF OptionsInv, FailureInv
  <2> QED
    BY <1>4, <2>1 DEF FailureInv, SameGui
<1>10. ValidationIsForNewestPath'
  BY <1>1 DEF OptionsInv, ValidationIsForNewestPath, ValidationError
<1> QED
  BY <1>1, <1>2, <1>4, <1>5, <1>7, <1>8, <1>9, <1>10, OrderDelivered, GuiKeeps

\* An answer is taken and another validation submitted.
LEMMA Resubmitted ==
  ASSUME OptionsInv, NEW t \in TaskType, t.kind = "validate", done # <<>>,
         Answer.task.kind # "command", done' = Tail(done), tasks' = Append(tasks, t)
  PROVE  /\ OrderInv' /\ TasksKept /\ Unanswered' = Unanswered /\ Waiting' \subseteq Waiting \cup {t}
         /\ tasks' \in Seq(TaskType) /\ done' \in Seq(ResultType)
         /\ AcceptedTasks' = AcceptedTasks \cup {t} /\ Answers' \subseteq Answers
<1>0. tasks \in Seq(TaskType) /\ done \in Seq(ResultType)
  BY DEF OptionsInv, Types
<1>1. /\ tasks' \in Seq(TaskType) /\ Len(tasks) \in Nat /\ DOMAIN tasks = 1..Len(tasks)
      /\ DOMAIN tasks' = 1..(Len(tasks) + 1)
      /\ tasks'[Len(tasks) + 1] = t /\ \A i \in DOMAIN tasks : tasks'[i] = tasks[i]
  BY <1>0, AppendSeq
<1>2. DOMAIN tasks' = DOMAIN tasks \cup {Len(tasks) + 1}
  BY <1>1
<1>3. /\ done' \in Seq(ResultType) /\ 1 \in DOMAIN done /\ Answer = done[1]
      /\ \A i \in DOMAIN done' : i \in Nat /\ i + 1 \in DOMAIN done /\ done'[i] = done[i + 1]
      /\ \A i \in DOMAIN done : i # 1 => i - 1 \in DOMAIN done' /\ done'[i - 1] = done[i]
  BY <1>0, TailSeq DEF Answer
<1>4. \A u : Before(u, t)
  BY DEF Before
<1>5. OrderInv'
  <2>1. \A i, j \in DOMAIN tasks' : i < j => Before(tasks'[i], tasks'[j])
    BY <1>1, <1>2, <1>4 DEF OptionsInv, OrderInv
  <2>2. \A i, j \in DOMAIN done' : i < j => Before(done'[i].task, done'[j].task)
    <3> SUFFICES ASSUME NEW i \in DOMAIN done', NEW j \in DOMAIN done', i < j
                 PROVE  Before(done'[i].task, done'[j].task)
      OBVIOUS
    <3>1. i + 1 \in DOMAIN done /\ j + 1 \in DOMAIN done /\ i + 1 < j + 1
      BY <1>3
    <3> QED
      BY <1>3, <3>1 DEF OptionsInv, OrderInv
  <2>3. \A i \in DOMAIN done', j \in DOMAIN tasks : Before(done'[i].task, tasks[j])
    BY <1>3 DEF OptionsInv, OrderInv
  <2>4. \A i \in DOMAIN done', j \in DOMAIN tasks' : Before(done'[i].task, tasks'[j])
    BY <1>1, <1>2, <1>4, <2>3
  <2> QED
    BY <2>1, <2>2, <2>4 DEF OrderInv
<1>6. TasksKept
  <2>1. tasks # <<>> => tasks' # <<>> /\ Now' = Now
    <3> SUFFICES ASSUME tasks # <<>> PROVE tasks' # <<>> /\ Now' = Now
      OBVIOUS
    <3>1. 1 \in DOMAIN tasks /\ Head(tasks) = tasks[1]
      BY <1>0, TailSeq
    <3>2. tasks' # <<>>
      BY <1>1, <3>1
    <3>3. Head(tasks') = tasks'[1]
      BY <1>1, <3>2, TailSeq
    <3> QED
      BY <1>1, <3>1, <3>2, <3>3 DEF Now
  <2> QED
    BY <1>1, <1>2, <2>1 DEF TasksKept
<1>7. AcceptedTasks' = AcceptedTasks \cup {t}
  BY <1>1, <1>2 DEF AcceptedTasks
<1>8. Answers' \subseteq Answers
  BY <1>3 DEF Answers
<1>9. /\ \A u : u \in Waiting <=> (\E r \in Answers : u = r.task) \/ u \in AcceptedTasks
      /\ \A u : u \in Waiting' <=> (\E r \in Answers' : u = r.task) \/ u \in AcceptedTasks'
  BY DEF Waiting, Answers, AcceptedTasks
<1>10. \A r \in Answers : r = Answer \/ r \in Answers'
  <2>1. \A i \in DOMAIN done : done[i] = Answer \/ \E j \in DOMAIN done' : done[i] = done'[j]
    <3> TAKE i \in DOMAIN done
    <3>1. CASE i = 1
      BY <1>3, <3>1
    <3>2. CASE i # 1
      <4>1. i - 1 \in DOMAIN done' /\ done'[i - 1] = done[i]
        BY <1>3, <3>2
      <4> QED
        BY <4>1
    <3> QED
      BY <3>1, <3>2
  <2> QED
    BY <2>1 DEF Answers
<1>11. Unanswered' = Unanswered
  BY <1>7, <1>8, <1>9, <1>10, UnansweredParts
<1> QED
  BY <1>1, <1>3, <1>5, <1>6, <1>7, <1>8, <1>9, <1>11

LEMMA ValidatedKeeps ==
  ASSUME OptionsInv, Validated
  PROVE  OptionsInv'
<1>1. /\ done # <<>> /\ Answer.task.kind = "validate" /\ done' = Tail(done)
      /\ UNCHANGED <<saved, file, live, worker, outcome>> /\ gui' = gui /\ dir' = dir
  BY DEF Validated, Answered, stores
<1>2. gui \in GuiType /\ signer \in SignerType
  BY DEF OptionsInv, Types
<1>3. ~gui.stopping
  BY <1>1 DEF OptionsInv, QueueInv
<1>4. SameGui
  BY <1>1 DEF SameGui
<1>5. CASE Outdated
  <2> DEFINE t == Task("validate", signer.requested, 0, signer.rev)
  <2>1. tasks' = Append(tasks, t) /\ signer' = signer
    BY <1>5 DEF Validated, SubmitValidation
  <2>2. /\ t \in TaskType /\ t.kind = "validate" /\ t.what = signer.requested
        /\ t.rev = signer.rev /\ signer.rev \in Nat
    BY <1>2 DEF Task, TaskType, SignerType, Bits
  <2> HIDE DEF t
  <2>3. /\ OrderInv' /\ TasksKept /\ Unanswered' = Unanswered
        /\ Waiting' \subseteq Waiting \cup {t}
        /\ tasks' \in Seq(TaskType) /\ done' \in Seq(ResultType)
        /\ AcceptedTasks' = AcceptedTasks \cup {t} /\ Answers' \subseteq Answers
    BY <1>1, <2>1, <2>2, Resubmitted
  <2>4. Types'
    BY <1>1, <2>1, <2>3 DEF OptionsInv, Types
  <2>5. QueueInv'
    <3>1. \A r \in Answers' : GoodResult(r)'
      BY <1>1, <2>1, <2>3, ResultKept DEF OptionsInv, QueueInv
    <3>2. \A u \in AcceptedTasks' : GoodTask(u)'
      BY <2>1, <2>2, <2>3 DEF OptionsInv, QueueInv, GoodTask
    <3> QED
      BY <1>1, <1>3, <3>1, <3>2 DEF QueueInv
  <2>6. FailureInv'
    BY <1>1, <2>2, <2>3 DEF OptionsInv, FailureInv
  <2>7. ValidationIsForNewestPath'
    BY <2>1 DEF OptionsInv, ValidationIsForNewestPath, ValidationError
  <2> QED
    BY <1>1, <1>4, <2>3, <2>4, <2>5, <2>6, <2>7, GuiKeeps
<1>6. CASE ~Outdated
  <2>1. /\ tasks' = tasks
        /\ signer' =
             [signer EXCEPT !.inFlight = FALSE, !.pending = FALSE,
                            !.validated = IF Answer.threw THEN @ ELSE Answer.task.what,
                            !.error = CASE Answer.threw -> "unable"
                                        [] Answer.error /\ ~Answer.threw -> "bad"
                                        [] OTHER -> "none",
                            !.threw = Answer.threw]
    BY <1>6 DEF Validated
  <2>2. Delivered
    BY <1>1, <2>1 DEF Delivered
  <2>3. /\ Answer \in ResultType /\ done' \in Seq(ResultType)
        /\ Waiting = Waiting' \cup {Answer.task}
    BY <2>2, DeliveredFacts DEF OptionsInv
  <2>4. /\ Answers' \subseteq Answers /\ AcceptedTasks' = AcceptedTasks /\ Answer \in Answers
    BY <2>2, DeliveredSets DEF OptionsInv
  <2>5. GoodResult(Answer)
    BY <2>4 DEF OptionsInv, QueueInv
  <2>6. /\ Answer.task.rev = signer.rev /\ Answer.task.what = signer.requested
        /\ Answer.error <=> signer.requested = "bad"
    BY <1>1, <1>6, <2>5 DEF Outdated, GoodResult, GoodTask
  <2>7. PICK threw \in BOOLEAN : threw = Answer.threw
    BY <2>3 DEF ResultType
  <2>8. PICK error \in {"none", "bad", "unable"} :
          error = CASE Answer.threw -> "unable"
                    [] Answer.error /\ ~Answer.threw -> "bad"
                    [] OTHER -> "none"
    OBVIOUS
  <2>9. PICK validated \in Paths \cup {"none"} :
          validated = IF Answer.threw THEN signer.validated ELSE signer.requested
    BY <1>2 DEF SignerType
  <2>10. signer' = [signer EXCEPT !.inFlight = FALSE, !.pending = FALSE,
                                  !.validated = validated, !.error = error, !.threw = threw]
    <3>1. [signer EXCEPT !.inFlight = FALSE, !.pending = FALSE].validated = signer.validated
      BY <1>2 DEF SignerType
    <3> QED
      BY <2>1, <2>6, <2>7, <2>8, <2>9, <3>1
  <2>11. /\ signer' \in SignerType /\ signer'.rev = signer.rev
         /\ signer'.requested = signer.requested /\ signer'.validated = validated
         /\ signer'.error = error /\ signer'.threw = threw
    BY <1>2, <2>10 DEF SignerType
  <2>12. Types'
    BY <1>1, <2>1, <2>3, <2>11 DEF OptionsInv, Types
  <2>13. QueueInv'
    <3>1. \A r \in Answers' : GoodResult(r)'
      BY <1>1, <2>4, <2>11 DEF OptionsInv, QueueInv, GoodResult, GoodTask
    <3>2. \A u \in AcceptedTasks' : GoodTask(u)'
      BY <2>4, <2>11 DEF OptionsInv, QueueInv, GoodTask
    <3> QED
      BY <1>1, <1>3, <3>1, <3>2 DEF QueueInv
  <2>14. FailureInv'
    BY <1>1, <2>3 DEF OptionsInv, FailureInv
  <2>15. ValidationIsForNewestPath'
    BY <2>6, <2>7, <2>8, <2>9, <2>11 DEF ValidationIsForNewestPath, ValidationError
  <2>16. TasksKept /\ Unanswered' = Unanswered
    BY <1>1, <2>1, <2>3, SameTasks, UnansweredParts
  <2> QED
    BY <1>1, <1>4, <2>2, <2>12, <2>13, <2>14, <2>15, <2>16, OrderDelivered, GuiKeeps
<1> QED
  BY <1>5, <1>6

----------------------------------------------------------------------------
(* Edits and their answers *)

LEMMA EditKeeps ==
  ASSUME OptionsInv, NEW k \in Keys, ~gui.stopping, Edit(k)
  PROVE  OptionsInv'
<1> DEFINE t == Task("command", k, gui'.shown[k], gui'.rev)
<1>1. /\ gui' = RanCommand([gui EXCEPT !.shown[k] = 1 - @, !.used = @ + 1])
      /\ tasks' = Append(tasks, t) /\ done' = done
      /\ UNCHANGED <<saved, file, live, worker, outcome>> /\ dir' = dir /\ signer' = signer
  BY DEF Edit, stores
<1>2. gui \in GuiType
  BY DEF OptionsInv, Types
<1>3. PICK shown \in [Keys -> Bits] : shown = [gui.shown EXCEPT ![k] = 1 - @]
  <2>1. gui.shown \in [Keys -> Bits] /\ 1 - gui.shown[k] \in Bits
    BY <1>2 DEF GuiType, Bits
  <2> QED
    BY <2>1
<1>4. PICK used \in Nat, pending \in Nat, rev \in Nat :
        used = gui.used + 1 /\ pending = gui.pending + 1 /\ rev = gui.rev + 1
  BY <1>2 DEF GuiType
<1>5. PICK error \in BOOLEAN, failed \in BOOLEAN :
        /\ error = IF gui.pending = 0 THEN FALSE ELSE gui.error
        /\ failed = IF gui.pending = 0 THEN FALSE ELSE gui.failed
  <2>1. gui.error \in BOOLEAN /\ gui.failed \in BOOLEAN
    BY <1>2 DEF GuiType
  <2> QED
    BY <2>1
<1>6. gui' = [shown |-> shown, ready |-> gui.ready, stopping |-> gui.stopping,
              pending |-> pending, rev |-> rev, error |-> error, used |-> used,
              failed |-> failed, threw |-> gui.threw]
  BY <1>1, <1>2, <1>3, <1>4, <1>5 DEF RanCommand, GuiType
<1>7. /\ gui' \in GuiType /\ gui'.stopping = gui.stopping
      /\ gui'.rev = gui.rev + 1 /\ gui'.pending = gui.pending + 1 /\ gui.pending \in Nat
      /\ gui'.pending > 0 /\ gui.rev \in Nat
      /\ gui'.shown = shown
  BY <1>2, <1>4, <1>6 DEF GuiType
<1>8. /\ \A j \in Keys : j # k => gui'.shown[j] = gui.shown[j]
      /\ gui'.shown[k] \in Bits
  BY <1>2, <1>3, <1>7 DEF GuiType
<1>9. /\ t \in TaskType /\ t.kind = "command" /\ t.what = k /\ t.rev = gui.rev + 1
      /\ t.value = gui'.shown[k]
  BY <1>7, <1>8 DEF Task, TaskType
<1>10. Accepted(t)
  BY <1>1, <1>9 DEF Accepted
<1> HIDE DEF t
<1>11. CountInv' /\ NewestEditIsShown' /\ \A u \in Waiting : Before(u, t)
  BY <1>7, <1>8, <1>9, <1>10, CommandAccepted
<1>12. OrderInv'
  BY <1>10, <1>11, OrderAccepted
<1>13. /\ tasks' \in Seq(TaskType) /\ done' \in Seq(ResultType)
       /\ DOMAIN tasks' = DOMAIN tasks \cup {Len(tasks) + 1}
       /\ tasks'[Len(tasks) + 1] = t /\ \A i \in DOMAIN tasks : tasks'[i] = tasks[i]
       /\ Len(tasks) \in Nat /\ DOMAIN tasks = 1..Len(tasks)
       /\ Waiting' = Waiting \cup {t}
  BY <1>10, AcceptedFacts DEF OptionsInv
<1>14. Types'
  BY <1>1, <1>7, <1>13 DEF OptionsInv, Types
<1>15. QueueInv'
  <2>1. AcceptedTasks' = AcceptedTasks \cup {t} /\ Answers' = Answers
    BY <1>10, AcceptedSets DEF OptionsInv
  <2>2. \A r \in Answers : r.task \in Waiting
    BY DEF Answers, Waiting
  <2>3. \A r \in Answers' : r.task.kind = "command" => r.task.rev # gui'.rev
    <3> SUFFICES ASSUME NEW r \in Answers, r.task.kind = "command" PROVE r.task.rev # gui'.rev
      BY <2>1
    <3>1. r.task.rev < t.rev
      BY <1>9, <1>11, <2>2 DEF Before
    <3>2. r.task.rev \in Int
      <4>1. PICK i \in DOMAIN done : r = done[i]
        BY DEF Answers
      <4>2. done \in Seq(ResultType)
        BY DEF OptionsInv, Types
      <4>3. r \in ResultType
        BY <4>1, <4>2, LenProperties, ElementOfSeq
      <4> QED
        BY <4>3 DEF ResultType, TaskType
    <3> QED
      BY <1>7, <1>9, <3>1, <3>2
  <2>4. \A r \in Answers' : GoodResult(r)'
    BY <1>1, <2>1, <2>3 DEF OptionsInv, QueueInv, GoodResult, GoodTask
  <2>5. \A u \in AcceptedTasks' : GoodTask(u)'
    BY <1>1, <1>9, <2>1 DEF OptionsInv, QueueInv, GoodTask
  <2> QED
    BY <1>7, <2>4, <2>5 DEF QueueInv
<1>16. WorkerInv'
  BY <1>1, <1>10, HeadStays, WorkerFrame DEF OptionsInv
<1>17. SaveInv'
  <2>1. tasks = <<>> => worker.step = "idle"
    BY DEF OptionsInv, WorkerInv
  <2>2. ~(Len(tasks) + 1 = 1 /\ worker.step = "read")
    <3>1. tasks \in Seq(TaskType)
      BY DEF OptionsInv, Types
    <3>2. Len(tasks) = 0 => tasks = <<>>
      BY <3>1, EmptySeq
    <3> QED
      BY <1>13, <2>1, <3>2
  <2>3. Unsaved(k)' = Unsaved(k) \cup {Len(tasks) + 1}
    BY <1>1, <1>9, <1>13, <2>2 DEF Unsaved
  <2>4. \A j \in Keys : j # k => Unsaved(j)' = Unsaved(j)
    BY <1>1, <1>9, <1>13 DEF Unsaved
  <2>5. \A j : Unsaved(j) \subseteq DOMAIN tasks
    BY DEF Unsaved
  <2> SUFFICES ASSUME NEW j \in Keys
               PROVE  /\ Unsaved(j)' = {} /\ outcome'[j] = "saved" => saved'[j] = gui'.shown[j]
                      /\ Unsaved(j)' # {} =>
                           \E i \in Unsaved(j)' : /\ \A l \in Unsaved(j)' : l <= i
                                                  /\ tasks'[i].value = gui'.shown[j]
    BY DEF SaveInv
  <2>6. CASE j = k
    <3>1. Len(tasks) + 1 \in Unsaved(j)' /\ \A l \in Unsaved(j)' : l <= Len(tasks) + 1
      BY <1>13, <2>3, <2>5, <2>6
    <3> QED
      BY <1>9, <1>13, <2>6, <3>1
  <2>7. CASE j # k
    <3>1. gui'.shown[j] = gui.shown[j] /\ Unsaved(j)' = Unsaved(j)
      BY <1>8, <2>4, <2>7
    <3>2. \A i \in Unsaved(j) : tasks'[i] = tasks[i]
      BY <1>13, <2>5
    <3> QED
      BY <1>1, <3>1, <3>2 DEF OptionsInv, SaveInv
  <2> QED
    BY <2>6, <2>7
<1>18. ShownInv'
  BY <1>7 DEF ShownInv
<1>19. FailureInv'
  <2>1. gui'.error = error /\ gui'.failed = failed
    BY <1>6
  <2>2. CASE gui.pending = 0
    BY <1>5, <2>1, <2>2 DEF FailureInv
  <2>3. CASE gui.pending # 0
    <3>1. gui.pending > 0 /\ error = gui.error /\ failed = gui.failed
      BY <1>5, <1>7, <2>3
    <3> QED
      BY <1>7, <1>9, <1>13, <2>1, <3>1 DEF OptionsInv, FailureInv
  <2> QED
    BY <2>2, <2>3
<1>20. ValidationIsForNewestPath'
  BY <1>1 DEF OptionsInv, ValidationIsForNewestPath, ValidationError
<1> QED
  BY <1>11, <1>12, <1>14, <1>15, <1>16, <1>17, <1>18, <1>19, <1>20 DEF OptionsInv

\* What an answered command leaves as it was, whatever it shows.
LEMMA AnsweredFrame ==
  ASSUME OptionsInv, Delivered, Answer.task.kind = "command",
         UNCHANGED <<saved, file, live, worker, outcome, signer>>,
         gui' \in GuiType, dir' \in DirType, gui'.pending = gui.pending - 1, gui'.rev = gui.rev,
         gui'.stopping = gui.stopping, gui'.failed => gui'.error,
         gui'.shown = gui.shown \/
           (Answer.task.rev = gui.rev /\ gui'.shown = Answer.shown),
         gui'.threw = TRUE \/ Answer.task.rev # gui.rev \/ gui'.shown = Answer.shown
  PROVE  OptionsInv'
<1> DEFINE h == Answer.task
<1>1. QueueInv' /\ ~gui.stopping /\ GoodResult(Answer)
  BY DeliveredQueue
<1>2. /\ gui.pending \in Nat /\ gui.pending >= 1 /\ gui.rev \in Nat
      /\ h.rev = gui.rev - gui.pending + 1
      /\ \A u \in Waiting' : u.kind # "dir"
      /\ Unanswered' = Unanswered \ {h}
      /\ {u.rev : u \in Unanswered'} = (gui.rev - gui.pending + 2)..gui.rev
  BY <1>1, CommandAnswered
<1>3. tasks' = tasks
  BY DEF Delivered
<1>4. done' \in Seq(ResultType)
  BY DeliveredFacts DEF OptionsInv
<1>5. Types'
  BY <1>3, <1>4 DEF OptionsInv, Types
<1>6. OrderInv'
  BY OrderDelivered
<1>7. h.rev = gui.rev => Unanswered' = {} /\ \A i \in DOMAIN tasks : tasks[i].kind # "command"
  <2> SUFFICES ASSUME h.rev = gui.rev
               PROVE  Unanswered' = {} /\ \A i \in DOMAIN tasks : tasks[i].kind # "command"
    OBVIOUS
  <2>1. {u.rev : u \in Unanswered'} = {}
    BY <1>2
  <2>2. Unanswered' = {}
    BY <2>1
  <2>3. \A u \in Waiting' : u.kind # "command"
    BY <2>2, UnansweredParts
  <2> QED
    BY <2>2, <2>3, <1>3 DEF Waiting
<1>8. CountInv'
  <2>1. gui'.rev - gui'.pending + 1 = gui.rev - gui.pending + 2
    BY <1>2
  <2> QED
    BY <1>2, <2>1 DEF CountInv
<1>9. NewestEditIsShown'
  <2> SUFFICES ASSUME NEW k \in Keys, EditsOf(k)' # {}
               PROVE  \E t \in EditsOf(k)' : /\ \A u \in EditsOf(k)' : u.rev <= t.rev
                                             /\ gui'.shown[k] = t.value
    BY DEF NewestEditIsShown
  <2>1. EditsOf(k)' = EditsOf(k) \ {h}
    BY <1>2 DEF EditsOf
  <2>2. gui'.shown = gui.shown
    BY <1>7 DEF EditsOf
  <2>3. PICK t \in EditsOf(k) : (\A u \in EditsOf(k) : u.rev <= t.rev) /\ gui.shown[k] = t.value
    BY <1>1, <2>1 DEF OptionsInv, NewestEditIsShown
  <2>4. PICK w : w \in EditsOf(k)'
    OBVIOUS
  <2>5. w.rev \in (gui.rev - gui.pending + 2)..gui.rev /\ w.rev <= t.rev
    BY <1>2, <2>1, <2>3, <2>4 DEF EditsOf
  <2>6. h.rev < w.rev
    BY <1>2, <2>5
  <2>7. t # h
    BY <1>2, <2>5, <2>6
  <2> QED
    BY <2>1, <2>2, <2>3, <2>7
<1>10. WorkerInv'
  BY <1>3, WorkerFrame DEF OptionsInv, Now
<1>11. \A k : Unsaved(k)' = Unsaved(k)
  BY <1>3 DEF Unsaved
<1>12. SaveInv'
  <2>1. CASE gui'.shown = gui.shown
    BY <1>3, <1>11, <2>1 DEF OptionsInv, SaveInv
  <2>2. CASE h.rev = gui.rev /\ gui'.shown = Answer.shown
    <3>1. \A k : Unsaved(k)' = {}
      BY <1>7, <1>11, <2>2 DEF Unsaved
    <3>2. \A k \in Keys : Answer.shown[k] = saved[k]
      BY <1>1, <2>2 DEF GoodResult
    <3> QED
      BY <2>2, <3>1, <3>2 DEF SaveInv
  <2> QED
    BY <2>1, <2>2
<1>13. ShownInv'
  <2> SUFFICES ASSUME gui'.pending = 0, ~gui'.threw PROVE \A k \in Keys : gui'.shown[k] = saved[k]
    BY DEF ShownInv
  <2>1. h.rev = gui.rev
    BY <1>2
  <2>2. \A k \in Keys : Answer.shown[k] = saved[k]
    BY <1>1, <2>1 DEF GoodResult
  <2> QED
    BY <2>1, <2>2
<1>14. FailureInv'
  BY <1>2 DEF FailureInv
<1>15. ValidationIsForNewestPath'
  BY DEF OptionsInv, ValidationIsForNewestPath, ValidationError
<1> QED
  BY <1>1, <1>5, <1>6, <1>8, <1>9, <1>10, <1>12, <1>13, <1>14, <1>15 DEF OptionsInv

LEMMA CommandAnsweredKeeps ==
  ASSUME OptionsInv, CommandCompleted \/ CommandThrew
  PROVE  OptionsInv'
<1>1. /\ done # <<>> /\ Answer.task.kind = "command" /\ done' = Tail(done) /\ tasks' = tasks
      /\ UNCHANGED <<saved, file, live, worker, outcome>> /\ signer' = signer
  BY DEF CommandCompleted, CommandThrew, Answered, stores
<1>2. Delivered
  BY <1>1 DEF Delivered
<1>3. gui \in GuiType /\ dir \in DirType /\ Answer \in ResultType
  BY <1>2, DeliveredFacts DEF OptionsInv, Types
<1>4. ~gui.stopping
  BY <1>1 DEF OptionsInv, QueueInv
<1>5. PICK pending \in Nat : pending = gui.pending - 1
  <2>1. gui.pending \in Nat /\ gui.pending >= 1
    BY <1>1, <1>2, <1>4, CommandAnswered
  <2> QED
    BY <2>1
<1>6. gui.failed => gui.error
  BY <1>1, <1>2, <1>4, CommandAnswered DEF OptionsInv, FailureInv
<1>7. CASE CommandCompleted
  <2>1. PICK shown \in [Keys -> Bits], ready \in BOOLEAN :
          /\ shown = IF Answer.task.rev = gui.rev THEN Answer.shown ELSE gui.shown
          /\ ready = IF Answer.task.rev = gui.rev THEN TRUE ELSE gui.ready
    <3>1. /\ gui.shown \in [Keys -> Bits] /\ gui.ready \in BOOLEAN
          /\ Answer.shown \in [Keys -> Bits]
      BY <1>3 DEF GuiType, ResultType
    <3>2. CASE Answer.task.rev = gui.rev
      BY <3>1, <3>2
    <3>3. CASE Answer.task.rev # gui.rev
      BY <3>1, <3>3
    <3> QED
      BY <3>2, <3>3
  <2>2. PICK error \in BOOLEAN, failed \in BOOLEAN :
          error = (gui.error \/ Answer.error) /\ failed = (gui.failed \/ Answer.error)
    OBVIOUS
  <2>3. PICK a \in GuiType :
          /\ a = AppliedSnapshot(gui)
          /\ a.shown = shown /\ a.stopping = gui.stopping /\ a.pending = gui.pending
          /\ a.rev = gui.rev /\ a.error = gui.error /\ a.failed = gui.failed
    <3>1. CASE Answer.task.rev = gui.rev
      <4>1. AppliedSnapshot(gui) = [gui EXCEPT !.shown = shown, !.ready = TRUE]
        BY <2>1, <3>1 DEF AppliedSnapshot
      <4> DEFINE c == [gui EXCEPT !.shown = shown, !.ready = TRUE]
      <4>2. /\ c \in GuiType
            /\ c.shown = shown /\ c.stopping = gui.stopping /\ c.pending = gui.pending
            /\ c.rev = gui.rev /\ c.error = gui.error /\ c.failed = gui.failed
        BY <1>3 DEF GuiType
      <4>3. AppliedSnapshot(gui) = c
        BY <4>1
      <4> HIDE DEF c
      <4> QED
        BY <4>2, <4>3, Zenon
    <3>2. CASE Answer.task.rev # gui.rev
      BY <1>3, <2>1, <3>2 DEF AppliedSnapshot
    <3> QED
      BY <3>1, <3>2
  <2> DEFINE b == [a EXCEPT !.threw = FALSE]
  <2>4. /\ b \in GuiType
        /\ b.shown = shown /\ b.stopping = gui.stopping /\ b.pending = gui.pending
        /\ b.rev = gui.rev /\ b.error = gui.error /\ b.failed = gui.failed
    BY <2>3 DEF GuiType
  <2>5. gui' = [b EXCEPT !.pending = pending, !.error = error, !.failed = failed]
    <3>1. gui' = Ended(b)
      BY <1>7, <2>3, Zenon DEF CommandCompleted
    <3> HIDE DEF b
    <3>2. b.pending - 1 = pending
      BY <1>5, <2>4
    <3>3. (b.error \/ Answer.error) = error /\ (b.failed \/ Answer.error) = failed
      BY <2>2, <2>4
    <3>4. gui' = [b EXCEPT !.pending = b.pending - 1, !.error = (b.error \/ Answer.error),
                           !.failed = (b.failed \/ Answer.error)]
      BY <3>1 DEF Ended
    <3> QED
      BY <3>2, <3>3, <3>4, Zenon
  <2>6. /\ gui' \in GuiType /\ gui'.pending = gui.pending - 1 /\ gui'.rev = gui.rev
        /\ gui'.stopping = gui.stopping /\ gui'.shown = shown
        /\ gui'.error = error /\ gui'.failed = failed
    <3> HIDE DEF b
    <3> QED
      BY <1>5, <2>4, <2>5 DEF GuiType
  <2>7. gui'.failed => gui'.error
    BY <1>6, <2>2, <2>6
  <2>8. dir' \in DirType
    <3>1. Answer.dir \in Dirs
      BY <1>3 DEF ResultType
    <3> QED
      BY <1>3, <1>7, <3>1 DEF CommandCompleted, DirType
  <2> QED
    BY <1>1, <1>2, <2>1, <2>6, <2>7, <2>8, AnsweredFrame
<1>8. CASE CommandThrew
  <2>1. gui' = [gui EXCEPT !.pending = pending, !.error = TRUE, !.failed = TRUE,
                           !.threw = TRUE]
    BY <1>5, <1>8 DEF CommandThrew
  <2>2. /\ gui' \in GuiType /\ gui'.pending = gui.pending - 1 /\ gui'.rev = gui.rev
        /\ gui'.stopping = gui.stopping /\ gui'.shown = gui.shown /\ gui'.error
        /\ gui'.threw = TRUE
    BY <1>3, <1>5, <2>1 DEF GuiType
  <2>3. dir' \in DirType
    BY <1>3, <1>8 DEF CommandThrew
  <2> QED
    BY <1>1, <1>2, <2>2, <2>3, AnsweredFrame
<1> QED
  BY <1>7, <1>8

----------------------------------------------------------------------------
(* The worker *)

LEMMA RunningCommand ==
  ASSUME OptionsInv, Running("command")
  PROVE  /\ tasks # <<>> /\ 1 \in DOMAIN tasks /\ Now = tasks[1]
         /\ Now \in TaskType /\ Now.kind = "command" /\ Now.what \in Keys \cup {"load"}
         /\ \A i \in DOMAIN tasks : i \in Nat /\ i >= 1
         /\ ~gui.stopping => gui.pending \in Nat /\ gui.pending >= 1
         /\ \A r \in Answers : r.task.kind = "command" => r.task.rev # gui.rev
<1>1. tasks \in Seq(TaskType) /\ tasks # <<>> /\ Now.kind = "command"
  BY DEF OptionsInv, Types, Running, Now
<1>2. /\ 1 \in DOMAIN tasks /\ Now = tasks[1] /\ Now \in TaskType
      /\ \A i \in DOMAIN tasks : i \in Nat /\ i >= 1
  BY <1>1, TailSeq DEF Now
<1>3. Now.what \in Keys \cup {"load"}
  BY <1>1, <1>2 DEF OptionsInv, QueueInv, GoodTask, AcceptedTasks
<1>4. CASE gui.stopping
  <2>1. Answers = {}
    BY <1>4 DEF OptionsInv, QueueInv, Answers
  <2> QED
    BY <1>1, <1>2, <1>3, <1>4, <2>1
<1>5. CASE ~gui.stopping
  <2>1. /\ gui.rev \in Nat /\ gui.pending \in Nat
        /\ {u.rev : u \in Unanswered} = (gui.rev - gui.pending + 1)..gui.rev
    BY <1>5 DEF OptionsInv, Types, GuiType, CountInv
  <2>2. Now \in Unanswered
    BY <1>1, <1>2, UnansweredParts DEF Waiting
  <2>3. Now.rev \in (gui.rev - gui.pending + 1)..gui.rev
    BY <2>1, <2>2
  <2>4. gui.pending >= 1 /\ Now.rev <= gui.rev /\ Now.rev \in Int
    BY <2>1, <2>3
  <2>5. \A r \in Answers : r.task.kind = "command" => r.task.rev # gui.rev
    <3> SUFFICES ASSUME NEW i \in DOMAIN done, done[i].task.kind = "command"
                 PROVE  done[i].task.rev # gui.rev
      BY DEF Answers
    <3>1. done[i].task.rev < Now.rev
      BY <1>1, <1>2 DEF OptionsInv, OrderInv, Before
    <3>2. done[i].task.rev \in Int
      <4>1. done[i] \in ResultType
        BY LenProperties, ElementOfSeq DEF OptionsInv, Types
      <4> QED
        BY <4>1 DEF ResultType, TaskType
    <3> QED
      BY <2>1, <2>4, <3>1, <3>2
  <2> QED
    BY <1>1, <1>2, <1>3, <2>1, <2>4, <2>5
<1> QED
  BY <1>4, <1>5

LEMMA WorkerKeeps ==
  ASSUME OptionsInv, Running("command"), UNCHANGED <<gui, dir, signer, tasks, done>>,
         saved' \in [Keys \cup {WalletKey} -> Bits], file' \in [Keys \cup {WalletKey} -> Bits],
         live' \in [LiveKeys -> Bits], outcome' \in [Keys -> {"none", "saved", "failed"}],
         worker' \in WorkerType, WorkerInv', SaveInv'
  PROVE  OptionsInv'
<1>1. Types'
  BY DEF OptionsInv, Types
<1>2. /\ AcceptedTasks' = AcceptedTasks /\ Answers' = Answers /\ Waiting' = Waiting
      /\ Unanswered' = Unanswered
  BY DEF AcceptedTasks, Answers, Waiting, Unanswered
<1>3. QueueInv'
  <2>1. \A r \in Answers' : GoodResult(r)'
    BY <1>2, RunningCommand DEF OptionsInv, QueueInv, GoodResult, GoodTask
  <2>2. \A t \in AcceptedTasks' : GoodTask(t)'
    BY <1>2 DEF OptionsInv, QueueInv, GoodTask
  <2> QED
    BY <2>1, <2>2 DEF OptionsInv, QueueInv
<1>4. OrderInv'
  BY DEF OptionsInv, OrderInv
<1>5. CountInv' /\ NewestEditIsShown'
  BY <1>2, CommandsKept DEF OptionsInv
<1>6. ShownInv'
  <2>1. gui.stopping \/ gui.pending # 0
    BY RunningCommand
  <2> QED
    BY <2>1 DEF ShownInv
<1>7. FailureInv'
  BY <1>2 DEF OptionsInv, FailureInv
<1>8. ValidationIsForNewestPath'
  BY DEF OptionsInv, ValidationIsForNewestPath, ValidationError
<1> QED
  BY <1>1, <1>3, <1>4, <1>5, <1>6, <1>7, <1>8 DEF OptionsInv

\* The running command has been saved, or its save has failed.
LEMMA SavedOrFailed ==
  ASSUME OptionsInv, Running("command"), worker.step # "read", worker'.step = "read",
         tasks' = tasks, gui' = gui,
         \A k \in Keys : k # Now.what => saved'[k] = saved[k] /\ outcome'[k] = outcome[k],
         Now.what \in Keys => outcome'[Now.what] = "failed" \/ saved'[Now.what] = Now.value
  PROVE  SaveInv'
<1>1. /\ 1 \in DOMAIN tasks /\ Now = tasks[1] /\ Now.kind = "command"
      /\ \A i \in DOMAIN tasks : i \in Nat /\ i >= 1
  BY RunningCommand
<1>2. \A k : Unsaved(k)' = Unsaved(k) \ {1}
  BY DEF Unsaved
<1> SUFFICES ASSUME NEW k \in Keys
             PROVE  /\ Unsaved(k)' = {} /\ outcome'[k] = "saved" => saved'[k] = gui.shown[k]
                    /\ Unsaved(k)' # {} =>
                         \E i \in Unsaved(k)' : /\ \A j \in Unsaved(k)' : j <= i
                                                /\ tasks[i].value = gui.shown[k]
  BY DEF SaveInv
<1>3. CASE k # Now.what
  <2>1. Unsaved(k)' = Unsaved(k)
    BY <1>1, <1>2, <1>3 DEF Unsaved
  <2> QED
    BY <1>3, <2>1 DEF OptionsInv, SaveInv
<1>4. CASE k = Now.what
  <2>1. 1 \in Unsaved(k) /\ \A j \in Unsaved(k) : j \in Nat /\ j >= 1
    BY <1>1, <1>4 DEF Unsaved
  <2>2. PICK i \in Unsaved(k) : (\A j \in Unsaved(k) : j <= i) /\ tasks[i].value = gui.shown[k]
    BY <2>1 DEF OptionsInv, SaveInv
  <2>3. CASE i = 1
    <3>1. \A j \in Unsaved(k) : j = 1
      <4> TAKE j \in Unsaved(k)
      <4>1. j <= 1
        BY <2>2, <2>3
      <4>2. j \in Nat /\ j >= 1
        BY <2>1
      <4> QED
        BY <4>1, <4>2
    <3>2. Unsaved(k)' = {}
      BY <1>2, <3>1
    <3>3. Now.value = gui.shown[k]
      BY <1>1, <2>2, <2>3
    <3> QED
      BY <1>4, <3>2, <3>3
  <2>4. CASE i # 1
    <3>1. i \in Unsaved(k)' /\ \A j \in Unsaved(k)' : j <= i
      BY <1>2, <2>2, <2>4
    <3> QED
      BY <2>2, <3>1
  <2> QED
    BY <2>3, <2>4
<1> QED
  BY <1>3, <1>4


LEMMA NothingToSaveKeeps ==
  ASSUME OptionsInv, NEW refused \in BOOLEAN, NothingToSave(refused)
  PROVE  OptionsInv'
<1>1. /\ Running("command") /\ worker.step = "idle"
      /\ worker' = [worker EXCEPT !.step = "read", !.error = refused]
      /\ outcome' = IF refused THEN [outcome EXCEPT ![Now.what] = "failed"] ELSE outcome
      /\ saved' = saved /\ file' = file /\ live' = live
      /\ UNCHANGED <<gui, dir, signer, tasks, done>>
      /\ IF refused THEN Now.what \in CoreKeys \cap LiveKeys ELSE Now.what = "load"
  BY DEF NothingToSave, stores
<1>2. Types /\ worker \in WorkerType
  BY DEF OptionsInv, Types
<1>3. worker' \in WorkerType /\ worker'.step = "read"
  BY <1>1, <1>2 DEF WorkerType
<1>4. outcome' \in [Keys -> {"none", "saved", "failed"}]
  BY <1>1, <1>2 DEF Types
<1>5. WorkerInv'
  BY <1>1, <1>3, RunningCommand DEF OptionsInv, WorkerInv, Now
<1>6. SaveInv'
  <2>1. \A k \in Keys : k # Now.what => outcome'[k] = outcome[k]
    BY <1>1, <1>2 DEF Types
  <2>2. Now.what \in Keys => outcome'[Now.what] = "failed"
    BY <1>1, <1>2, KeyFacts DEF Types
  <2> QED
    BY <1>1, <1>3, <2>1, <2>2, SavedOrFailed
<1> QED
  BY <1>1, <1>2, <1>3, <1>4, <1>5, <1>6, WorkerKeeps DEF Types

LEMMA ChangeInMemoryKeeps ==
  ASSUME OptionsInv, ChangeInMemory
  PROVE  OptionsInv'
<1>1. /\ Running("command") /\ worker.step = "idle" /\ Now.what \in CoreKeys \cup SessionKeys
      /\ saved' = [saved EXCEPT ![Now.what] = Now.value]
      /\ worker' = [worker EXCEPT !.step = "changed", !.before = saved[Now.what]]
      /\ file' = file /\ live' = live /\ outcome' = outcome
      /\ UNCHANGED <<gui, dir, signer, tasks, done>>
  BY DEF ChangeInMemory
<1>2. Types /\ worker \in WorkerType
  BY DEF OptionsInv, Types
<1>3. Now \in TaskType /\ Now.what \in Keys /\ 1 \in DOMAIN tasks /\ Now = tasks[1]
  BY <1>1, KeyFacts, RunningCommand
<1>4. /\ saved' \in [Keys \cup {WalletKey} -> Bits] /\ saved'[Now.what] = Now.value
      /\ \A k \in Keys : k # Now.what => saved'[k] = saved[k]
  <2>1. Now.value \in Bits
    BY <1>3 DEF TaskType
  <2> QED
    BY <1>1, <1>2, <1>3, <2>1 DEF Types
<1>5. worker' \in WorkerType /\ worker'.step = "changed" /\ worker'.before = saved[Now.what]
  <2>1. saved[Now.what] \in Bits
    BY <1>2, <1>3 DEF Types
  <2> QED
    BY <1>1, <1>2, <2>1 DEF WorkerType
<1>6. WorkerInv'
  <2>1. Now' = Now /\ tasks' # <<>> /\ Now.kind = "command"
    BY <1>1, RunningCommand DEF Now
  <2>2. \A k \in LiveKeys : live[k] = saved[k]
    BY <1>1 DEF OptionsInv, WorkerInv
  <2>3. \A k \in LiveKeys : live'[k] = saved'[k] \/ Now.what = k
    BY <1>1, <1>4, <2>2, KeyFacts
  <2>4. Now.what \in LiveKeys => worker'.before = live'[Now.what]
    BY <1>1, <1>5, <2>2
  <2> QED
    BY <1>1, <1>4, <1>5, <2>1, <2>3, <2>4 DEF WorkerInv
<1>7. SaveInv'
  <2>1. \A k : Unsaved(k)' = Unsaved(k)
    BY <1>1, <1>5 DEF Unsaved
  <2>2. 1 \in Unsaved(Now.what)
    BY <1>1, <1>3, RunningCommand DEF Unsaved
  <2> SUFFICES ASSUME NEW k \in Keys
               PROVE  /\ Unsaved(k) = {} /\ outcome[k] = "saved" => saved'[k] = gui.shown[k]
                      /\ Unsaved(k) # {} =>
                           \E i \in Unsaved(k) : /\ \A j \in Unsaved(k) : j <= i
                                                 /\ tasks[i].value = gui.shown[k]
    BY <1>1, <2>1 DEF SaveInv
  <2>3. CASE k = Now.what
    BY <2>2, <2>3 DEF OptionsInv, SaveInv
  <2>4. CASE k # Now.what
    BY <1>4, <2>4 DEF OptionsInv, SaveInv
  <2> QED
    BY <2>3, <2>4
<1> QED
  BY <1>1, <1>2, <1>4, <1>5, <1>6, <1>7, WorkerKeeps DEF Types

LEMMA WriteFileKeeps ==
  ASSUME OptionsInv, WriteFile
  PROVE  OptionsInv'
<1>1. /\ Running("command") /\ worker.step = "changed"
      /\ file' = SettingsFile(saved)
      /\ live' = [k \in LiveKeys |-> IF k = Now.what THEN Now.value ELSE live[k]]
      /\ worker' = [worker EXCEPT !.step = "read"]
      /\ outcome' = [outcome EXCEPT ![Now.what] = "saved"]
      /\ saved' = saved /\ UNCHANGED <<gui, dir, signer, tasks, done>>
  BY DEF WriteFile
<1>2. Types /\ worker \in WorkerType
  BY DEF OptionsInv, Types
<1>3. /\ Now \in TaskType /\ Now.what \in Keys /\ saved[Now.what] = Now.value
      /\ \A k \in LiveKeys : live[k] = saved[k] \/ Now.what = k
  BY <1>1, KeyFacts, RunningCommand DEF OptionsInv, WorkerInv
<1>4. Now.value \in Bits
  BY <1>3 DEF TaskType
<1>5. file' \in [Keys \cup {WalletKey} -> Bits]
  BY <1>1, <1>2 DEF Types, SettingsFile
<1>6. live' \in [LiveKeys -> Bits]
  BY <1>1, <1>2, <1>4 DEF Types
<1>7. outcome' \in [Keys -> {"none", "saved", "failed"}]
  BY <1>1, <1>2 DEF Types
<1>8. worker' \in WorkerType /\ worker'.step = "read"
  BY <1>1, <1>2 DEF WorkerType
<1>9. WorkerInv'
  <2>1. \A k \in LiveKeys : live'[k] = saved'[k]
    BY <1>1, <1>3
  <2>2. Now' = Now /\ tasks' # <<>> /\ Now.kind = "command"
    BY <1>1, RunningCommand DEF Now
  <2> QED
    BY <1>8, <2>1, <2>2 DEF WorkerInv
<1>10. SaveInv'
  <2>1. \A k \in Keys : k # Now.what => saved'[k] = saved[k] /\ outcome'[k] = outcome[k]
    BY <1>1, <1>2 DEF Types
  <2> QED
    BY <1>1, <1>3, <1>8, <2>1, SavedOrFailed
<1> QED
  BY <1>1, <1>2, <1>5, <1>6, <1>7, <1>8, <1>9, <1>10, WorkerKeeps DEF Types

LEMMA WriteFailsKeeps ==
  ASSUME OptionsInv, WriteFails
  PROVE  OptionsInv'
<1>1. /\ Running("command") /\ worker.step = "changed"
      /\ saved' = RolledBack
      /\ worker' = [worker EXCEPT !.step = "read", !.error = TRUE]
      /\ outcome' = [outcome EXCEPT ![Now.what] = "failed"]
      /\ file' = file /\ live' = live /\ UNCHANGED <<gui, dir, signer, tasks, done>>
  BY DEF WriteFails
<1>2. Types /\ worker \in WorkerType
  BY DEF OptionsInv, Types
<1>3. /\ Now.what \in Keys /\ saved[Now.what] = Now.value
      /\ Now.what \in LiveKeys => worker.before = live[Now.what]
      /\ \A k \in LiveKeys : live[k] = saved[k] \/ Now.what = k
  BY <1>1, KeyFacts DEF OptionsInv, WorkerInv
<1>4. saved' = [saved EXCEPT ![Now.what] = worker.before]
  BY <1>1, <1>3 DEF RolledBack
<1>5. worker.before \in Bits
  BY <1>2 DEF WorkerType
<1>6. /\ saved' \in [Keys \cup {WalletKey} -> Bits] /\ saved'[Now.what] = worker.before
      /\ \A k \in Keys : k # Now.what => saved'[k] = saved[k]
  BY <1>2, <1>3, <1>4, <1>5 DEF Types
<1>7. /\ outcome' \in [Keys -> {"none", "saved", "failed"}]
      /\ outcome'[Now.what] = "failed"
      /\ \A k \in Keys : k # Now.what => outcome'[k] = outcome[k]
  BY <1>1, <1>2, <1>3 DEF Types
<1>8. worker' \in WorkerType /\ worker'.step = "read"
  BY <1>1, <1>2 DEF WorkerType
<1>9. WorkerInv'
  <2>1. \A k \in LiveKeys : live'[k] = saved'[k]
    BY <1>1, <1>3, <1>6, KeyFacts
  <2>2. Now' = Now /\ tasks' # <<>> /\ Now.kind = "command"
    BY <1>1, RunningCommand DEF Now
  <2> QED
    BY <1>8, <2>1, <2>2 DEF WorkerInv
<1>10. SaveInv'
  BY <1>1, <1>6, <1>7, <1>8, SavedOrFailed
<1> QED
  BY <1>1, <1>2, <1>6, <1>7, <1>8, <1>9, <1>10, WorkerKeeps DEF Types

LEMMA SaveGuiSettingKeeps ==
  ASSUME OptionsInv, NEW ok \in BOOLEAN, SaveGuiSetting(ok)
  PROVE  OptionsInv'
<1>1. /\ Running("command") /\ worker.step = "idle" /\ Now.what \in GuiKeys
      /\ saved' = IF ok THEN [saved EXCEPT ![Now.what] = Now.value] ELSE saved
      /\ file' = IF ok THEN [file EXCEPT ![Now.what] = Now.value] ELSE file
      /\ worker' = [worker EXCEPT !.step = "read", !.error = ~ok]
      /\ outcome' = [outcome EXCEPT ![Now.what] = IF ok THEN "saved" ELSE "failed"]
      /\ live' = live /\ UNCHANGED <<gui, dir, signer, tasks, done>>
  BY DEF SaveGuiSetting
<1>2. Types /\ worker \in WorkerType
  BY DEF OptionsInv, Types
<1>3. Now \in TaskType /\ Now.what \in Keys /\ Now.what \notin LiveKeys
  BY <1>1, KeyFacts, RunningCommand
<1>4. Now.value \in Bits
  BY <1>3 DEF TaskType
<1>5. /\ saved' \in [Keys \cup {WalletKey} -> Bits] /\ file' \in [Keys \cup {WalletKey} -> Bits]
      /\ ok => saved'[Now.what] = Now.value
      /\ \A k \in Keys : k # Now.what => saved'[k] = saved[k]
  BY <1>1, <1>2, <1>3, <1>4 DEF Types
<1>6. /\ outcome' \in [Keys -> {"none", "saved", "failed"}]
      /\ ~ok => outcome'[Now.what] = "failed"
      /\ \A k \in Keys : k # Now.what => outcome'[k] = outcome[k]
  BY <1>1, <1>2, <1>3 DEF Types
<1>7. worker' \in WorkerType /\ worker'.step = "read"
  <2>1. PICK refused \in BOOLEAN : refused = ~ok
    OBVIOUS
  <2>2. worker' = [worker EXCEPT !.step = "read", !.error = refused]
    BY <1>1, <2>1
  <2> QED
    BY <1>2, <2>2 DEF WorkerType
<1>8. WorkerInv'
  <2>1. \A k \in LiveKeys : live'[k] = saved'[k]
    <3>1. \A k \in LiveKeys : live[k] = saved[k]
      BY <1>1 DEF OptionsInv, WorkerInv
    <3> QED
      BY <1>1, <1>3, <1>5, <3>1, KeyFacts
  <2>2. Now' = Now /\ tasks' # <<>> /\ Now.kind = "command"
    BY <1>1, RunningCommand DEF Now
  <2> QED
    BY <1>7, <2>1, <2>2 DEF WorkerInv
<1>9. SaveInv'
  BY <1>1, <1>5, <1>6, <1>7, SavedOrFailed
<1> QED
  BY <1>1, <1>2, <1>5, <1>6, <1>7, <1>8, <1>9, WorkerKeeps DEF Types


LEMMA FinishedKeeps ==
  ASSUME OptionsInv, NEW r, Finished(r), GoodResult(r),
         UNCHANGED <<saved, file, live, outcome, gui, signer>>, dir' \in DirType,
         worker' = IdleWorker, worker.step # "changed",
         Now.kind = "command" => worker.step = "read"
  PROVE  OptionsInv'
<1>1. /\ tasks' \in Seq(TaskType) /\ done' \in Seq(ResultType)
      /\ 1 \in DOMAIN tasks /\ Now = tasks[1]
      /\ \A i \in DOMAIN tasks : i \in Nat /\ i >= 1
      /\ \A i \in DOMAIN tasks' :
           i \in Nat /\ i >= 1 /\ i + 1 \in DOMAIN tasks /\ tasks'[i] = tasks[i + 1]
      /\ \A i \in DOMAIN tasks :
           i # 1 => i - 1 \in DOMAIN tasks' /\ tasks'[i - 1] = tasks[i]
      /\ gui.stopping => done' = <<>>
      /\ ~gui.stopping => Waiting' = Waiting
  BY FinishedFacts DEF OptionsInv
<1>2. worker' \in WorkerType /\ worker'.step = "idle"
  BY DEF IdleWorker, WorkerType, Bits
<1>3. Types'
  BY <1>1, <1>2 DEF OptionsInv, Types
<1>4. QueueInv'
  <2>1. AcceptedTasks' \subseteq AcceptedTasks /\ Answers' \subseteq Answers \cup {r}
    BY FinishedSets DEF OptionsInv
  <2>2. \A u \in Answers' : GoodResult(u)'
    BY <2>1, ResultKept DEF OptionsInv, QueueInv
  <2>3. \A t \in AcceptedTasks' : GoodTask(t)'
    BY <2>1 DEF OptionsInv, QueueInv, GoodTask
  <2> QED
    BY <1>1, <2>2, <2>3 DEF QueueInv
<1>5. OrderInv'
  BY OrderFinished
<1>6. ~gui.stopping => Unanswered' = Unanswered
  BY <1>1, UnansweredParts
<1>7. CountInv' /\ NewestEditIsShown'
  BY <1>6, CommandsKept DEF OptionsInv
<1>8. WorkerInv'
  BY <1>2 DEF OptionsInv, WorkerInv
<1>9. SaveInv'
  <2> SUFFICES ASSUME NEW k \in Keys
               PROVE  /\ Unsaved(k)' = {} /\ outcome[k] = "saved" => saved[k] = gui.shown[k]
                      /\ Unsaved(k)' # {} =>
                           \E i \in Unsaved(k)' : /\ \A j \in Unsaved(k)' : j <= i
                                                  /\ tasks'[i].value = gui.shown[k]
    BY DEF SaveInv
  <2>1. \A i \in Unsaved(k) : i # 1 /\ i \in DOMAIN tasks /\ i \in Nat
    BY <1>1 DEF Unsaved
  <2>2. \A i \in Unsaved(k) : i - 1 \in Unsaved(k)' /\ tasks'[i - 1] = tasks[i]
    BY <1>1, <1>2, <2>1 DEF Unsaved
  <2>3. \A i \in Unsaved(k)' : i + 1 \in Unsaved(k) /\ i \in Nat
    BY <1>1 DEF Unsaved
  <2>4. CASE Unsaved(k) = {}
    <3>1. Unsaved(k)' = {}
      BY <2>3, <2>4
    <3> QED
      BY <2>4, <3>1 DEF OptionsInv, SaveInv
  <2>5. CASE Unsaved(k) # {}
    <3>1. PICK i \in Unsaved(k) : (\A j \in Unsaved(k) : j <= i) /\ tasks[i].value = gui.shown[k]
      BY <2>5 DEF OptionsInv, SaveInv
    <3>2. i - 1 \in Unsaved(k)' /\ tasks'[i - 1].value = gui.shown[k]
      BY <2>2, <3>1
    <3>3. \A j \in Unsaved(k)' : j <= i - 1
      <4> TAKE j \in Unsaved(k)'
      <4>1. j + 1 <= i /\ j \in Nat /\ i \in Nat
        BY <2>1, <2>3, <3>1
      <4> QED
        BY <4>1
    <3> QED
      BY <3>2, <3>3
  <2> QED
    BY <2>4, <2>5
<1>10. ShownInv'
  BY DEF OptionsInv, ShownInv
<1>11. FailureInv'
  BY <1>1 DEF OptionsInv, FailureInv
<1>12. ValidationIsForNewestPath'
  BY DEF OptionsInv, ValidationIsForNewestPath, ValidationError
<1> QED
  BY <1>3, <1>4, <1>5, <1>7, <1>8, <1>9, <1>10, <1>11, <1>12 DEF OptionsInv

\* What every finished task answers.
LEMMA ResultFacts ==
  ASSUME OptionsInv, tasks # <<>>, NEW error \in BOOLEAN, NEW threw \in BOOLEAN
  PROVE  /\ [task |-> Now, error |-> error, threw |-> threw,
             shown |-> [k \in Keys |-> saved[k]], dir |-> SnapshotDir] \in ResultType
         /\ Now \in TaskType /\ GoodTask(Now)
<1>1. tasks \in Seq(TaskType) /\ saved \in [Keys \cup {WalletKey} -> Bits] /\ dir \in DirType
  BY DEF OptionsInv, Types
<1>2. 1 \in DOMAIN tasks /\ Now = tasks[1] /\ Now \in TaskType
  BY <1>1, TailSeq DEF Now
<1>3. [k \in Keys |-> saved[k]] \in [Keys -> Bits]
  BY <1>1
<1>4. SnapshotDir \in Dirs
  BY <1>1 DEF SnapshotDir, ActiveDir, Dirs, DirType
<1>5. GoodTask(Now)
  BY <1>2 DEF OptionsInv, QueueInv, AcceptedTasks
<1> QED
  BY <1>2, <1>3, <1>4, <1>5 DEF ResultType

LEMMA ErrorSet ==
  ASSUME OptionsInv, tasks # <<>>, NEW error \in BOOLEAN, NEW threw \in BOOLEAN
  PROVE  /\ [Result(threw) EXCEPT !.error = error] \in ResultType
         /\ [Result(threw) EXCEPT !.error = error].task = Now
         /\ [Result(threw) EXCEPT !.error = error].error = error
         /\ Now \in TaskType /\ GoodTask(Now)
<1>1. worker.error \in BOOLEAN
  BY DEF OptionsInv, Types, WorkerType
<1>2. Result(threw) \in ResultType /\ Result(threw).task = Now
  BY <1>1, ResultFacts DEF Result
<1>3. PICK s \in ResultType : s = Result(threw)
  BY <1>2
<1>4. /\ [s EXCEPT !.error = error] \in ResultType
      /\ [s EXCEPT !.error = error].task = s.task /\ [s EXCEPT !.error = error].error = error
  BY DEF ResultType
<1>5. s.task = Now
  BY <1>2, <1>3
<1> QED
  BY <1>3, <1>4, <1>5, ResultFacts

LEMMA ReadSnapshotKeeps ==
  ASSUME OptionsInv, NEW threw \in BOOLEAN, ReadSnapshot(threw)
  PROVE  OptionsInv'
<1> DEFINE r == Result(threw)
<1>1. /\ tasks # <<>> /\ Now.kind = "command" /\ worker.step = "read"
      /\ tasks' = Tail(tasks) /\ worker' = IdleWorker
      /\ done' = IF gui.stopping THEN <<>> ELSE Append(done, r)
      /\ UNCHANGED <<saved, file, live, outcome, gui, signer, dir>>
  BY DEF ReadSnapshot, Running, Now, Finish, stores
<1>2. worker.error \in BOOLEAN /\ dir \in DirType
  BY DEF OptionsInv, Types, WorkerType
<1>3. /\ r \in ResultType /\ GoodTask(Now) /\ r.task = Now
      /\ r.shown = [k \in Keys |-> saved[k]]
  BY <1>1, <1>2, ResultFacts DEF Result
<1> HIDE DEF r
<1>4. GoodResult(r)
  BY <1>1, <1>3 DEF GoodResult
<1>5. Finished(r)
  BY <1>1, <1>3 DEF Finished
<1> QED
  BY <1>1, <1>2, <1>4, <1>5, FinishedKeeps

LEMMA PersistDirKeeps ==
  ASSUME OptionsInv, NEW ok \in BOOLEAN, NEW threw \in BOOLEAN, PersistDir(ok, threw)
  PROVE  OptionsInv'
<1>1. PICK error \in BOOLEAN : error = ~ok
  OBVIOUS
<1> DEFINE r == [Result(threw) EXCEPT !.error = error]
<1>2. [Result(threw) EXCEPT !.error = ~ok] = r
  BY <1>1, Zenon
<1>3. /\ tasks # <<>> /\ Now.kind = "dir"
      /\ tasks' = Tail(tasks) /\ worker' = IdleWorker
      /\ done' = IF gui.stopping THEN <<>> ELSE Append(done, r)
      /\ UNCHANGED <<saved, file, live, outcome, gui, signer>>
      /\ dir' = IF ok THEN [dir EXCEPT !.saved = Now.what] ELSE dir
  BY <1>2 DEF PersistDir, Running, Now, Finish, stores
<1>4. r \in ResultType /\ GoodTask(Now) /\ r.task = Now
  BY <1>3, ErrorSet
<1> HIDE DEF r
<1>5. worker.step = "idle"
  BY <1>3 DEF OptionsInv, WorkerInv
<1>6. dir' \in DirType
  <2>1. dir \in DirType /\ Now.what \in Dirs
    BY <1>3, <1>4 DEF GoodTask, OptionsInv, Types, Dirs
  <2> QED
    BY <1>3, <2>1 DEF DirType
<1>7. GoodResult(r)
  BY <1>3, <1>4 DEF GoodResult
<1>8. Finished(r)
  BY <1>3, <1>4 DEF Finished
<1> QED
  BY <1>3, <1>5, <1>6, <1>7, <1>8, FinishedKeeps

LEMMA ValidatePathKeeps ==
  ASSUME OptionsInv, NEW threw \in BOOLEAN, ValidatePath(threw)
  PROVE  OptionsInv'
<1>1. PICK error \in BOOLEAN : error = (Now.what = "bad")
  OBVIOUS
<1> DEFINE r == [Result(threw) EXCEPT !.error = error]
<1>2. [Result(threw) EXCEPT !.error = (Now.what = "bad")] = r
  BY <1>1, Zenon
<1>3. /\ tasks # <<>> /\ Now.kind = "validate"
      /\ tasks' = Tail(tasks) /\ worker' = IdleWorker
      /\ done' = IF gui.stopping THEN <<>> ELSE Append(done, r)
      /\ UNCHANGED <<saved, file, live, outcome, gui, signer, dir>>
  BY <1>2 DEF ValidatePath, Running, Now, Finish, stores
<1>4. r \in ResultType /\ GoodTask(Now) /\ r.task = Now /\ r.error = error
  BY <1>3, ErrorSet
<1> HIDE DEF r
<1>5. worker.step = "idle"
  BY <1>3 DEF OptionsInv, WorkerInv
<1>6. dir' \in DirType
  BY <1>3 DEF OptionsInv, Types
<1>7. GoodResult(r)
  BY <1>1, <1>3, <1>4 DEF GoodResult
<1>8. Finished(r)
  BY <1>3, <1>4 DEF Finished
<1> QED
  BY <1>3, <1>5, <1>6, <1>7, <1>8, FinishedKeeps


----------------------------------------------------------------------------
(* The theorems *)

LEMMA InitOptions == Init => OptionsInv
<1> SUFFICES ASSUME Init PROVE OptionsInv
  OBVIOUS
<1> DEFINE t == Task("command", "load", 0, 1)
<1>1. t \in TaskType /\ t.kind = "command" /\ t.what = "load" /\ t.rev = 1
  BY DEF Task, TaskType, Bits
<1>2. /\ saved = [k \in Keys \cup {WalletKey} |-> 0] /\ file = saved
      /\ live = [k \in LiveKeys |-> 0]
      /\ dir = [saved |-> "default", shown |-> ActiveDir, pending |-> FALSE]
      /\ signer = [requested |-> "good", rev |-> 0, pending |-> FALSE, inFlight |-> FALSE,
                   validated |-> "none", error |-> "none", threw |-> FALSE]
      /\ tasks = <<t>> /\ worker = IdleWorker /\ done = <<>>
      /\ outcome = [k \in Keys |-> "none"]
      /\ gui = [shown |-> [k \in Keys |-> 0], ready |-> FALSE, stopping |-> FALSE,
                pending |-> 1, rev |-> 1, error |-> FALSE, used |-> 0,
                failed |-> FALSE, threw |-> FALSE]
  BY DEF Init
<1> HIDE DEF t
<1>3. /\ gui \in GuiType /\ gui.rev = 1 /\ gui.pending = 1 /\ ~gui.stopping /\ ~gui.ready
      /\ gui.shown = [k \in Keys |-> 0] /\ ~gui.failed
  BY <1>2 DEF GuiType, Bits
<1>4. dir \in DirType
  BY <1>2 DEF DirType, ActiveDir, Dirs
<1>5. signer \in SignerType /\ signer.rev = 0
  BY <1>2 DEF SignerType, Paths
<1>6. worker \in WorkerType /\ worker.step = "idle"
  BY <1>2 DEF IdleWorker, WorkerType, Bits
<1>7. tasks \in Seq(TaskType) /\ DOMAIN tasks = {1} /\ tasks[1] = t
  BY <1>1, <1>2
<1>8. done \in Seq(ResultType) /\ DOMAIN done = {}
  BY <1>2
<1>9. Types
  BY <1>2, <1>3, <1>4, <1>5, <1>6, <1>7, <1>8, KeyFacts DEF Types, Bits
<1>10. AcceptedTasks = {t} /\ Answers = {} /\ Waiting = {t}
  BY <1>7, <1>8 DEF AcceptedTasks, Answers, Waiting
<1>11. Unanswered = {t}
  BY <1>1, <1>10, UnansweredParts
<1>12. QueueInv
  BY <1>1, <1>2, <1>10 DEF QueueInv, GoodTask
<1>13. OrderInv
  BY <1>7, <1>8 DEF OrderInv
<1>14. CountInv
  <2>1. {u.rev : u \in Unanswered} = {1}
    BY <1>1, <1>11
  <2> QED
    BY <1>3, <2>1 DEF CountInv
<1>15. WorkerInv
  BY <1>2, <1>6, KeyFacts DEF WorkerInv
<1>16. \A k \in Keys : Unsaved(k) = {} /\ EditsOf(k) = {}
  BY <1>1, <1>7, <1>11, KeyFacts DEF Unsaved, EditsOf
<1>17. SaveInv
  BY <1>2, <1>16 DEF SaveInv
<1>18. ShownInv
  BY <1>3 DEF ShownInv
<1>19. FailureInv
  BY <1>3 DEF FailureInv
<1>20. NewestEditIsShown
  BY <1>16 DEF NewestEditIsShown
<1>21. ValidationIsForNewestPath
  BY <1>5 DEF ValidationIsForNewestPath
<1> QED
  BY <1>9, <1>12, <1>13, <1>14, <1>15, <1>17, <1>18, <1>19, <1>20, <1>21 DEF OptionsInv

LEMMA NextOptions == OptionsInv /\ [Next]_vars => OptionsInv'
<1> SUFFICES ASSUME OptionsInv, [Next]_vars PROVE OptionsInv'
  OBVIOUS
<1>1. CASE \E k \in CoreKeys : SetCore(k)
  BY <1>1, EditKeeps, KeyFacts DEF SetCore, CanEdit
<1>2. CASE \E k \in SessionKeys : SetSession(k)
  BY <1>2, EditKeeps, KeyFacts DEF SetSession
<1>3. CASE \E k \in GuiKeys : SetGui(k)
  BY <1>3, EditKeeps, KeyFacts DEF SetGui, CanEdit
<1>4. CASE \E d \in {"default", "other"} : SelectDir(d)
  BY <1>4, SelectDirKeeps
<1>5. CASE \E p \in Paths : RequestValidation(p)
  BY <1>5, RequestValidationKeeps
<1>6. CASE BeginShutdown
  BY <1>6, BeginShutdownKeeps
<1>7. CASE WalletSaves
  BY <1>7, WalletSavesKeeps
<1>8. CASE WorkerStep
  BY <1>8, NothingToSaveKeeps, ChangeInMemoryKeeps, WriteFileKeeps, WriteFailsKeeps,
     SaveGuiSettingKeeps, ReadSnapshotKeeps, PersistDirKeeps, ValidatePathKeeps DEF WorkerStep
<1>9. CASE Deliver
  BY <1>9, CommandAnsweredKeeps, DirSelectedKeeps, ValidatedKeeps DEF Deliver
<1>10. CASE UNCHANGED vars
  <2>1. /\ UNCHANGED <<live, worker, outcome, saved, file, dir, signer, done>>
        /\ gui' = gui /\ tasks' = tasks
    BY <1>10 DEF vars
  <2>2. Types' /\ OrderInv'
    BY <2>1 DEF OptionsInv, Types, OrderInv
  <2>3. /\ AcceptedTasks' = AcceptedTasks /\ Answers' = Answers /\ Waiting' = Waiting
        /\ Unanswered' = Unanswered
    BY <2>1 DEF AcceptedTasks, Answers, Waiting, Unanswered
  <2>4. QueueInv'
    <3>1. \A r \in Answers' : GoodResult(r)'
      BY <2>1, <2>3, ResultKept DEF OptionsInv, QueueInv
    <3> QED
      BY <2>1, <2>3, <3>1 DEF OptionsInv, QueueInv, GoodTask
  <2>5. FailureInv' /\ ValidationIsForNewestPath'
    BY <2>1, <2>3 DEF OptionsInv, FailureInv, ValidationIsForNewestPath, ValidationError
  <2> QED
    BY <2>1, <2>2, <2>3, <2>4, <2>5, SameTasks, GuiKeeps DEF SameGui
<1> QED
  BY <1>1, <1>2, <1>3, <1>4, <1>5, <1>6, <1>7, <1>8, <1>9, <1>10 DEF Next

LEMMA OptionsInvSuffices == OptionsInv => EditsAreKept
<1> SUFFICES ASSUME OptionsInv PROVE EditsAreKept
  OBVIOUS
<1>1. TypeOK
  BY DEF OptionsInv, Types, TypeOK, CountInv, GuiType, DirType, WorkerType, Bits
<1>2. SettledShowsSaved
  <2> SUFFICES ASSUME gui.ready, ~gui.stopping, gui.pending = 0, ~gui.threw
               PROVE  /\ \A k \in Keys : gui.shown[k] = saved[k]
                      /\ \A k \in LiveKeys : live[k] = saved[k]
    BY DEF SettledShowsSaved
  <2>1. \A k \in Keys : gui.shown[k] = saved[k]
    BY DEF OptionsInv, ShownInv
  <2>2. worker.step # "changed"
    <3> SUFFICES ASSUME worker.step = "changed" PROVE FALSE
      OBVIOUS
    <3>1. Running("command")
      BY DEF OptionsInv, WorkerInv, Running, Now
    <3>2. gui.pending >= 1
      BY <3>1, RunningCommand
    <3> QED
      BY <3>2
  <2> QED
    BY <2>1, <2>2 DEF OptionsInv, WorkerInv
<1>3. AcceptedEditsAreSaved
  <2> SUFFICES ASSUME tasks = <<>>, NEW k \in Keys, outcome[k] = "saved"
               PROVE  saved[k] = gui.shown[k]
    BY DEF AcceptedEditsAreSaved
  <2>1. DOMAIN tasks = {}
    OBVIOUS
  <2>2. Unsaved(k) = {}
    BY <2>1 DEF Unsaved
  <2> QED
    BY <2>2 DEF OptionsInv, SaveInv
<1> QED
  BY <1>1, <1>2, <1>3 DEF OptionsInv, EditsAreKept

\* A command that is answered takes with it only an error that it reports.
LEMMA FailureStep ==
  ASSUME OptionsInv, [Next]_vars, gui.pending > 0, gui'.pending = 0, gui'.failed
  PROVE  gui'.error
<1>1. gui \in GuiType /\ gui.pending \in Nat /\ (gui.failed => gui.error)
  BY DEF OptionsInv, Types, GuiType, FailureInv
<1>2. gui'.pending # gui.pending
  BY <1>1
<1>3. ASSUME NEW k, Edit(k) PROVE FALSE
  <2> DEFINE g == [gui EXCEPT !.shown[k] = 1 - @, !.used = @ + 1]
  <2>1. gui' = RanCommand(g) /\ g.pending = gui.pending
    BY <1>1, <1>3 DEF Edit, GuiType
  <2> HIDE DEF g
  <2>2. gui'.pending = gui.pending + 1
    BY <1>1, <2>1 DEF RanCommand
  <2> QED
    BY <1>1, <2>2
<1>4. CASE \E k \in CoreKeys : SetCore(k)
  BY <1>3, <1>4 DEF SetCore
<1>5. CASE \E k \in SessionKeys : SetSession(k)
  BY <1>3, <1>5 DEF SetSession
<1>6. CASE \E k \in GuiKeys : SetGui(k)
  BY <1>3, <1>6 DEF SetGui
<1>7. CASE \E d \in {"default", "other"} : SelectDir(d)
  BY <1>1, <1>7 DEF SelectDir, MaySelectDir
<1>8. CASE \E p \in Paths : RequestValidation(p)
  <2>1. gui'.pending = gui.pending
    BY <1>1, <1>8 DEF RequestValidation, GuiType
  <2> QED
    BY <1>2, <2>1
<1>9. CASE BeginShutdown
  <2>1. gui'.pending = gui.pending
    BY <1>1, <1>9 DEF BeginShutdown, GuiType
  <2> QED
    BY <1>2, <2>1
<1>10. CASE WalletSaves \/ WorkerStep \/ Validated \/ UNCHANGED vars
  <2>1. gui' = gui
    BY <1>10 DEF WalletSaves, WorkerStep, NothingToSave, ChangeInMemory, WriteFile, WriteFails,
       SaveGuiSetting, ReadSnapshot, PersistDir, ValidatePath, Validated, vars
  <2> QED
    BY <1>2, <2>1
<1>11. CASE CommandCompleted
  <2> DEFINE g == [AppliedSnapshot(gui) EXCEPT !.threw = FALSE]
  <2>1. gui' = Ended(g)
    BY <1>11 DEF CommandCompleted
  <2>2. g.error = gui.error /\ g.failed = gui.failed
    BY <1>1 DEF AppliedSnapshot, GuiType
  <2> HIDE DEF g
  <2>3. gui'.error = (g.error \/ Answer.error) /\ gui'.failed = (g.failed \/ Answer.error)
    <3>1. PICK error \in BOOLEAN, failed \in BOOLEAN :
            error = (g.error \/ Answer.error) /\ failed = (g.failed \/ Answer.error)
      OBVIOUS
    <3>2. gui' = [g EXCEPT !.pending = @ - 1, !.error = error, !.failed = failed]
      BY <2>1, <3>1, Zenon DEF Ended
    <3>3. gui'.error = error /\ gui'.failed = failed
      BY <2>2, <3>2
    <3> QED
      BY <3>1, <3>3
  <2> QED
    BY <1>1, <2>2, <2>3
<1>12. CASE CommandThrew
  BY <1>1, <1>12 DEF CommandThrew, GuiType
<1>13. CASE DirSelected
  <2>1. gui'.pending = gui.pending
    BY <1>1, <1>13 DEF DirSelected, GuiType
  <2> QED
    BY <1>2, <2>1
<1> QED
  BY <1>4, <1>5, <1>6, <1>7, <1>8, <1>9, <1>10, <1>11, <1>12, <1>13 DEF Next, Deliver

\* What the user sees of a setting follows the newest edit, and what was
\* accepted is saved, however many edits, selections, validations, failed saves
\* and exceptions come in any order (OptionsQmlModel::runCommand and its
\* callbacks, PersistSettings).
THEOREM EditsStayKept == Spec => []EditsAreKept
<1>1. Init => OptionsInv
  BY InitOptions
<1>2. OptionsInv /\ [Next]_vars => OptionsInv'
  BY NextOptions
<1>3. OptionsInv => EditsAreKept
  BY OptionsInvSuffices
<1> QED
  BY <1>1, <1>2, <1>3, PTL DEF Spec

\* The error of a group of commands is shown when its last one is answered:
\* no answer of another one, and no data directory selection, which sets the
\* same error text, clears it (runCommand, finishCommand).
THEOREM FailuresAreShown == Spec => FailureIsShown
<1>1. Init => OptionsInv
  BY InitOptions
<1>2. OptionsInv /\ [Next]_vars => OptionsInv'
  BY NextOptions
<1>3. OptionsInv /\ [Next]_vars =>
        [gui.pending > 0 /\ gui'.pending = 0 /\ gui'.failed => gui'.error]_vars
  BY FailureStep
<1> QED
  BY <1>1, <1>2, <1>3, PTL DEF Spec, FailureIsShown


=============================================================================
