----------------------- MODULE WalletControllerProofs -----------------------
(***************************************************************************)
(* The wallets shown are the wallets of the node, and nobody holds a       *)
(* wallet when the controller says that it has drained, for any number of  *)
(* wallets, commands, RPC clients and operations of the user.              *)
(*                                                                         *)
(* Both rest on what the events posted to the GUI thread promise about the *)
(* models and the node (EventInv), on which models are open in which phase *)
(* (ModelInv, PhaseInv) and on the lock of a wallet's file, which keeps a  *)
(* second wallet of the same name away as long as anyone holds the first   *)
(* (HeldInv).  The payment requests of one wallet, a specification of      *)
(* their own, come last: a request that was paid is locked, its terms are  *)
(* never edited again and its total is the sum of its payments.            *)
(***************************************************************************)
EXTENDS WalletController, ReceiveRequests, FiniteSetTheorems, SequenceTheorems,
        WellFoundedInduction, TLAPS

InstType == [name : Names, setUp : BOOLEAN]
TaskType == [kind : Kinds, name : Names, inst : Nat]
ModelType == [inst : Nat, state : {"open", "retiring", "released", "gone"},
              remove : BOOLEAN, subscribed : BOOLEAN]
ListType == [open : SUBSET Names, loading : Names \cup {NoName}, error : Names \cup {NoName}]
Outcomes == {"wallet", "error", "exception"}
EventType ==
  [type : {"unload", "remove", "drained"}, model : Nat]
    \cup [type : {"result"}, task : TaskType, outcome : Outcomes]
    \cup [type : {"consume", "commandsDrained", "cleanupDrained"}]

----------------------------------------------------------------------------
(* Who holds a wallet *)

\* The worker, or the result of a command.
Returned(i) ==
  \/ \E task \in ToSet(commands) : task.inst = i
  \/ \E e \in ToSet(gui) : e.type = "result" /\ e.task.inst = i
  \/ i \in retained

\* The controller's notification lists.
Notified(i) == i \in ToSet(pending) \/ i \in ToSet(consuming)

\* A model of the wallet that has not let go of it.
Modelled(i) ==
  \E k \in DOMAIN models : models[k].inst = i /\ models[k].state \in {"open", "retiring"}

----------------------------------------------------------------------------
(* The inductive invariant *)

\* The node: a name that is in memory is on disk.
NodeInv ==
  /\ insts \in Seq(InstType)
  /\ loaded \subseteq Instances /\ unannounced \subseteq Instances
  /\ OnDisk \subseteq disk /\ disk \subseteq Names /\ legacy \subseteq Legacy
  /\ \A i \in Instances : insts[i].name \in disk

NotifyInv ==
  /\ pending \in Seq(Nat) /\ ToSet(pending) \subseteq Instances
  /\ consuming \in Seq(Nat) /\ ToSet(consuming) \subseteq Instances

\* What a command or its result says of the wallet it loaded.
GoodTask(task) ==
  task.inst # 0 =>
    /\ task.inst \in Instances /\ insts[task.inst].name = task.name
    /\ task.kind = "migrate" => task.name \in OnDisk

CommandInv ==
  /\ commands \in Seq(TaskType) /\ \A task \in ToSet(commands) : GoodTask(task)
  /\ retained \subseteq Instances
  /\ cmd \in {"open", "stopping", "posted", "drained"}

GoodEvent(e) ==
  /\ e.type = "result" =>
       /\ GoodTask(e.task)
       /\ e.outcome = "wallet" => e.task.inst # 0 /\ insts[e.task.inst].setUp
       /\ e.outcome # "wallet" => e.task.inst \notin loaded
  /\ e.type \in {"unload", "remove"} =>
       e.model \in DOMAIN models \ {Empty} /\ models[e.model].inst \notin loaded
  /\ e.type = "drained" =>
       e.model \in DOMAIN models /\ models[e.model].state \in {"released", "gone"}
  /\ e.type = "commandsDrained" => cmd \in {"posted", "drained"}
  /\ e.type = "cleanupDrained" => cleanup \in {"posted", "drained"}

EventInv == gui \in Seq(EventType) /\ \A e \in ToSet(gui) : GoodEvent(e)

\* The open models are those of m_wallets and, until the shutdown, the empty
\* one; a model that retires without removing its wallet has lost it already.
ModelInv ==
  /\ models \in Seq(ModelType) /\ Len(models) >= 1
  /\ \A k \in DOMAIN models : k # Empty => models[k].inst \in Instances
  /\ \A k \in DOMAIN models : k = Empty => models[k].inst = 0
  /\ open \in Seq(Nat) /\ Open \subseteq DOMAIN models \ {Empty}
  /\ \A i, j \in DOMAIN open : open[i] = open[j] => i = j
  /\ \A k \in DOMAIN models :
       models[k].state = "open" <=> k \in Open \/ (k = Empty /\ ~shuttingDown)
  /\ \A k \in DOMAIN models :
       models[k].state = "retiring" /\ ~models[k].remove /\ ~shuttingDown =>
         models[k].inst \notin loaded

ShownInv ==
  /\ selected \in DOMAIN models /\ retiringNames \subseteq Names
  /\ walletLoaded \in BOOLEAN /\ loadInProgress \in BOOLEAN /\ migrating \in BOOLEAN
  /\ list \in ListType
  /\ SelectedIsOpen

NoResults == \A e \in ToSet(gui) : e.type # "result"

PhaseType ==
  /\ init \in {"no", "listing", "done"} /\ shuttingDown \in BOOLEAN /\ complete \in BOOLEAN
  /\ cleanup \in {"none", "cleaning", "posted", "drained"}

\* Nothing happens to wallets before initialize has listed them.
StartInv ==
  /\ init = "no" => pending = <<>>
  /\ init # "done" =>
       open = <<>> /\ consuming = <<>> /\ commands = <<>> /\ deferred = NoName /\ NoResults

\* shutdown() stops the executors and closes every wallet.
StopInv ==
  /\ shuttingDown => open = <<>> /\ consuming = <<>> /\ init # "listing"
  /\ cmd = "open" <=> ~shuttingDown
  /\ cleanup = "none" <=> ~shuttingDown

\* An executor that has drained has let go of what its tasks held.
DrainInv ==
  /\ cmd \in {"posted", "drained"} => commands = <<>> /\ retained = {}
  /\ cleanup \in {"posted", "drained"} => pending = <<>>

CompleteInv ==
  complete =>
    /\ shuttingDown /\ cmd = "drained" /\ cleanup = "drained"
    /\ \A k \in DOMAIN models : models[k].state = "gone"

PhaseInv == PhaseType /\ StartInv /\ StopInv /\ DrainInv /\ CompleteInv

\* One wallet of a name at a time.
HeldInv ==
  \A i, j \in Instances : Held(i) /\ Held(j) /\ insts[i].name = insts[j].name => i = j

\* A name that is held back was new when its creation began.
DeferredInv ==
  /\ deferred \in (Names \ OnDisk) \cup {NoName}
  /\ HeldBackNotShown

\* A wallet of the name that is held back is known from the command that
\* creates it, so its notification is not needed; unless an RPC client
\* created it.
ReturnedInv ==
  ~shuttingDown =>
    \A i \in loaded : insts[i].name = deferred => Returned(i) \/ Modelled(i)

WalletInv ==
  /\ NodeInv /\ NotifyInv /\ CommandInv /\ EventInv /\ ModelInv /\ ShownInv /\ PhaseInv
  /\ HeldInv /\ OneModelPerName /\ DeferredInv

TrackingInv == ReturnedInv /\ LoadedWalletTracked

----------------------------------------------------------------------------
(* Sequences and the sets of their elements *)

\* An element that is appended to a queue (the GUI event queue, m_wallets,
\* the notifications) is the only new one in it.
LEMMA AppendSet ==
  ASSUME NEW T, NEW s \in Seq(T), NEW x \in T
  PROVE  Append(s, x) \in Seq(T) /\ ToSet(Append(s, x)) = ToSet(s) \cup {x}
<1>1. Append(s, x) \in Seq(T) /\ DOMAIN Append(s, x) = 1..(Len(s) + 1) /\ Len(s) \in Nat
      /\ DOMAIN s = 1..Len(s)
  BY AppendProperties
<1>2. Append(s, x)[Len(s) + 1] = x /\ \A i \in 1..Len(s) : Append(s, x)[i] = s[i]
  BY AppendProperties
<1>3. \A i \in 1..(Len(s) + 1) : i \in 1..Len(s) \/ i = Len(s) + 1
  BY <1>1
<1>4. \A i \in 1..Len(s) : i \in 1..(Len(s) + 1)
  BY <1>1
<1>5. Len(s) + 1 \in 1..(Len(s) + 1)
  BY <1>1
<1> QED
  BY <1>1, <1>2, <1>3, <1>4, <1>5 DEF ToSet

\* Events that are posted together are the only new ones in the queue.
LEMMA ConcatSet ==
  ASSUME NEW T, NEW s \in Seq(T), NEW t \in Seq(T)
  PROVE  s \o t \in Seq(T) /\ ToSet(s \o t) = ToSet(s) \cup ToSet(t)
<1>1. /\ s \o t \in Seq(T) /\ Len(s \o t) = Len(s) + Len(t)
      /\ \A i \in 1..(Len(s) + Len(t)) :
           (s \o t)[i] = IF i <= Len(s) THEN s[i] ELSE t[i - Len(s)]
  BY ConcatProperties
<1>2. /\ Len(s) \in Nat /\ Len(t) \in Nat /\ DOMAIN s = 1..Len(s) /\ DOMAIN t = 1..Len(t)
      /\ DOMAIN (s \o t) = 1..(Len(s) + Len(t))
  BY <1>1, LenProperties
<1>3. ASSUME NEW x \in ToSet(s \o t) PROVE x \in ToSet(s) \cup ToSet(t)
  <2>1. PICK i \in 1..(Len(s) + Len(t)) : x = (s \o t)[i]
    BY <1>2, <1>3 DEF ToSet
  <2>2. CASE i <= Len(s)
    BY <2>1, <2>2, <1>1, <1>2 DEF ToSet
  <2>3. CASE ~(i <= Len(s))
    <3>1. i - Len(s) \in 1..Len(t)
      BY <2>3, <1>2
    <3> QED
      BY <2>1, <2>3, <3>1, <1>1, <1>2 DEF ToSet
  <2> QED
    BY <2>2, <2>3
<1>4. ASSUME NEW x \in ToSet(s) PROVE x \in ToSet(s \o t)
  <2>1. PICK i \in 1..Len(s) : x = s[i]
    BY <1>2, <1>4 DEF ToSet
  <2>2. i \in 1..(Len(s) + Len(t)) /\ (s \o t)[i] = x
    BY <2>1, <1>1, <1>2
  <2> QED
    BY <2>2, <1>2 DEF ToSet
<1>5. ASSUME NEW x \in ToSet(t) PROVE x \in ToSet(s \o t)
  <2>1. PICK i \in 1..Len(t) : x = t[i]
    BY <1>2, <1>5 DEF ToSet
  <2>2. i + Len(s) \in 1..(Len(s) + Len(t)) /\ ~(i + Len(s) <= Len(s)) /\ (i + Len(s)) - Len(s) = i
    BY <1>2
  <2>3. (s \o t)[i + Len(s)] = x
    BY <2>1, <2>2, <1>1
  <2> QED
    BY <2>2, <2>3, <1>2 DEF ToSet
<1> QED
  BY <1>1, <1>3, <1>4, <1>5

\* Taking the first element of a queue leaves the others.
LEMMA HeadTailSet ==
  ASSUME NEW T, NEW s \in Seq(T), s # <<>>
  PROVE  /\ Head(s) \in T /\ Head(s) \in ToSet(s) /\ Tail(s) \in Seq(T)
         /\ ToSet(s) = {Head(s)} \cup ToSet(Tail(s))
<1>1. /\ Len(s) \in Nat /\ Len(s) >= 1 /\ DOMAIN s = 1..Len(s) /\ Tail(s) \in Seq(T)
      /\ Head(s) = s[1] /\ Head(s) \in T /\ DOMAIN Tail(s) = 1..(Len(s) - 1)
      /\ \A i \in 1..(Len(s) - 1) : Tail(s)[i] = s[i + 1]
  BY LenProperties, HeadTailProperties, EmptySeq
<1>2. Head(s) \in ToSet(s)
  BY <1>1 DEF ToSet
<1>3. ASSUME NEW x \in ToSet(Tail(s)) PROVE x \in ToSet(s)
  <2>1. PICK i \in 1..(Len(s) - 1) : x = s[i + 1]
    BY <1>1, <1>3 DEF ToSet
  <2>2. i + 1 \in 1..Len(s)
    BY <1>1
  <2> QED
    BY <2>1, <2>2, <1>1 DEF ToSet
<1>4. ASSUME NEW x \in ToSet(s), x # Head(s) PROVE x \in ToSet(Tail(s))
  <2>1. PICK i \in 1..Len(s) : x = s[i]
    BY <1>1, <1>4 DEF ToSet
  <2>2. i - 1 \in 1..(Len(s) - 1) /\ (i - 1) + 1 = i
    BY <2>1, <1>1, <1>4
  <2>3. Tail(s)[i - 1] = x
    BY <2>1, <2>2, <1>1
  <2> QED
    BY <2>2, <2>3, <1>1 DEF ToSet
<1> QED
  BY <1>1, <1>2, <1>3, <1>4

\* The elements of short queues.
LEMMA ShortSet ==
  ASSUME NEW T, NEW x \in T
  PROVE  /\ <<>> \in Seq(T) /\ ToSet(<<>>) = {}
         /\ <<x>> \in Seq(T) /\ ToSet(<<x>>) = {x}
  BY DEF ToSet

\* Removing a model from m_wallets leaves the other models, in their order.
LEMMA RemoveAtSet ==
  ASSUME NEW T, NEW s \in Seq(T), NEW i \in DOMAIN s,
         \A j, k \in DOMAIN s : s[j] = s[k] => j = k
  PROVE  /\ RemoveAt(s, i) \in Seq(T)
         /\ ToSet(RemoveAt(s, i)) = ToSet(s) \ {s[i]}
         /\ \A j, k \in DOMAIN RemoveAt(s, i) : RemoveAt(s, i)[j] = RemoveAt(s, i)[k] => j = k
<1> DEFINE a == SubSeq(s, 1, i - 1)
           b == SubSeq(s, i + 1, Len(s))
           r == RemoveAt(s, i)
<1>1. Len(s) \in Nat /\ DOMAIN s = 1..Len(s) /\ i \in 1..Len(s)
  BY LenProperties
<1>2. a \in Seq(T) /\ Len(a) = i - 1 /\ \A j \in 1..(i - 1) : a[j] = s[j]
  BY <1>1, SubSeqProperties
<1>3. b \in Seq(T) /\ Len(b) = Len(s) - i /\ \A j \in 1..(Len(s) - i) : b[j] = s[i + j]
  BY <1>1, SubSeqProperties
<1>4. r = a \o b
  BY DEF RemoveAt
<1> HIDE DEF a, b, r
<1>5. r \in Seq(T) /\ Len(r) = Len(s) - 1 /\ DOMAIN r = 1..(Len(s) - 1)
  <2>1. r \in Seq(T) /\ Len(r) = Len(a) + Len(b)
    BY <1>2, <1>3, <1>4, ConcatProperties
  <2> QED
    BY <2>1, <1>1, <1>2, <1>3, LenProperties
<1>6. \A j \in 1..(Len(s) - 1) : r[j] = IF j <= i - 1 THEN a[j] ELSE b[j - (i - 1)]
  BY <1>1, <1>2, <1>3, <1>4, ConcatProperties
<1>7. \A j \in 1..(Len(s) - 1) : r[j] = IF j < i THEN s[j] ELSE s[j + 1]
  <2> TAKE j \in 1..(Len(s) - 1)
  <2>1. CASE j < i
    BY <2>1, <1>1, <1>2, <1>6
  <2>2. CASE ~(j < i)
    <3>1. j - (i - 1) \in 1..(Len(s) - i) /\ i + (j - (i - 1)) = j + 1 /\ ~(j <= i - 1)
      BY <2>2, <1>1
    <3> QED
      BY <2>2, <3>1, <1>3, <1>6
  <2> QED
    BY <2>1, <2>2
<1>8. \A j, k \in 1..(Len(s) - 1) : r[j] = r[k] => j = k
  <2> SUFFICES ASSUME NEW j \in 1..(Len(s) - 1), NEW k \in 1..(Len(s) - 1), r[j] = r[k]
               PROVE  j = k
    OBVIOUS
  <2> DEFINE p(n) == IF n < i THEN n ELSE n + 1
  <2>1. r[j] = s[p(j)] /\ r[k] = s[p(k)] /\ p(j) \in DOMAIN s /\ p(k) \in DOMAIN s
    BY <1>1, <1>7
  <2>2. p(j) = p(k)
    BY <2>1
  <2> QED
    BY <2>2, <1>1
<1>9. ASSUME NEW x \in ToSet(r) PROVE x \in ToSet(s) \ {s[i]}
  <2>1. PICK j \in 1..(Len(s) - 1) : x = r[j]
    BY <1>5, <1>9 DEF ToSet
  <2> DEFINE p == IF j < i THEN j ELSE j + 1
  <2>2. x = s[p] /\ p \in DOMAIN s /\ p # i
    BY <2>1, <1>1, <1>7
  <2> QED
    BY <2>2 DEF ToSet
<1>10. ASSUME NEW x \in ToSet(s), x # s[i] PROVE x \in ToSet(r)
  <2>1. PICK j \in 1..Len(s) : x = s[j]
    BY <1>1, <1>10 DEF ToSet
  <2>2. j # i
    BY <2>1, <1>10
  <2> DEFINE p == IF j < i THEN j ELSE j - 1
  <2>3. p \in 1..(Len(s) - 1) /\ r[p] = s[j]
    BY <2>2, <1>1, <1>7
  <2> QED
    BY <2>1, <2>3, <1>5 DEF ToSet
<1> QED
  BY <1>5, <1>8, <1>9, <1>10 DEF r

----------------------------------------------------------------------------
(* What a step does to a part of the state decides what remains true *)

\* Wallets keep their names, stay set up, and one that is unloaded is not
\* loaded again.
NodeStep ==
  /\ Instances \subseteq Instances'
  /\ \A i \in Instances :
       /\ insts'[i].name = insts[i].name
       /\ insts[i].setUp => insts'[i].setUp
       /\ i \in loaded' => i \in loaded

\* A model keeps its wallet, and one that has let go of it stays so.
ModelStep ==
  /\ DOMAIN models \subseteq DOMAIN models'
  /\ \A k \in DOMAIN models :
       /\ models'[k].inst = models[k].inst
       /\ models[k].state \in {"released", "gone"} => models'[k].state \in {"released", "gone"}

\* An executor that has drained is not used again.
ExecutorStep ==
  /\ cmd \in {"posted", "drained"} => cmd' \in {"posted", "drained"}
  /\ cleanup \in {"posted", "drained"} => cleanup' \in {"posted", "drained"}

\* The lock on a wallet's file, from who holds the wallet.
LEMMA HeldParts ==
  /\ \A i : Held(i) <=> i \in loaded \/ i \in unannounced \/ Notified(i) \/ Returned(i) \/ Modelled(i)
  /\ \A i : (Held(i) <=> i \in loaded \/ i \in unannounced \/ Notified(i) \/ Returned(i) \/ Modelled(i))'
<1>1. \A i : i \in ResultInsts <=> Returned(i)
  BY DEF ResultInsts, Returned, ToSet
<1>2. \A i : (i \in ResultInsts <=> Returned(i))'
  BY DEF ResultInsts, Returned, ToSet
<1> QED
  BY <1>1, <1>2, Zenon DEF Held, Notified, Modelled

\* LoadedWalletTracked, from who knows of the wallet.
Pursued(i) == i \in unannounced \/ Notified(i) \/ Returned(i) \/ Modelled(i)

\* The same for LoadedWalletTracked.
LEMMA TrackedParts ==
  /\ LoadedWalletTracked <=> (Initialized => \A i \in loaded : Pursued(i))
  /\ LoadedWalletTracked' <=> (Initialized => \A i \in loaded : Pursued(i))'
<1>1. \A i : i \in ResultInsts <=> Returned(i)
  BY DEF ResultInsts, Returned, ToSet
<1>2. \A i : (i \in ResultInsts <=> Returned(i))'
  BY DEF ResultInsts, Returned, ToSet
<1> QED
  BY <1>1, <1>2, Zenon DEF LoadedWalletTracked, Pursued, Notified, Modelled

\* A step that leaves the node alone.
LEMMA NodeFrame ==
  ASSUME NodeInv, UNCHANGED nodeVars
  PROVE  NodeInv' /\ NodeStep
<1>1. UNCHANGED <<insts, loaded, unannounced, disk, legacy>>
  BY DEF nodeVars
<1>2. Instances' = Instances
  BY <1>1 DEF Instances
<1> QED
  BY <1>1, <1>2 DEF NodeInv, NodeStep

LEMMA ModelFrame ==
  ASSUME ModelInv, NodeStep, UNCHANGED <<models, open, shuttingDown>>
  PROVE  ModelInv' /\ ModelStep /\ Open' = Open
<1>1. Open' = Open
  BY DEF Open
<1>2. ModelStep
  BY DEF ModelStep
<1>3. \A k \in DOMAIN models : k # Empty => models[k].inst \in Instances'
  BY DEF ModelInv, NodeStep
<1>4. ASSUME NEW k \in DOMAIN models, k # Empty,
             models[k].state = "retiring" /\ ~models[k].remove /\ ~shuttingDown
      PROVE  models[k].inst \notin loaded'
  BY <1>4 DEF ModelInv, NodeStep
<1> QED
  BY <1>1, <1>2, <1>3, <1>4 DEF ModelInv

LEMMA NotifyFrame ==
  ASSUME NotifyInv, NodeStep, UNCHANGED notifyVars
  PROVE  NotifyInv'
  BY DEF NotifyInv, NodeStep, notifyVars

LEMMA TaskKept ==
  ASSUME NEW task, GoodTask(task), NodeStep
  PROVE  GoodTask(task)'
  BY DEF GoodTask, NodeStep

LEMMA CommandFrame ==
  ASSUME CommandInv, NodeStep, UNCHANGED commandVars
  PROVE  CommandInv'
<1>1. \A task \in ToSet(commands) : GoodTask(task)'
  BY TaskKept DEF CommandInv
<1> QED
  BY <1>1 DEF CommandInv, NodeStep, commandVars

\* An event that was posted stays true.
LEMMA EventKept ==
  ASSUME NEW e, GoodEvent(e), NodeInv', ModelInv, NodeStep, ModelStep, ExecutorStep
  PROVE  GoodEvent(e)'
<1>1. ASSUME e.type = "result"
      PROVE  /\ GoodTask(e.task)'
             /\ (e.outcome = "wallet" => e.task.inst # 0 /\ insts[e.task.inst].setUp)'
             /\ (e.outcome # "wallet" => e.task.inst \notin loaded)'
  <2>1. /\ GoodTask(e.task)
        /\ e.outcome = "wallet" => e.task.inst # 0 /\ insts[e.task.inst].setUp
        /\ e.outcome # "wallet" => e.task.inst \notin loaded
    BY <1>1 DEF GoodEvent
  <2>2. GoodTask(e.task)'
    BY <2>1, TaskKept
  <2>3. e.task.inst # 0 => e.task.inst \in Instances
    BY <2>1 DEF GoodTask
  <2>4. 0 \notin loaded'
    BY DEF NodeInv, Instances
  <2> QED
    BY <2>1, <2>2, <2>3, <2>4 DEF NodeStep
<1>2. ASSUME e.type \in {"unload", "remove"}
      PROVE  (e.model \in DOMAIN models \ {Empty} /\ models[e.model].inst \notin loaded)'
  <2>1. e.model \in DOMAIN models \ {Empty} /\ models[e.model].inst \notin loaded
    BY <1>2 DEF GoodEvent
  <2>2. models[e.model].inst \in Instances
    BY <2>1 DEF ModelInv
  <2> QED
    BY <2>1, <2>2 DEF NodeStep, ModelStep, Empty
<1>3. ASSUME e.type = "drained"
      PROVE  (e.model \in DOMAIN models /\ models[e.model].state \in {"released", "gone"})'
  BY <1>3 DEF GoodEvent, ModelStep
<1>4. /\ e.type = "commandsDrained" => cmd' \in {"posted", "drained"}
      /\ e.type = "cleanupDrained" => cleanup' \in {"posted", "drained"}
  BY DEF GoodEvent, ExecutorStep
<1> QED
  BY <1>1, <1>2, <1>3, <1>4 DEF GoodEvent

\* Only the events a step posts need to be looked at.
LEMMA EventsKept ==
  ASSUME EventInv, NodeInv', ModelInv, NodeStep, ModelStep, ExecutorStep,
         gui' \in Seq(EventType),
         \A e \in ToSet(gui') : e \in ToSet(gui) \/ GoodEvent(e)'
  PROVE  EventInv'
<1>1. \A e \in ToSet(gui) : GoodEvent(e)'
  BY EventKept DEF EventInv
<1> QED
  BY <1>1 DEF EventInv

\* No model becomes open.
LEMMA OneKept ==
  ASSUME OneModelPerName, ModelInv, NodeStep, ModelStep, Open' \subseteq Open
  PROVE  OneModelPerName' /\ \A k \in Open : Name(k)' = Name(k)
<1>1. \A k \in Open : k \in DOMAIN models /\ models[k].inst \in Instances
  BY DEF ModelInv, Empty
<1>2. \A k \in Open : Name(k)' = Name(k)
  BY <1>1 DEF Name, NodeStep, ModelStep
<1> QED
  BY <1>2 DEF OneModelPerName

\* No model becomes open and no other name is held back.
LEMMA DeferredKept ==
  ASSUME DeferredInv, NodeInv, ModelInv, NodeStep, ModelStep, Open' \subseteq Open,
         deferred' \in {deferred, NoName}
  PROVE  DeferredInv'
<1>1. \A k \in Open : k \in DOMAIN models /\ models[k].inst \in Instances
  BY DEF ModelInv, Empty
<1>2. \A k \in Open : Name(k)' = Name(k)
  BY <1>1 DEF Name, NodeStep, ModelStep
<1>3. \A k \in Open : Name(k) # NoName
  BY <1>1, NamesAssumption DEF Name, NodeInv
<1>4. \A k \in Open : insts[models[k].inst].setUp => insts'[models'[k].inst].setUp
  BY <1>1 DEF NodeStep, ModelStep
<1>5. HeldBackNotShown'
  BY <1>2, <1>3, <1>4 DEF HeldBackNotShown, DeferredInv
<1> QED
  BY <1>5 DEF DeferredInv

\* Nobody gets hold of a wallet but the one who loads it, whose name was free.
LEMMA HeldKept ==
  ASSUME HeldInv, NodeStep, \A i \in Instances : Held(i)' => Held(i),
         \A i \in Instances' \ Instances : i = Len(insts) + 1 /\ FileFree(insts'[i].name)
  PROVE  HeldInv'
<1> SUFFICES ASSUME NEW i \in Instances', NEW j \in Instances', Held(i)', Held(j)',
                    insts'[i].name = insts'[j].name
             PROVE  i = j
  BY DEF HeldInv
<1>1. CASE i \in Instances /\ j \in Instances
  BY <1>1 DEF HeldInv, NodeStep
<1>2. CASE i \notin Instances /\ j \in Instances
  BY <1>2 DEF FileFree, NodeStep
<1>3. CASE i \in Instances /\ j \notin Instances
  BY <1>3 DEF FileFree, NodeStep
<1>4. CASE i \notin Instances /\ j \notin Instances
  BY <1>4
<1> QED
  BY <1>1, <1>2, <1>3, <1>4

LEMMA ShownFrame ==
  ASSUME ShownInv, UNCHANGED modelVars, UNCHANGED walletLoaded,
         loadInProgress' \in BOOLEAN, migrating' \in BOOLEAN, list' \in ListType
  PROVE  ShownInv'
  BY DEF ShownInv, modelVars, SelectedIsOpen, Open

\* A step that posts no results and leaves the phase and the commands alone.
LEMMA PhaseFrame ==
  ASSUME PhaseInv, UNCHANGED phaseVars, UNCHANGED cmd,
         UNCHANGED <<open, consuming, commands, deferred>>,
         \A e \in ToSet(gui') : e \in ToSet(gui) \/ e.type # "result",
         retained' = retained \/ retained' = {},
         pending' = pending \/ pending' = <<>> \/ (init # "no" /\ ~shuttingDown),
         models' = models \/ ~complete
  PROVE  PhaseInv'
<1>1. UNCHANGED <<init, shuttingDown, complete, cleanup>>
  BY DEF phaseVars
<1>2. PhaseType' /\ StartInv' /\ StopInv'
  BY <1>1 DEF PhaseInv, PhaseType, StartInv, StopInv, NoResults
<1>3. DrainInv' /\ CompleteInv'
  BY <1>1 DEF PhaseInv, DrainInv, StopInv, CompleteInv
<1> QED
  BY <1>2, <1>3 DEF PhaseInv

----------------------------------------------------------------------------
(* Operations of the user that change no wallet *)

\* A selection, or a command that is queued; a creation may hold back its name.
QuietStep ==
  /\ UNCHANGED <<nodeVars, notifyVars, retained, cmd, gui, models, open, retiringNames, phaseVars,
                 walletLoaded>>
  /\ selected' \in Open \cup {selected}
  /\ loadInProgress' \in BOOLEAN /\ migrating' \in BOOLEAN /\ list' \in ListType
  /\ \/ commands' = commands
     \/ Initialized /\ \E task \in TaskType : task.inst = 0 /\ commands' = Append(commands, task)
  /\ \/ deferred' = deferred
     \/ Initialized /\ deferred' \in Names \ disk /\ OpenWithName(deferred') = {}

LEMMA QuietCommands ==
  ASSUME WalletInv, QuietStep
  PROVE  /\ commands' \in Seq(TaskType)
         /\ \A task \in ToSet(commands') : task \in ToSet(commands) \/ task.inst = 0
         /\ \A task \in ToSet(commands) : task \in ToSet(commands')
<1>1. commands \in Seq(TaskType)
  BY DEF WalletInv, CommandInv
<1>2. CASE commands' = commands
  BY <1>1, <1>2
<1>3. CASE \E task \in TaskType : task.inst = 0 /\ commands' = Append(commands, task)
  <2>1. PICK task \in TaskType : task.inst = 0 /\ commands' = Append(commands, task)
    BY <1>3
  <2> QED
    BY <1>1, <2>1, AppendSet
<1> QED
  BY <1>2, <1>3 DEF QuietStep

LEMMA QuietKeeps ==
  ASSUME WalletInv, QuietStep
  PROVE  WalletInv'
<1>1. /\ UNCHANGED nodeVars /\ UNCHANGED notifyVars /\ UNCHANGED phaseVars
      /\ UNCHANGED <<gui, models, open, retained, cmd, retiringNames, walletLoaded>>
  BY DEF QuietStep
<1>2. UNCHANGED <<insts, loaded, unannounced, disk, legacy, pending, consuming>>
      /\ UNCHANGED <<init, shuttingDown, complete, cleanup>>
  BY <1>1 DEF nodeVars, notifyVars, phaseVars
<1>3. NodeInv' /\ NodeStep /\ NotifyInv'
  BY <1>1, NodeFrame, NotifyFrame DEF WalletInv
<1>4. ModelInv' /\ ModelStep /\ Open' = Open
  BY <1>1, <1>2, <1>3, ModelFrame DEF WalletInv
<1>5. CommandInv'
  <2>1. ASSUME NEW task \in ToSet(commands') PROVE GoodTask(task)'
    <3>1. CASE task \in ToSet(commands)
      BY <3>1, <1>3, TaskKept DEF WalletInv, CommandInv
    <3>2. CASE task.inst = 0
      BY <3>2 DEF GoodTask
    <3> QED
      BY <3>1, <3>2, QuietCommands
  <2> QED
    BY <2>1, <1>1, <1>2, <1>3, QuietCommands DEF WalletInv, CommandInv, NodeStep
<1>6. EventInv'
  <2>1. gui' \in Seq(EventType) /\ \A e \in ToSet(gui') : e \in ToSet(gui)
    BY <1>1 DEF WalletInv, EventInv
  <2>2. ExecutorStep
    BY <1>1, <1>2 DEF ExecutorStep
  <2> QED
    BY <2>1, <2>2, <1>3, <1>4, EventsKept DEF WalletInv
<1>7. ShownInv'
  <2>1. selected' \in DOMAIN models
    BY DEF QuietStep, WalletInv, ShownInv, ModelInv
  <2>2. SelectedIsOpen'
    BY <1>1, <1>4 DEF QuietStep, WalletInv, ShownInv, SelectedIsOpen, ModelInv
  <2> QED
    BY <2>1, <2>2, <1>1 DEF QuietStep, WalletInv, ShownInv
<1>8. PhaseInv'
  <2>1. commands' = commands \/ (init = "done" /\ ~shuttingDown)
    BY DEF QuietStep, Initialized
  <2>2. deferred' = deferred \/ (init = "done" /\ ~shuttingDown)
    BY DEF QuietStep, Initialized
  <2>3. PhaseType' /\ StartInv' /\ StopInv'
    BY <2>1, <2>2, <1>1, <1>2 DEF WalletInv, PhaseInv, PhaseType, StartInv, StopInv, NoResults
  <2>4. DrainInv' /\ CompleteInv'
    BY <2>1, <1>1, <1>2 DEF WalletInv, PhaseInv, StopInv, DrainInv, CompleteInv
  <2> QED
    BY <2>3, <2>4 DEF PhaseInv
<1>9. HeldInv'
  <2>1. ASSUME NEW i \in Instances, Held(i)' PROVE Held(i)
    <3>1. i # 0
      BY DEF Instances
    <3>2. Returned(i)' => Returned(i)
      BY <3>1, <1>1, QuietCommands DEF Returned
    <3>3. Notified(i)' => Notified(i)
      BY <1>2 DEF Notified
    <3>4. Modelled(i)' => Modelled(i)
      BY <1>1 DEF Modelled
    <3> QED
      BY <2>1, <3>2, <3>3, <3>4, <1>2, HeldParts
  <2>2. Instances' = Instances
    BY <1>2 DEF Instances
  <2> QED
    BY <2>1, <2>2, <1>3, HeldKept DEF WalletInv
<1>10. OneModelPerName'
  BY <1>3, <1>4, OneKept DEF WalletInv
<1>11. DeferredInv'
  <2>1. CASE deferred' = deferred
    BY <2>1, <1>3, <1>4, DeferredKept DEF WalletInv
  <2>2. CASE deferred' \in Names \ disk /\ OpenWithName(deferred') = {}
    <3>1. deferred' \in Names \ OnDisk
      BY <2>2 DEF WalletInv, NodeInv
    <3>2. \A k \in Open : Name(k) # deferred'
      BY <2>2 DEF OpenWithName
    <3>3. \A k \in Open : Name(k)' = Name(k)
      BY <1>1, <1>2 DEF Name
    <3>4. HeldBackNotShown'
      BY <3>2, <3>3, <1>4 DEF HeldBackNotShown
    <3> QED
      BY <3>1, <3>4 DEF DeferredInv
  <2> QED
    BY <2>1, <2>2 DEF QuietStep
<1> QED
  BY <1>3, <1>4, <1>5, <1>6, <1>7, <1>8, <1>9, <1>10, <1>11 DEF WalletInv

\* A new name is not that of a loaded wallet, so nothing is lost by holding it back.
LEMMA QuietTracks ==
  ASSUME WalletInv, TrackingInv, QuietStep
  PROVE  TrackingInv'
<1>1. /\ UNCHANGED <<insts, loaded, unannounced, disk, legacy, pending, consuming>>
      /\ UNCHANGED <<gui, models, retained, init, shuttingDown>>
  BY DEF QuietStep, nodeVars, notifyVars, phaseVars
<1>2. \A i : Returned(i) => Returned(i)'
  BY <1>1, QuietCommands DEF Returned
<1>3. \A i : Modelled(i) => Modelled(i)'
  BY <1>1 DEF Modelled
<1>4. \A i : Pursued(i) => Pursued(i)'
  BY <1>1, <1>2, <1>3 DEF Pursued, Notified
<1>5. LoadedWalletTracked'
  BY <1>1, <1>4, TrackedParts DEF TrackingInv, Initialized
<1>6. ASSUME NEW i \in loaded, insts[i].name = deferred', ~shuttingDown
      PROVE  Returned(i) \/ Modelled(i)
  <2>1. insts[i].name \in disk
    BY <1>6 DEF WalletInv, NodeInv
  <2> QED
    BY <1>6, <2>1 DEF QuietStep, TrackingInv, ReturnedInv
<1>7. ReturnedInv'
  BY <1>1, <1>2, <1>3, <1>6 DEF ReturnedInv
<1> QED
  BY <1>5, <1>7 DEF TrackingInv

\* Each of the user's operations on the status, the selection and the queue.
LEMMA UserQuiet ==
  ASSUME WalletInv, NEW n \in Names,
         \/ SelectClosing(n) \/ SelectOpen(n) \/ StartLoad(n) \/ Import(n) \/ Migrate(n)
         \/ \E kind \in Kinds : Create(kind, n)
  PROVE  QuietStep
<1>1. /\ list \in ListType /\ loadInProgress \in BOOLEAN /\ migrating \in BOOLEAN
      /\ list.open \subseteq Names /\ list.loading \in Names \cup {NoName}
      /\ list.error \in Names \cup {NoName}
  BY DEF WalletInv, ShownInv, ListType
<1>2. ListError(list, n) \in ListType /\ ListLoading(list, n) \in ListType
  BY <1>1 DEF ListError, ListLoading, ListType
<1>3. ASSUME NEW kind \in Kinds PROVE Task(kind, n) \in TaskType /\ Task(kind, n).inst = 0
  BY DEF Task, TaskType
<1> USE DEF nodeVars, notifyVars, commandVars, modelVars, phaseVars, statusVars
<1>4. CASE SelectClosing(n)
  BY <1>4, <1>1, <1>2 DEF SelectClosing, QuietStep
<1>5. CASE SelectOpen(n)
  BY <1>5, <1>1 DEF SelectOpen, QuietStep, ClearLoadStatus, OpenWithName
<1>6. CASE StartLoad(n)
  BY <1>6, <1>1, <1>2, <1>3 DEF StartLoad, CommandMay, Submit, QuietStep
<1>7. CASE Import(n)
  BY <1>7, <1>1, <1>3 DEF Import, CommandMay, Submit, QuietStep
<1>8. CASE Migrate(n)
  BY <1>8, <1>1, <1>3 DEF Migrate, CommandMay, Submit, QuietStep
<1>9. CASE \E kind \in Kinds : Create(kind, n)
  <2>1. PICK kind \in Kinds : Create(kind, n)
    BY <1>9
  <2>2. /\ Initialized /\ NameAvailable(n) /\ deferred' \in {n, deferred}
        /\ commands' = Append(commands, Task(kind, n))
        /\ loadInProgress' = TRUE /\ migrating' = FALSE /\ list' = list /\ selected' = selected
        /\ UNCHANGED <<nodeVars, notifyVars, retained, cmd, gui, models, open, retiringNames,
                       phaseVars, walletLoaded>>
    BY <2>1 DEF Create, CommandMay, Submit
  <2> QED
    BY <2>2, <1>1, <1>3 DEF QuietStep, NameAvailable
<1> QED
  BY <1>4, <1>5, <1>6, <1>7, <1>8, <1>9

LEMMA ClearStatusQuiet ==
  ASSUME WalletInv, ClearStatus
  PROVE  QuietStep
<1>1. list \in ListType /\ loadInProgress \in BOOLEAN /\ migrating \in BOOLEAN
  BY DEF WalletInv, ShownInv
<1> QED
  BY <1>1 DEF ClearStatus, ClearLoadStatus, ClearMigrationStatus, QuietStep, nodeVars, notifyVars,
              commandVars, modelVars, phaseVars, statusVars

----------------------------------------------------------------------------
(* The node loads, unloads and announces wallets *)

LEMMA TrackedKept ==
  ASSUME LoadedWalletTracked, init' = init, ~shuttingDown' => ~shuttingDown,
         Initialized' =>
           \A i \in loaded' : Pursued(i)' \/ (i \in loaded /\ (Pursued(i) => Pursued(i)'))
  PROVE  LoadedWalletTracked'
  BY TrackedParts DEF Initialized

\* What Returned or Modelled says of a wallet.
Kept(i) == Returned(i) \/ Modelled(i)

LEMMA ReturnedKept ==
  ASSUME ReturnedInv, NodeInv, NodeInv', NodeStep, ~shuttingDown' => ~shuttingDown,
         deferred' \in {deferred, NoName},
         ~shuttingDown' =>
           \A i \in loaded' : \/ Kept(i)' \/ insts'[i].name # deferred'
                              \/ i \in loaded /\ (Kept(i) => Kept(i)')
  PROVE  ReturnedInv'
<1> SUFFICES ASSUME ~shuttingDown', NEW i \in loaded', insts'[i].name = deferred'
             PROVE  Kept(i)'
  BY DEF ReturnedInv, Kept
<1>1. deferred' = deferred
  BY NamesAssumption DEF NodeInv
<1>2. CASE i \in loaded /\ (Kept(i) => Kept(i)')
  <2>1. insts[i].name = deferred
    BY <1>1, <1>2 DEF NodeInv, NodeStep
  <2>2. Kept(i)
    BY <1>2, <2>1 DEF ReturnedInv, Kept
  <2> QED
    BY <1>2, <2>2
<1> QED
  BY <1>2

\* A wallet the node loads has an index of its own and a name that was free.
LEMMA AddToNodeKeeps ==
  ASSUME WalletInv, NEW n \in Names, NEW s \in BOOLEAN, AddToNode(n, s)
  PROVE  /\ NodeInv' /\ NodeStep /\ Len(insts) \in Nat
         /\ Instances' = Instances \cup {Len(insts) + 1} /\ Len(insts) + 1 \notin Instances
         /\ insts'[Len(insts) + 1].name = n
         /\ \A i \in Instances' \ Instances : i = Len(insts) + 1 /\ FileFree(insts'[i].name)
         /\ loaded' = loaded \cup {Len(insts) + 1}
         /\ unannounced' = unannounced \cup {Len(insts) + 1}
<1> DEFINE w == [name |-> n, setUp |-> s]
<1>1. /\ insts' = Append(insts, w) /\ FileFree(n)
      /\ loaded' = loaded \cup {Len(insts) + 1}
      /\ unannounced' = unannounced \cup {Len(insts) + 1}
      /\ disk' = disk \cup {n} /\ legacy' = legacy \ {n}
  BY DEF AddToNode
<1>2. insts \in Seq(InstType) /\ w \in InstType /\ w.name = n
  BY DEF WalletInv, NodeInv, InstType
<1> HIDE DEF w
<1>3. /\ insts' \in Seq(InstType) /\ Len(insts') = Len(insts) + 1 /\ Len(insts) \in Nat
      /\ insts'[Len(insts) + 1] = w /\ \A i \in 1..Len(insts) : insts'[i] = insts[i]
  BY <1>1, <1>2, AppendProperties
<1>4. Instances' = Instances \cup {Len(insts) + 1} /\ Len(insts) + 1 \notin Instances
  BY <1>3 DEF Instances
<1>5. \A i \in Instances : insts'[i] = insts[i]
  BY <1>3 DEF Instances
<1>6. NodeStep
  BY <1>1, <1>4, <1>5 DEF NodeStep
<1>7. \A i \in Instances' : insts'[i].name \in disk'
  BY <1>1, <1>2, <1>3, <1>4, <1>5 DEF WalletInv, NodeInv
<1>8. NodeInv'
  BY <1>1, <1>3, <1>4, <1>7 DEF WalletInv, NodeInv
<1> QED
  BY <1>1, <1>2, <1>3, <1>4, <1>6, <1>8

\* A wallet that is loaded or unloaded while the models, the notifications and
\* the commands stay as they are.
LEMMA NodeOnlyKeeps ==
  ASSUME WalletInv, NodeInv', NodeStep, UNCHANGED <<notifyVars, modelVars, phaseVars>>,
         UNCHANGED <<walletLoaded, deferred, loadInProgress, migrating, list>>, EventInv',
         CommandInv', HeldInv', PhaseInv'
  PROVE  WalletInv'
<1>1. UNCHANGED <<models, open, shuttingDown>>
  BY DEF modelVars, phaseVars
<1>2. ModelInv' /\ ModelStep /\ Open' = Open
  BY <1>1, ModelFrame DEF WalletInv
<1>3. NotifyInv'
  BY NotifyFrame DEF WalletInv
<1>4. ShownInv'
  <2>1. loadInProgress' \in BOOLEAN /\ migrating' \in BOOLEAN /\ list' \in ListType
    BY DEF WalletInv, ShownInv
  <2>2. UNCHANGED modelVars /\ UNCHANGED walletLoaded
    OBVIOUS
  <2> QED
    BY <2>1, <2>2, ShownFrame DEF WalletInv
<1>5. OneModelPerName' /\ DeferredInv'
  BY <1>2, OneKept, DeferredKept DEF WalletInv
<1> QED
  BY <1>2, <1>3, <1>4, <1>5 DEF WalletInv

LEMMA RpcLoadKeeps ==
  ASSUME WalletInv, NEW n \in RpcNames, RpcLoad(n)
  PROVE  /\ WalletInv'
         /\ RpcNames \subseteq OnDisk /\ TrackingInv => TrackingInv'
<1>1. /\ AddToNode(n, TRUE) /\ n \in Names
      /\ UNCHANGED <<notifyVars, modelVars, phaseVars>> /\ UNCHANGED commandVars /\ UNCHANGED gui
      /\ UNCHANGED <<walletLoaded, deferred, loadInProgress, migrating, list>>
  BY NamesAssumption DEF RpcLoad, statusVars
<1>2. UNCHANGED <<pending, consuming, commands, retained, cmd, models, open, init, shuttingDown,
                  complete, cleanup>>
  BY <1>1 DEF notifyVars, commandVars, modelVars, phaseVars
<1>3. /\ NodeInv' /\ NodeStep
      /\ Instances' = Instances \cup {Len(insts) + 1} /\ Len(insts) + 1 \notin Instances
      /\ insts'[Len(insts) + 1].name = n
      /\ \A i \in Instances' \ Instances : i = Len(insts) + 1 /\ FileFree(insts'[i].name)
      /\ loaded' = loaded \cup {Len(insts) + 1}
      /\ unannounced' = unannounced \cup {Len(insts) + 1}
  BY <1>1, AddToNodeKeeps
<1>4. CommandInv'
  BY <1>1, <1>3, CommandFrame DEF WalletInv
<1>5. EventInv'
  <2>1. ModelInv /\ ModelStep
    BY <1>2, <1>3, ModelFrame DEF WalletInv
  <2>2. ExecutorStep
    BY <1>2 DEF ExecutorStep
  <2> QED
    BY <2>1, <2>2, <1>1, <1>3, EventsKept DEF WalletInv, EventInv
<1>6. PhaseInv'
  <2>1. UNCHANGED phaseVars /\ UNCHANGED cmd /\ UNCHANGED <<open, consuming, commands, deferred>>
    BY <1>1, <1>2
  <2> QED
    BY <2>1, <1>1, <1>2, PhaseFrame DEF WalletInv
<1>7. \A i : /\ Returned(i)' <=> Returned(i)
             /\ Notified(i)' <=> Notified(i)
             /\ Modelled(i)' <=> Modelled(i)
  BY <1>1, <1>2 DEF Returned, Notified, Modelled
<1>8. HeldInv'
  <2>1. \A i \in Instances : Held(i)' => Held(i)
    BY <1>3, <1>7, HeldParts
  <2> QED
    BY <2>1, <1>3, HeldKept DEF WalletInv
<1>9. WalletInv'
  BY <1>1, <1>3, <1>4, <1>5, <1>6, <1>8, NodeOnlyKeeps
<1>10. ASSUME RpcNames \subseteq OnDisk, TrackingInv PROVE TrackingInv'
  <2>1. \A i \in loaded' : Pursued(i)' \/ (i \in loaded /\ (Pursued(i) => Pursued(i)'))
    BY <1>3, <1>7 DEF Pursued
  <2>2. LoadedWalletTracked'
    BY <2>1, <1>2, <1>10, TrackedKept DEF TrackingInv
  <2>3. n # deferred'
    BY <1>1, <1>10, NamesAssumption DEF WalletInv, DeferredInv
  <2>4. \A i \in loaded' : \/ Kept(i)' \/ insts'[i].name # deferred'
                           \/ i \in loaded /\ (Kept(i) => Kept(i)')
    BY <2>3, <1>3, <1>7 DEF Kept
  <2>5. ReturnedInv'
    BY <2>4, <1>1, <1>2, <1>3, <1>10, ReturnedKept DEF WalletInv, TrackingInv
  <2> QED
    BY <2>2, <2>5 DEF TrackingInv
<1> QED
  BY <1>9, <1>10

\* The events RemoveWallet posts are for open models of the wallet.
LEMMA UnloadEventsAre ==
  ASSUME WalletInv, NEW i
  PROVE  /\ UnloadEvents(i) \in Seq(EventType)
         /\ \A e \in ToSet(UnloadEvents(i)) :
              e.type = "unload" /\ e.model \in Open /\ models[e.model].inst = i
<1>1. CASE i \in loaded /\ \E k \in Open : models[k].inst = i /\ models[k].subscribed
  <2> DEFINE k == CHOOSE j \in Open : models[j].inst = i /\ models[j].subscribed
             e == ModelEvent("unload", k)
  <2>1. k \in Open /\ models[k].inst = i
    BY <1>1
  <2>2. k \in Nat
    BY <2>1 DEF WalletInv, ModelInv
  <2> HIDE DEF k
  <2>3. e \in EventType /\ e.type = "unload" /\ e.model = k
    BY <2>2 DEF ModelEvent, EventType
  <2>4. UnloadEvents(i) = <<e>>
    BY <1>1 DEF UnloadEvents, k
  <2> HIDE DEF e
  <2> QED
    BY <2>1, <2>3, <2>4, ShortSet
<1>2. CASE ~(i \in loaded /\ \E k \in Open : models[k].inst = i /\ models[k].subscribed)
  <2>1. UnloadEvents(i) = <<>>
    BY <1>2 DEF UnloadEvents
  <2> QED
    BY <2>1 DEF ToSet
<1> QED
  BY <1>1, <1>2

\* A wallet leaves the node, and an open model of it is told.
LEMMA UnloadStep ==
  ASSUME WalletInv, NEW i, loaded' = loaded \ {i}, UNCHANGED <<insts, unannounced, disk, legacy>>
  PROVE  NodeInv' /\ NodeStep /\ Instances' = Instances
<1>1. Instances' = Instances
  BY DEF Instances
<1> QED
  BY <1>1 DEF WalletInv, NodeInv, NodeStep

LEMMA RpcUnloadKeeps ==
  ASSUME WalletInv, NEW i \in Instances, RpcUnload(i)
  PROVE  /\ WalletInv'
         /\ TrackingInv => TrackingInv'
<1>1. /\ loaded' = loaded \ {i} /\ gui' = gui \o UnloadEvents(i)
      /\ UNCHANGED <<notifyVars, modelVars, phaseVars>> /\ UNCHANGED commandVars
      /\ UNCHANGED <<insts, unannounced, disk, legacy>>
      /\ UNCHANGED <<walletLoaded, deferred, loadInProgress, migrating, list>>
  BY DEF RpcUnload, statusVars
<1>2. UNCHANGED <<pending, consuming, commands, retained, cmd, models, open, init, shuttingDown,
                  complete, cleanup>>
  BY <1>1 DEF notifyVars, commandVars, modelVars, phaseVars
<1>3. NodeInv' /\ NodeStep /\ Instances' = Instances
  BY <1>1, UnloadStep
<1>4. CommandInv'
  BY <1>1, <1>3, CommandFrame DEF WalletInv
<1>5. /\ gui' \in Seq(EventType) /\ ToSet(gui) \subseteq ToSet(gui')
      /\ \A e \in ToSet(gui') :
           \/ e \in ToSet(gui)
           \/ e.type = "unload" /\ e.model \in Open /\ models[e.model].inst = i
  <2>1. gui \in Seq(EventType)
    BY DEF WalletInv, EventInv
  <2> QED
    BY <2>1, <1>1, UnloadEventsAre, ConcatSet
<1>6. EventInv'
  <2>1. ModelStep /\ Open \subseteq DOMAIN models \ {Empty}
    BY <1>2, <1>3, ModelFrame DEF WalletInv, ModelInv
  <2>2. ASSUME NEW e, e.type = "unload" /\ e.model \in Open /\ models[e.model].inst = i
        PROVE  GoodEvent(e)'
    BY <2>1, <2>2, <1>1, <1>2 DEF GoodEvent
  <2>3. ExecutorStep
    BY <1>2 DEF ExecutorStep
  <2> QED
    BY <2>1, <2>2, <2>3, <1>3, <1>5, EventsKept DEF WalletInv
<1>7. PhaseInv'
  <2>1. UNCHANGED phaseVars /\ UNCHANGED cmd /\ UNCHANGED <<open, consuming, commands, deferred>>
    BY <1>1, <1>2
  <2>2. \A e \in ToSet(gui') : e \in ToSet(gui) \/ e.type # "result"
    BY <1>5
  <2> QED
    BY <2>1, <2>2, <1>2, PhaseFrame DEF WalletInv
<1>8. \A j : /\ Returned(j)' <=> Returned(j)
             /\ Notified(j)' <=> Notified(j)
             /\ Modelled(j)' <=> Modelled(j)
  BY <1>2, <1>5 DEF Returned, Notified, Modelled
<1>9. HeldInv'
  <2>1. \A j \in Instances : Held(j)' => Held(j)
    BY <1>1, <1>8, HeldParts
  <2> QED
    BY <2>1, <1>3, HeldKept DEF WalletInv
<1>10. WalletInv'
  BY <1>1, <1>3, <1>4, <1>6, <1>7, <1>9, NodeOnlyKeeps
<1>11. ASSUME TrackingInv PROVE TrackingInv'
  <2>1. \A j \in loaded' : Pursued(j)' \/ (j \in loaded /\ (Pursued(j) => Pursued(j)'))
    BY <1>1, <1>8 DEF Pursued
  <2>2. LoadedWalletTracked'
    BY <2>1, <1>2, <1>11, TrackedKept DEF TrackingInv
  <2>3. \A j \in loaded' : j \in loaded /\ (Kept(j) => Kept(j)')
    BY <1>1, <1>8 DEF Kept
  <2>4. ReturnedInv'
    BY <2>3, <1>1, <1>2, <1>3, <1>11, ReturnedKept DEF WalletInv, TrackingInv
  <2> QED
    BY <2>2, <2>4 DEF TrackingInv
<1> QED
  BY <1>10, <1>11

LEMMA AnnounceKeeps ==
  ASSUME WalletInv, NEW i \in Instances, Announce(i)
  PROVE  /\ WalletInv'
         /\ TrackingInv => TrackingInv'
<1> DEFINE notify == init # "no" /\ ~shuttingDown
           c == PlainEvent("consume")
<1>1. /\ i \in unannounced /\ unannounced' = unannounced \ {i}
      /\ notify => pending' = Append(pending, i) /\ gui' = Append(gui, c)
      /\ ~notify => UNCHANGED <<pending, gui>>
      /\ UNCHANGED <<modelVars, phaseVars>> /\ UNCHANGED commandVars
      /\ UNCHANGED <<insts, loaded, disk, legacy, consuming>>
      /\ UNCHANGED <<walletLoaded, deferred, loadInProgress, migrating, list>>
  BY DEF Announce, statusVars
<1>2. UNCHANGED <<consuming, commands, retained, cmd, models, open, init, shuttingDown,
                  complete, cleanup>>
  BY <1>1 DEF commandVars, modelVars, phaseVars
<1>3. NodeInv' /\ NodeStep /\ Instances' = Instances
  <2>1. Instances' = Instances
    BY <1>1 DEF Instances
  <2> QED
    BY <2>1, <1>1 DEF WalletInv, NodeInv, NodeStep
<1>4. CommandInv'
  BY <1>1, <1>3, CommandFrame DEF WalletInv
<1>5. c \in EventType /\ c.type = "consume"
  BY DEF PlainEvent, EventType
<1> HIDE DEF c, notify
<1>6. /\ gui' \in Seq(EventType) /\ ToSet(gui) \subseteq ToSet(gui')
      /\ \A e \in ToSet(gui') : e \in ToSet(gui) \/ e.type = "consume"
  <2>1. gui \in Seq(EventType)
    BY DEF WalletInv, EventInv
  <2>2. CASE notify
    <3>1. gui' = Append(gui, c)
      BY <2>2, <1>1
    <3> QED
      BY <2>1, <3>1, <1>5, AppendSet
  <2>3. CASE ~notify
    BY <2>1, <2>3, <1>1
  <2> QED
    BY <2>2, <2>3
<1>7. /\ pending' \in Seq(Nat) /\ ToSet(pending') = ToSet(pending) \cup (IF notify THEN {i} ELSE {})
  <2>1. pending \in Seq(Nat) /\ i \in Nat
    BY DEF WalletInv, NotifyInv, Instances
  <2>2. CASE notify
    <3>1. pending' = Append(pending, i)
      BY <2>2, <1>1
    <3> QED
      BY <2>1, <2>2, <3>1, AppendSet
  <2>3. CASE ~notify
    BY <2>1, <2>3, <1>1
  <2> QED
    BY <2>2, <2>3
<1>8. NotifyInv'
  BY <1>1, <1>3, <1>7 DEF WalletInv, NotifyInv
<1>9. ModelInv' /\ ModelStep /\ Open' = Open
  BY <1>2, <1>3, ModelFrame DEF WalletInv
<1>10. EventInv'
  <2>1. ASSUME NEW e, e.type = "consume" PROVE GoodEvent(e)'
    BY <2>1 DEF GoodEvent
  <2>2. ExecutorStep
    BY <1>2 DEF ExecutorStep
  <2> QED
    BY <2>1, <2>2, <1>3, <1>6, <1>9, EventsKept DEF WalletInv
<1>11. PhaseInv'
  <2>1. UNCHANGED phaseVars /\ UNCHANGED cmd /\ UNCHANGED <<open, consuming, commands, deferred>>
    BY <1>1, <1>2
  <2>2. \A e \in ToSet(gui') : e \in ToSet(gui) \/ e.type # "result"
    BY <1>6
  <2>3. pending' = pending \/ (init # "no" /\ ~shuttingDown)
    BY <1>1 DEF notify
  <2> QED
    BY <2>1, <2>2, <2>3, <1>2, PhaseFrame DEF WalletInv
<1>12. ShownInv'
  <2>1. loadInProgress' \in BOOLEAN /\ migrating' \in BOOLEAN /\ list' \in ListType
    BY <1>1 DEF WalletInv, ShownInv
  <2>2. UNCHANGED modelVars /\ UNCHANGED walletLoaded
    BY <1>1
  <2> QED
    BY <2>1, <2>2, ShownFrame DEF WalletInv
<1>13. OneModelPerName' /\ DeferredInv'
  BY <1>1, <1>3, <1>9, OneKept, DeferredKept DEF WalletInv
<1>14. \A j : /\ Returned(j)' <=> Returned(j)
              /\ Modelled(j)' <=> Modelled(j)
              /\ Notified(j)' <=> Notified(j) \/ (notify /\ j = i)
  BY <1>2, <1>6, <1>7 DEF Returned, Notified, Modelled
<1>15. HeldInv'
  <2>1. \A j \in Instances : Held(j)' => Held(j)
    BY <1>1, <1>14, HeldParts
  <2> QED
    BY <2>1, <1>3, HeldKept DEF WalletInv
<1>16. ASSUME TrackingInv PROVE TrackingInv'
  <2>1. ASSUME Initialized', NEW j \in loaded' PROVE j \in loaded /\ (Pursued(j) => Pursued(j)')
    <3>1. notify
      BY <2>1, <1>2 DEF Initialized, notify
    <3> QED
      BY <2>1, <3>1, <1>1, <1>14 DEF Pursued
  <2>2. LoadedWalletTracked'
    BY <2>1, <1>2, <1>16, TrackedKept DEF TrackingInv
  <2>3. \A j \in loaded' : j \in loaded /\ (Kept(j) => Kept(j)')
    BY <1>1, <1>14 DEF Kept
  <2>4. ReturnedInv'
    BY <2>3, <1>1, <1>2, <1>3, <1>16, ReturnedKept DEF WalletInv, TrackingInv
  <2> QED
    BY <2>2, <2>4 DEF TrackingInv
<1> QED
  BY <1>3, <1>4, <1>8, <1>9, <1>10, <1>11, <1>12, <1>13, <1>15, <1>16 DEF WalletInv

----------------------------------------------------------------------------
(* The command executor *)

\* The running command's wallet passes to its result, posted or retained.
LEMMA FinishMoves ==
  ASSUME WalletInv, commands # <<>>, NEW outcome \in Outcomes, NEW events \in Seq(EventType),
         \A e \in ToSet(events) : e.type # "result",
         FinishCommand(Head(commands), outcome, events)
  PROVE  /\ commands' \in Seq(TaskType) /\ Head(commands) \in ToSet(commands)
         /\ Head(commands) \in TaskType /\ GoodTask(Head(commands))
         /\ ToSet(commands') \subseteq ToSet(commands)
         /\ gui' \in Seq(EventType)
         /\ \A e \in ToSet(gui') :
              e \in ToSet(gui) \/ e \in ToSet(events) \/ e = ResultEvent(Head(commands), outcome)
         /\ retained' \subseteq Instances
         /\ \A i \in Instances : Returned(i)' <=> Returned(i)
<1> DEFINE task == Head(commands)
           r == ResultEvent(task, outcome)
<1>1. commands \in Seq(TaskType) /\ gui \in Seq(EventType) /\ retained \subseteq Instances
  BY DEF WalletInv, CommandInv, EventInv
<1>2. /\ commands' = Tail(commands)
      /\ shuttingDown => gui' = gui \o events /\ retained' = retained \cup ({task.inst} \ {0})
      /\ ~shuttingDown => gui' = gui \o events \o <<r>> /\ retained' = retained
  BY DEF FinishCommand
<1>3. commands' \in Seq(TaskType) /\ task \in TaskType /\ ToSet(commands) = {task} \cup ToSet(commands')
  BY <1>1, <1>2, HeadTailSet
<1>4. r \in EventType /\ r.type = "result" /\ r.task = task
  BY <1>3 DEF ResultEvent, EventType
<1>5. GoodTask(task)
  BY <1>3 DEF WalletInv, CommandInv
<1>6. task.inst = 0 \/ task.inst \in Instances
  BY <1>5 DEF GoodTask
<1>7. 0 \notin Instances
  BY DEF Instances
<1> HIDE DEF task, r
<1>8. CASE shuttingDown
  <2>1. gui' = gui \o events /\ retained' = retained \cup ({task.inst} \ {0})
    BY <1>2, <1>8
  <2>2. gui' \in Seq(EventType) /\ ToSet(gui') = ToSet(gui) \cup ToSet(events)
    BY <2>1, <1>1, ConcatSet
  <2>3. retained' \subseteq Instances
    BY <2>1, <1>1, <1>6
  <2>4. \A i \in Instances : Returned(i)' <=> Returned(i)
    BY <2>1, <2>2, <1>3, <1>7 DEF Returned
  <2> QED
    BY <2>2, <2>3, <2>4, <1>3, <1>5 DEF task
<1>9. CASE ~shuttingDown
  <2> DEFINE g == gui \o events
             t == <<r>>
  <2>1. gui' = g \o t /\ retained' = retained
    BY <1>2, <1>9
  <2>2. g \in Seq(EventType) /\ ToSet(g) = ToSet(gui) \cup ToSet(events)
    BY <1>1, ConcatSet
  <2>3. t \in Seq(EventType) /\ ToSet(t) = {r}
    BY <1>4, ShortSet
  <2> HIDE DEF g, t
  <2>4. gui' \in Seq(EventType) /\ ToSet(gui') = ToSet(gui) \cup ToSet(events) \cup {r}
    BY <2>1, <2>2, <2>3, ConcatSet
  <2>5. \A i \in Instances : Returned(i)' <=> Returned(i)
    BY <2>1, <2>4, <1>3, <1>4 DEF Returned
  <2>6. retained' \subseteq Instances
    BY <2>1, <1>1
  <2> QED
    BY <2>4, <2>5, <2>6, <1>3, <1>5 DEF task, r
<1> QED
  BY <1>8, <1>9

LEMMA FinishKeeps ==
  ASSUME WalletInv, commands # <<>>, NEW outcome \in Outcomes, NEW events \in Seq(EventType),
         NEW task, task = Head(commands),
         \A e \in ToSet(events) : e.type # "result" /\ GoodEvent(e)',
         FinishCommand(task, outcome, events),
         GoodEvent(ResultEvent(task, outcome))',
         NodeInv', NodeStep, Instances' = Instances, loaded' \subseteq loaded,
         UNCHANGED unannounced, UNCHANGED <<notifyVars, modelVars, phaseVars>>, UNCHANGED cmd,
         UNCHANGED <<walletLoaded, deferred, loadInProgress, migrating, list>>
  PROVE  /\ WalletInv'
         /\ TrackingInv => TrackingInv'
<1>1. UNCHANGED <<pending, consuming, models, open, init, shuttingDown, complete, cleanup>>
  BY DEF notifyVars, modelVars, phaseVars
<1>2. /\ commands' \in Seq(TaskType) /\ ToSet(commands') \subseteq ToSet(commands)
      /\ gui' \in Seq(EventType)
      /\ \A e \in ToSet(gui') : e \in ToSet(gui) \/ GoodEvent(e)'
      /\ retained' \subseteq Instances
      /\ \A i \in Instances : Returned(i)' <=> Returned(i)
  <2>1. \A e \in ToSet(events) : e.type # "result"
    OBVIOUS
  <2>2. \A e \in ToSet(gui') :
          e \in ToSet(gui) \/ e \in ToSet(events) \/ e = ResultEvent(task, outcome)
    BY <2>1, FinishMoves
  <2>3. \A e \in ToSet(gui') : e \in ToSet(gui) \/ GoodEvent(e)'
    BY <2>2
  <2> QED
    BY <2>1, <2>3, FinishMoves
<1>3. CommandInv'
  <2>1. \A t \in ToSet(commands') : GoodTask(t)'
    BY <1>2, TaskKept DEF WalletInv, CommandInv
  <2> QED
    BY <2>1, <1>2 DEF WalletInv, CommandInv
<1>4. EventInv'
  <2>1. ModelStep
    BY <1>1, ModelFrame DEF WalletInv
  <2>2. ExecutorStep
    BY <1>1 DEF ExecutorStep
  <2> QED
    BY <2>1, <2>2, <1>2, EventsKept DEF WalletInv
<1>5. PhaseInv'
  <2>1. init = "done" /\ cmd \notin {"posted", "drained"} /\ ~complete
    BY DEF WalletInv, PhaseInv, StartInv, DrainInv, CompleteInv
  <2> QED
    BY <2>1, <1>1 DEF WalletInv, PhaseInv, PhaseType, StartInv, StopInv, DrainInv, CompleteInv
<1>6. \A i \in Instances : Notified(i)' <=> Notified(i)
  BY <1>1 DEF Notified
<1>7. \A i \in Instances : Modelled(i)' <=> Modelled(i)
  BY <1>1 DEF Modelled
<1>8. HeldInv'
  <2>1. \A i \in Instances : Held(i)' => Held(i)
    BY <1>2, <1>6, <1>7, HeldParts
  <2> QED
    BY <2>1, HeldKept DEF WalletInv
<1>9. WalletInv'
  BY <1>3, <1>4, <1>5, <1>8, NodeOnlyKeeps
<1>10. ASSUME TrackingInv PROVE TrackingInv'
  <2>1. loaded' \subseteq Instances
    BY DEF WalletInv, NodeInv
  <2>2. \A i \in loaded' : i \in loaded /\ (Pursued(i) => Pursued(i)')
    BY <2>1, <1>2, <1>6, <1>7 DEF Pursued
  <2>3. LoadedWalletTracked'
    BY <2>2, <1>1, <1>10, TrackedKept DEF TrackingInv
  <2>4. \A i \in loaded' : i \in loaded /\ (Kept(i) => Kept(i)')
    BY <2>1, <1>2, <1>7 DEF Kept
  <2>5. ReturnedInv'
    BY <2>4, <1>1, <1>10, ReturnedKept DEF WalletInv, TrackingInv
  <2> QED
    BY <2>3, <2>5 DEF TrackingInv
<1> QED
  BY <1>9, <1>10

\* Nothing was loaded, so the result is about no wallet.
LEMMA CommandFailsKeeps ==
  ASSUME WalletInv, NEW outcome \in {"error", "exception"}, CommandFails(outcome)
  PROVE  /\ WalletInv'
         /\ TrackingInv => TrackingInv'
<1>1. PICK task : task = Head(commands)
  OBVIOUS
<1>2. /\ commands # <<>> /\ task.inst = 0 /\ FinishCommand(task, outcome, <<>>)
      /\ UNCHANGED <<notifyVars, modelVars, phaseVars>> /\ UNCHANGED nodeVars /\ UNCHANGED cmd
      /\ UNCHANGED <<walletLoaded, deferred, loadInProgress, migrating, list>>
  BY <1>1 DEF CommandFails, statusVars
<1>3. NodeInv' /\ NodeStep
  BY <1>2, NodeFrame DEF WalletInv
<1>4. UNCHANGED <<insts, loaded, unannounced>> /\ Instances' = Instances /\ loaded' \subseteq loaded
  BY <1>2 DEF nodeVars, Instances
<1>5. 0 \notin loaded'
  BY <1>3 DEF NodeInv, Instances
<1>6. GoodEvent(ResultEvent(task, outcome))'
  BY <1>2, <1>5 DEF GoodEvent, GoodTask, ResultEvent
<1>7. <<>> \in Seq(EventType) /\ ToSet(<<>>) = {}
  BY DEF ToSet
<1>8. outcome \in Outcomes
  BY DEF Outcomes
<1> QED
  BY <1>1, <1>2, <1>3, <1>4, <1>6, <1>7, <1>8, FinishKeeps

\* The loader returns its wallet, set up.
LEMMA CommandReturnsKeeps ==
  ASSUME WalletInv, CommandReturns
  PROVE  /\ WalletInv'
         /\ TrackingInv => TrackingInv'
<1>1. PICK task : task = Head(commands)
  OBVIOUS
<1>2. /\ commands # <<>> /\ task.inst # 0 /\ FinishCommand(task, "wallet", <<>>)
      /\ insts' = [insts EXCEPT ![task.inst].setUp = TRUE]
      /\ UNCHANGED <<notifyVars, modelVars, phaseVars>> /\ UNCHANGED cmd
      /\ UNCHANGED <<loaded, unannounced, disk, legacy>>
      /\ UNCHANGED <<walletLoaded, deferred, loadInProgress, migrating, list>>
  BY <1>1 DEF CommandReturns, statusVars
<1>3. <<>> \in Seq(EventType) /\ ToSet(<<>>) = {} /\ "wallet" \in Outcomes
  BY DEF ToSet, Outcomes
<1>4. GoodTask(task)
  <2>1. \A e \in ToSet(<<>>) : e.type # "result"
    BY <1>3
  <2> QED
    BY <2>1, <1>1, <1>2, <1>3, FinishMoves
<1>5. task.inst \in Instances
  BY <1>2, <1>4 DEF GoodTask
<1>6. insts \in Seq(InstType) /\ Len(insts) \in Nat /\ DOMAIN insts = 1..Len(insts)
  BY LenProperties DEF WalletInv, NodeInv
<1>7. /\ insts' \in Seq(InstType) /\ Len(insts') = Len(insts)
      /\ \A i \in Instances : insts'[i].name = insts[i].name /\ (insts[i].setUp => insts'[i].setUp)
      /\ insts'[task.inst].setUp
  <2> DEFINE w == [insts[task.inst] EXCEPT !.setUp = TRUE]
  <2>1. insts[task.inst] \in InstType
    BY <1>5, <1>6, ElementOfSeq DEF Instances
  <2>2. w \in InstType /\ w.name = insts[task.inst].name /\ w.setUp
    BY <2>1 DEF InstType
  <2>3. insts' = [insts EXCEPT ![task.inst] = w]
    BY <1>2
  <2> HIDE DEF w
  <2>4. insts' \in Seq(InstType) /\ Len(insts') = Len(insts)
    BY <2>2, <2>3, <1>5, <1>6, ExceptSeq DEF Instances
  <2>5. \A i \in Instances : insts'[i] = IF i = task.inst THEN w ELSE insts[i]
    BY <2>3, <1>6 DEF Instances
  <2> QED
    BY <2>2, <2>4, <2>5, <1>5
<1>8. Instances' = Instances
  BY <1>7 DEF Instances
<1>9. NodeInv' /\ NodeStep
  BY <1>2, <1>7, <1>8 DEF WalletInv, NodeInv, NodeStep
<1>10. GoodEvent(ResultEvent(task, "wallet"))'
  <2>1. GoodTask(task)'
    BY <1>4, <1>9, TaskKept
  <2> QED
    BY <2>1, <1>2, <1>7 DEF GoodEvent, ResultEvent
<1>11. loaded' \subseteq loaded /\ UNCHANGED unannounced
  BY <1>2
<1> QED
  BY <1>1, <1>2, <1>3, <1>8, <1>9, <1>10, <1>11, FinishKeeps

\* A watch-only wallet whose setup failed is no longer loaded when the error
\* is posted.
LEMMA SetupFailsKeeps ==
  ASSUME WalletInv, SetupFails
  PROVE  /\ WalletInv'
         /\ TrackingInv => TrackingInv'
<1>1. PICK task : task = Head(commands)
  OBVIOUS
<1> DEFINE events == UnloadEvents(task.inst)
<1>2. /\ commands # <<>> /\ task.inst # 0 /\ FinishCommand(task, "error", events)
      /\ loaded' = loaded \ {task.inst}
      /\ UNCHANGED <<notifyVars, modelVars, phaseVars>> /\ UNCHANGED cmd
      /\ UNCHANGED <<insts, unannounced, disk, legacy>>
      /\ UNCHANGED <<walletLoaded, deferred, loadInProgress, migrating, list>>
  BY <1>1 DEF SetupFails, statusVars
<1>3. NodeInv' /\ NodeStep /\ Instances' = Instances
  BY <1>2, UnloadStep
<1>4. /\ events \in Seq(EventType)
      /\ \A e \in ToSet(events) :
           e.type = "unload" /\ e.model \in Open /\ models[e.model].inst = task.inst
  BY UnloadEventsAre
<1> HIDE DEF events
<1>5. \A e \in ToSet(events) : e.type # "result" /\ GoodEvent(e)'
  <2>1. Open \subseteq DOMAIN models \ {Empty} /\ models' = models
    BY <1>2 DEF WalletInv, ModelInv, modelVars
  <2> QED
    BY <2>1, <1>2, <1>4 DEF GoodEvent
<1>6. GoodTask(task)
  <2>1. \A e \in ToSet(events) : e.type # "result"
    BY <1>5
  <2> QED
    BY <2>1, <1>1, <1>2, <1>4, FinishMoves DEF Outcomes
<1>7. GoodEvent(ResultEvent(task, "error"))'
  <2>1. GoodTask(task)'
    BY <1>3, <1>6, TaskKept
  <2> QED
    BY <2>1, <1>2 DEF GoodEvent, ResultEvent
<1>8. loaded' \subseteq loaded /\ UNCHANGED unannounced /\ "error" \in Outcomes
  BY <1>2 DEF Outcomes
<1> QED
  BY <1>1, <1>2, <1>3, <1>4, <1>5, <1>7, <1>8, FinishKeeps

\* The wallet a command loads is held by the command until it returns.
LEMMA CommandLoadsKeeps ==
  ASSUME WalletInv, CommandLoads
  PROVE  /\ WalletInv'
         /\ TrackingInv => TrackingInv'
<1>1. PICK task : task = Head(commands)
  OBVIOUS
<1>2. PICK new : new = Len(insts) + 1
  OBVIOUS
<1> DEFINE running == [task EXCEPT !.inst = new]
<1>3. /\ commands # <<>> /\ task.inst = 0 /\ CanSucceed(task)
      /\ AddToNode(task.name, task.kind # "watch")
      /\ commands' = <<running>> \o Tail(commands)
      /\ UNCHANGED <<notifyVars, modelVars, phaseVars>> /\ UNCHANGED <<retained, cmd, gui>>
      /\ UNCHANGED <<walletLoaded, deferred, loadInProgress, migrating, list>>
  BY <1>1, <1>2 DEF CommandLoads, statusVars
<1>4. UNCHANGED <<pending, consuming, models, open, init, shuttingDown, complete, cleanup>>
  BY <1>3 DEF notifyVars, modelVars, phaseVars
<1>5. /\ commands \in Seq(TaskType) /\ task \in TaskType /\ Tail(commands) \in Seq(TaskType)
      /\ ToSet(commands) = {task} \cup ToSet(Tail(commands))
  <2>1. commands \in Seq(TaskType)
    BY DEF WalletInv, CommandInv
  <2> QED
    BY <2>1, <1>1, <1>3, HeadTailSet
<1>6. task.name \in Names
  BY <1>5 DEF TaskType
<1>7. /\ NodeInv' /\ NodeStep /\ new \in Nat
      /\ Instances' = Instances \cup {new} /\ new \notin Instances
      /\ insts'[new].name = task.name
      /\ \A i \in Instances' \ Instances : i = Len(insts) + 1 /\ FileFree(insts'[i].name)
      /\ loaded' = loaded \cup {new} /\ unannounced' = unannounced \cup {new}
  <2>1. PICK s \in BOOLEAN : s <=> task.kind # "watch"
    OBVIOUS
  <2>2. AddToNode(task.name, s)
    BY <1>3, <2>1, Zenon DEF AddToNode
  <2> QED
    BY <2>2, <1>2, <1>6, AddToNodeKeeps
<1>8. /\ running \in TaskType /\ running.inst = new /\ running.name = task.name
      /\ running.kind = task.kind
  BY <1>5, <1>7 DEF TaskType
<1> HIDE DEF running
<1>9. commands' \in Seq(TaskType) /\ ToSet(commands') = {running} \cup ToSet(Tail(commands))
  <2> DEFINE first == <<running>>
             rest == Tail(commands)
  <2>1. first \in Seq(TaskType) /\ ToSet(first) = {running} /\ rest \in Seq(TaskType)
    BY <1>5, <1>8, ShortSet
  <2>2. commands' = first \o rest
    BY <1>3
  <2> HIDE DEF first, rest
  <2>3. commands' \in Seq(TaskType) /\ ToSet(commands') = ToSet(first) \cup ToSet(rest)
    BY <2>1, <2>2, ConcatSet
  <2> QED
    BY <2>1, <2>3 DEF rest
<1>10. CommandInv'
  <2>1. GoodTask(running)'
    <3>1. running.kind = "migrate" => running.name \in OnDisk
      BY <1>3, <1>8, NamesAssumption DEF CanSucceed, WalletInv, NodeInv
    <3> QED
      BY <3>1, <1>7, <1>8 DEF GoodTask
  <2>2. \A t \in ToSet(Tail(commands)) : GoodTask(t)'
    BY <1>5, <1>7, TaskKept DEF WalletInv, CommandInv
  <2>3. \A t \in ToSet(commands') : GoodTask(t)'
    BY <2>1, <2>2, <1>9
  <2> QED
    BY <2>3, <1>3, <1>7, <1>9 DEF WalletInv, CommandInv
<1>11. EventInv'
  <2>1. ModelStep
    BY <1>4, <1>7, ModelFrame DEF WalletInv
  <2>2. ExecutorStep
    BY <1>3, <1>4 DEF ExecutorStep
  <2> QED
    BY <2>1, <2>2, <1>3, <1>7, EventsKept DEF WalletInv, EventInv
<1>12. PhaseInv'
  <2>1. init = "done" /\ cmd \notin {"posted", "drained"} /\ ~complete
    BY <1>3 DEF WalletInv, PhaseInv, StartInv, DrainInv, CompleteInv
  <2> QED
    BY <2>1, <1>3, <1>4 DEF WalletInv, PhaseInv, PhaseType, StartInv, StopInv, DrainInv, CompleteInv
<1>13. /\ \A i \in Instances : Returned(i)' <=> Returned(i)
       /\ Returned(new)'
  <2>1. 0 \notin Instances
    BY DEF Instances
  <2> QED
    BY <2>1, <1>3, <1>5, <1>7, <1>8, <1>9 DEF Returned
<1>14. \A i : Notified(i)' <=> Notified(i)
  BY <1>4 DEF Notified
<1>15. \A i : Modelled(i)' <=> Modelled(i)
  BY <1>4 DEF Modelled
<1>16. HeldInv'
  <2>1. \A i \in Instances : Held(i)' => Held(i)
    BY <1>7, <1>13, <1>14, <1>15, HeldParts
  <2> QED
    BY <2>1, <1>7, HeldKept DEF WalletInv
<1>17. WalletInv'
  BY <1>3, <1>7, <1>10, <1>11, <1>12, <1>16, NodeOnlyKeeps
<1>18. ASSUME TrackingInv PROVE TrackingInv'
  <2>1. loaded \subseteq Instances
    BY DEF WalletInv, NodeInv
  <2>2. \A i \in loaded' : Pursued(i)' \/ (i \in loaded /\ (Pursued(i) => Pursued(i)'))
    BY <2>1, <1>7, <1>13, <1>14, <1>15 DEF Pursued
  <2>3. LoadedWalletTracked'
    BY <2>2, <1>4, <1>18, TrackedKept DEF TrackingInv
  <2>4. \A i \in loaded' : Kept(i)' \/ (i \in loaded /\ (Kept(i) => Kept(i)'))
    BY <2>1, <1>7, <1>13, <1>15 DEF Kept
  <2>5. ReturnedInv'
    BY <2>4, <1>3, <1>4, <1>7, <1>18, ReturnedKept DEF WalletInv, TrackingInv
  <2> QED
    BY <2>3, <2>5 DEF TrackingInv
<1> QED
  BY <1>17, <1>18

\* A task of an executor that holds nothing has ended: posted is the last
\* event of its executor.
LEMMA PostedEvent ==
  ASSUME WalletInv, NEW type \in {"commandsDrained", "cleanupDrained"},
         gui' = Append(gui, PlainEvent(type)),
         type = "commandsDrained" => cmd' = "posted", type = "cleanupDrained" => cleanup' = "posted"
  PROVE  /\ gui' \in Seq(EventType) /\ ToSet(gui) \subseteq ToSet(gui')
         /\ \A e \in ToSet(gui') : e \in ToSet(gui) \/ (e.type # "result" /\ GoodEvent(e)')
<1> DEFINE c == PlainEvent(type)
<1>1. gui \in Seq(EventType)
  BY DEF WalletInv, EventInv
<1>2. c \in EventType /\ c.type = type
  BY DEF PlainEvent, EventType
<1>3. c.type # "result" /\ GoodEvent(c)'
  BY <1>2 DEF GoodEvent
<1> HIDE DEF c
<1>4. gui' = Append(gui, c)
  BY DEF c
<1> QED
  BY <1>1, <1>2, <1>3, <1>4, AppendSet

\* A step that moves wallets only among the notifications and the results.
LEMMA BookKeeps ==
  ASSUME WalletInv, UNCHANGED nodeVars, UNCHANGED modelVars, shuttingDown' = shuttingDown,
         UNCHANGED <<walletLoaded, deferred, loadInProgress, migrating, list>>, ExecutorStep,
         NotifyInv', CommandInv', PhaseInv', gui' \in Seq(EventType),
         \A e \in ToSet(gui') : e \in ToSet(gui) \/ GoodEvent(e)',
         \A i \in Instances : Notified(i)' \/ Returned(i)' => Notified(i) \/ Returned(i)
  PROVE  WalletInv'
<1>1. UNCHANGED <<insts, loaded, unannounced, disk, legacy, models, open>>
  BY DEF nodeVars, modelVars
<1>2. NodeInv' /\ NodeStep
  BY NodeFrame DEF WalletInv
<1>3. ModelInv' /\ ModelStep /\ Open' = Open
  BY <1>1, <1>2, ModelFrame DEF WalletInv
<1>4. EventInv'
  BY <1>2, <1>3, EventsKept DEF WalletInv
<1>5. ShownInv'
  <2>1. loadInProgress' \in BOOLEAN /\ migrating' \in BOOLEAN /\ list' \in ListType
    BY DEF WalletInv, ShownInv
  <2>2. UNCHANGED walletLoaded
    OBVIOUS
  <2> QED
    BY <2>1, <2>2, ShownFrame DEF WalletInv
<1>6. OneModelPerName' /\ DeferredInv'
  BY <1>2, <1>3, OneKept, DeferredKept DEF WalletInv
<1>7. HeldInv'
  <2>1. Instances' = Instances
    BY <1>1 DEF Instances
  <2>2. \A i : Modelled(i)' <=> Modelled(i)
    BY <1>1 DEF Modelled
  <2>3. \A i \in Instances : Held(i)' => Held(i)
    BY <2>2, <1>1, HeldParts
  <2> QED
    BY <2>1, <2>3, <1>2, HeldKept DEF WalletInv
<1> QED
  BY <1>2, <1>3, <1>4, <1>5, <1>6, <1>7 DEF WalletInv

LEMMA BookTracks ==
  ASSUME WalletInv, TrackingInv, UNCHANGED nodeVars, UNCHANGED modelVars,
         shuttingDown' = shuttingDown, init' = init, deferred' = deferred,
         ~shuttingDown => \A i \in loaded : (Notified(i) => Notified(i)') /\ (Returned(i) => Returned(i)')
  PROVE  TrackingInv'
<1>1. UNCHANGED <<insts, loaded, unannounced, disk, legacy, models, open>>
  BY DEF nodeVars, modelVars
<1>2. NodeInv' /\ NodeStep
  BY NodeFrame DEF WalletInv
<1>3. \A i : Modelled(i)' <=> Modelled(i)
  BY <1>1 DEF Modelled
<1>4. ASSUME ~shuttingDown', NEW i \in loaded' PROVE i \in loaded /\ (Pursued(i) => Pursued(i)')
  BY <1>1, <1>3, <1>4 DEF Pursued
<1>5. LoadedWalletTracked'
  BY <1>4, TrackedKept DEF TrackingInv, Initialized
<1>6. ASSUME ~shuttingDown', NEW i \in loaded' PROVE i \in loaded /\ (Kept(i) => Kept(i)')
  BY <1>1, <1>3, <1>6 DEF Kept
<1>7. ReturnedInv'
  BY <1>2, <1>6, ReturnedKept DEF WalletInv, TrackingInv
<1> QED
  BY <1>5, <1>7 DEF TrackingInv

LEMMA CommandsDrainKeeps ==
  ASSUME WalletInv, CommandsDrain
  PROVE  /\ WalletInv'
         /\ TrackingInv => TrackingInv'
<1>1. /\ cmd = "stopping" /\ commands = <<>> /\ cmd' = "posted" /\ retained' = {}
      /\ gui' = Append(gui, PlainEvent("commandsDrained"))
      /\ UNCHANGED nodeVars /\ UNCHANGED modelVars /\ UNCHANGED notifyVars /\ UNCHANGED phaseVars
      /\ commands' = commands
      /\ UNCHANGED <<walletLoaded, deferred, loadInProgress, migrating, list>>
  BY DEF CommandsDrain, statusVars
<1>2. UNCHANGED <<pending, consuming, models, open, init, shuttingDown, complete, cleanup>>
  BY <1>1 DEF notifyVars, modelVars, phaseVars
<1>3. /\ gui' \in Seq(EventType) /\ ToSet(gui) \subseteq ToSet(gui')
      /\ \A e \in ToSet(gui') : e \in ToSet(gui) \/ (e.type # "result" /\ GoodEvent(e)')
  BY <1>1, PostedEvent
<1>4. NodeStep
  BY <1>1, NodeFrame DEF WalletInv
<1>5. NotifyInv'
  BY <1>1, <1>4, NotifyFrame DEF WalletInv
<1>6. CommandInv'
  <2>1. \A task \in ToSet(commands) : GoodTask(task)'
    BY <1>4, TaskKept DEF WalletInv, CommandInv
  <2> QED
    BY <2>1, <1>1 DEF WalletInv, CommandInv
<1>7. PhaseInv'
  <2>1. shuttingDown /\ ~complete
    BY <1>1 DEF WalletInv, PhaseInv, StopInv, CompleteInv
  <2>2. PhaseType' /\ StartInv'
    BY <1>1, <1>2, <1>3 DEF WalletInv, PhaseInv, PhaseType, StartInv, NoResults
  <2>3. StopInv' /\ DrainInv' /\ CompleteInv'
    BY <2>1, <1>1, <1>2 DEF WalletInv, PhaseInv, StopInv, DrainInv, CompleteInv
  <2> QED
    BY <2>2, <2>3 DEF PhaseInv
<1>8. \A i : (Notified(i)' => Notified(i)) /\ (Returned(i)' => Returned(i))
  BY <1>1, <1>2, <1>3 DEF Notified, Returned
<1>9. WalletInv'
  <2>1. ExecutorStep
    BY <1>1, <1>2 DEF ExecutorStep
  <2> QED
    BY <2>1, <1>1, <1>2, <1>3, <1>5, <1>6, <1>7, <1>8, BookKeeps
<1>10. ASSUME TrackingInv PROVE TrackingInv'
  <2>1. shuttingDown
    BY <1>1 DEF WalletInv, PhaseInv, StopInv
  <2> QED
    BY <2>1, <1>1, <1>2, <1>10, BookTracks
<1> QED
  BY <1>9, <1>10

LEMMA CleanUpKeeps ==
  ASSUME WalletInv, CleanUpNotifications
  PROVE  /\ WalletInv'
         /\ TrackingInv => TrackingInv'
<1>1. /\ cleanup = "cleaning" /\ cleanup' = "posted" /\ pending' = <<>>
      /\ gui' = Append(gui, PlainEvent("cleanupDrained"))
      /\ UNCHANGED nodeVars /\ UNCHANGED modelVars /\ UNCHANGED commandVars
      /\ UNCHANGED <<consuming, init, shuttingDown, complete>>
      /\ UNCHANGED <<walletLoaded, deferred, loadInProgress, migrating, list>>
  BY DEF CleanUpNotifications, statusVars
<1>2. UNCHANGED <<commands, retained, cmd, models, open>>
  BY <1>1 DEF commandVars, modelVars
<1>3. /\ gui' \in Seq(EventType) /\ ToSet(gui) \subseteq ToSet(gui')
      /\ \A e \in ToSet(gui') : e \in ToSet(gui) \/ (e.type # "result" /\ GoodEvent(e)')
  BY <1>1, PostedEvent
<1>4. NodeStep /\ Instances' = Instances
  BY <1>1, NodeFrame DEF WalletInv, nodeVars, Instances
<1>5. NotifyInv' /\ ToSet(pending') = {}
  BY <1>1, <1>4 DEF WalletInv, NotifyInv, ToSet
<1>6. CommandInv'
  BY <1>1, <1>4, CommandFrame DEF WalletInv
<1>7. PhaseInv'
  <2>1. shuttingDown /\ ~complete
    BY <1>1 DEF WalletInv, PhaseInv, StopInv, CompleteInv
  <2>2. PhaseType' /\ StartInv'
    BY <1>1, <1>2, <1>3 DEF WalletInv, PhaseInv, PhaseType, StartInv, NoResults
  <2>3. StopInv' /\ DrainInv' /\ CompleteInv'
    BY <2>1, <1>1, <1>2 DEF WalletInv, PhaseInv, StopInv, DrainInv, CompleteInv
  <2> QED
    BY <2>2, <2>3 DEF PhaseInv
<1>8. \A i : (Notified(i)' => Notified(i)) /\ (Returned(i)' => Returned(i))
  BY <1>1, <1>2, <1>3, <1>5 DEF Notified, Returned
<1>9. WalletInv'
  <2>1. ExecutorStep
    BY <1>1, <1>2 DEF ExecutorStep
  <2> QED
    BY <2>1, <1>1, <1>3, <1>5, <1>6, <1>7, <1>8, BookKeeps
<1>10. ASSUME TrackingInv PROVE TrackingInv'
  <2>1. shuttingDown
    BY <1>1 DEF WalletInv, PhaseInv, StopInv
  <2> QED
    BY <2>1, <1>1, <1>10, BookTracks
<1> QED
  BY <1>9, <1>10

----------------------------------------------------------------------------
(* Events of the GUI thread that change no wallet *)

\* The event that is taken says something true, and the others stay.
LEMMA EventTaken ==
  ASSUME WalletInv, gui # <<>>
  PROVE  /\ Head(gui) \in EventType /\ GoodEvent(Head(gui)) /\ Head(gui) \in ToSet(gui)
         /\ Tail(gui) \in Seq(EventType)
         /\ ToSet(gui) = {Head(gui)} \cup ToSet(Tail(gui))
<1>1. gui \in Seq(EventType)
  BY DEF WalletInv, EventInv
<1>2. /\ Head(gui) \in EventType /\ Head(gui) \in ToSet(gui) /\ Tail(gui) \in Seq(EventType)
      /\ ToSet(gui) = {Head(gui)} \cup ToSet(Tail(gui))
  BY <1>1, HeadTailSet
<1> QED
  BY <1>2 DEF WalletInv, EventInv

LEMMA EventFields ==
  ASSUME NEW e \in EventType
  PROVE  /\ e.type = "result" => e.task \in TaskType /\ e.outcome \in Outcomes
         /\ e.type \in {"unload", "remove", "drained"} => e.model \in Nat
  BY DEF EventType

LEMMA HandleConsumeKeeps ==
  ASSUME WalletInv, HandleConsume
  PROVE  /\ WalletInv'
         /\ TrackingInv => TrackingInv'
<1>1. PICK e : e = Head(gui)
  OBVIOUS
<1>2. /\ GuiIdle /\ gui # <<>> /\ e.type = "consume" /\ gui' = Tail(gui)
      /\ shuttingDown => UNCHANGED notifyVars
      /\ ~shuttingDown => consuming' = pending /\ pending' = <<>>
      /\ UNCHANGED nodeVars /\ UNCHANGED modelVars /\ UNCHANGED commandVars /\ UNCHANGED phaseVars
      /\ UNCHANGED <<walletLoaded, deferred, loadInProgress, migrating, list>>
  BY <1>1 DEF HandleConsume, Event, statusVars
<1>3. UNCHANGED <<commands, retained, cmd, models, open, init, shuttingDown, complete, cleanup>>
  BY <1>2 DEF commandVars, modelVars, phaseVars
<1>4. gui' \in Seq(EventType) /\ ToSet(gui) = {e} \cup ToSet(gui')
  BY <1>1, <1>2, EventTaken
<1>5. NodeStep /\ Instances' = Instances
  BY <1>2, NodeFrame DEF WalletInv, nodeVars, Instances
<1>6. consuming = <<>> /\ init # "listing"
  BY <1>2 DEF GuiIdle
<1>7. NotifyInv' /\ \A i : Notified(i)' <=> Notified(i)
  <2>1. ToSet(<<>>) = {}
    BY DEF ToSet
  <2>2. CASE shuttingDown
    <3>1. UNCHANGED <<pending, consuming>>
      BY <1>2, <2>2 DEF notifyVars
    <3> QED
      BY <3>1, <1>5 DEF WalletInv, NotifyInv, Notified
  <2>3. CASE ~shuttingDown
    <3>1. consuming' = pending /\ pending' = <<>>
      BY <1>2, <2>3
    <3> QED
      BY <2>1, <3>1, <1>5, <1>6 DEF WalletInv, NotifyInv, Notified
  <2> QED
    BY <2>2, <2>3
<1>8. CommandInv'
  BY <1>2, <1>5, CommandFrame DEF WalletInv
<1>9. PhaseInv'
  <2>1. CASE shuttingDown
    <3>1. UNCHANGED <<pending, consuming>>
      BY <1>2, <2>1 DEF notifyVars
    <3>2. UNCHANGED <<open, consuming, commands, deferred>> /\ UNCHANGED cmd
      BY <3>1, <1>2, <1>3
    <3>3. \A d \in ToSet(gui') : d \in ToSet(gui)
      BY <1>4
    <3> QED
      BY <3>1, <3>2, <3>3, <1>2, <1>3, PhaseFrame DEF WalletInv
  <2>2. CASE ~shuttingDown
    <3>1. cmd = "open" /\ cleanup = "none" /\ ~complete
      BY <2>2 DEF WalletInv, PhaseInv, StopInv, CompleteInv
    <3>2. init # "done" => pending = <<>>
      BY <1>6 DEF WalletInv, PhaseInv, PhaseType, StartInv
    <3> QED
      BY <2>2, <3>1, <3>2, <1>2, <1>3, <1>4, <1>6 DEF WalletInv, PhaseInv, PhaseType, StartInv,
         StopInv, DrainInv, CompleteInv, NoResults
  <2> QED
    BY <2>1, <2>2
<1>10. \A i : Returned(i)' <=> Returned(i)
  BY <1>2, <1>3, <1>4 DEF Returned
<1>11. ExecutorStep
  BY <1>3 DEF ExecutorStep
<1>12. WalletInv'
  BY <1>2, <1>3, <1>4, <1>7, <1>8, <1>9, <1>10, <1>11, BookKeeps
<1>13. TrackingInv => TrackingInv'
  BY <1>2, <1>3, <1>7, <1>10, BookTracks
<1> QED
  BY <1>12, <1>13

\* A result that comes after shutdown() is retained, or dropped with the rest.
LEMMA DropResultKeeps ==
  ASSUME WalletInv, DropResult
  PROVE  /\ WalletInv'
         /\ TrackingInv => TrackingInv'
<1>1. PICK e : e = Head(gui)
  OBVIOUS
<1>2. /\ gui # <<>> /\ e.type = "result" /\ gui' = Tail(gui) /\ shuttingDown
      /\ retained' = IF cmd = "stopping" THEN retained \cup ({e.task.inst} \ {0}) ELSE retained
      /\ UNCHANGED nodeVars /\ UNCHANGED modelVars /\ UNCHANGED notifyVars /\ UNCHANGED phaseVars
      /\ UNCHANGED <<commands, cmd>>
      /\ UNCHANGED <<walletLoaded, deferred, loadInProgress, migrating, list>>
  BY <1>1 DEF DropResult, Event, statusVars
<1>3. UNCHANGED <<pending, consuming, models, open, init, shuttingDown, complete, cleanup>>
  BY <1>2 DEF notifyVars, modelVars, phaseVars
<1>4. gui' \in Seq(EventType) /\ ToSet(gui) = {e} \cup ToSet(gui') /\ GoodEvent(e)
  BY <1>1, <1>2, EventTaken
<1>5. NodeStep /\ Instances' = Instances
  BY <1>2, NodeFrame DEF WalletInv, nodeVars, Instances
<1>6. e.task.inst # 0 => e.task.inst \in Instances
  BY <1>2, <1>4 DEF GoodEvent, GoodTask
<1>7. NotifyInv' /\ \A i : Notified(i)' <=> Notified(i)
  BY <1>2, <1>3, <1>5, NotifyFrame DEF WalletInv, Notified
<1>8. CommandInv'
  <2>1. \A task \in ToSet(commands) : GoodTask(task)'
    BY <1>5, TaskKept DEF WalletInv, CommandInv
  <2> QED
    BY <2>1, <1>2, <1>5, <1>6 DEF WalletInv, CommandInv
<1>9. PhaseInv'
  <2>1. PhaseType' /\ StartInv' /\ StopInv'
    BY <1>2, <1>3, <1>4 DEF WalletInv, PhaseInv, PhaseType, StartInv, StopInv, NoResults
  <2>2. DrainInv' /\ CompleteInv'
    BY <1>2, <1>3 DEF WalletInv, PhaseInv, DrainInv, CompleteInv
  <2> QED
    BY <2>1, <2>2 DEF PhaseInv
<1>10. \A i \in Instances : Returned(i)' => Returned(i)
  BY <1>2, <1>4 DEF Returned
<1>11. ExecutorStep
  BY <1>2, <1>3 DEF ExecutorStep
<1>12. WalletInv'
  BY <1>2, <1>3, <1>4, <1>7, <1>8, <1>9, <1>10, <1>11, BookKeeps
<1>13. TrackingInv => TrackingInv'
  BY <1>2, <1>3, BookTracks
<1> QED
  BY <1>12, <1>13

\* The model's bridge passes the unload on to the controller.
LEMMA HandleUnloadKeeps ==
  ASSUME WalletInv, HandleUnload
  PROVE  /\ WalletInv'
         /\ TrackingInv => TrackingInv'
<1>1. PICK e : e = Head(gui)
  OBVIOUS
<1> DEFINE r == ModelEvent("remove", e.model)
<1>2. /\ gui # <<>> /\ e.type = "unload"
      /\ gui' = Append(Tail(gui), r) \/ gui' = Tail(gui)
      /\ UNCHANGED nodeVars /\ UNCHANGED modelVars /\ UNCHANGED notifyVars
      /\ UNCHANGED commandVars /\ UNCHANGED phaseVars
      /\ UNCHANGED <<walletLoaded, deferred, loadInProgress, migrating, list>>
  BY <1>1 DEF HandleUnload, statusVars
<1>3. /\ UNCHANGED <<pending, consuming, commands, retained, cmd, insts, loaded>>
      /\ UNCHANGED <<models, open, init, shuttingDown, complete, cleanup>>
  BY <1>2 DEF nodeVars, notifyVars, modelVars, commandVars, phaseVars
<1>4. /\ e \in EventType /\ GoodEvent(e) /\ Tail(gui) \in Seq(EventType)
      /\ ToSet(gui) = {e} \cup ToSet(Tail(gui))
  BY <1>1, <1>2, EventTaken
<1>5. NodeStep /\ Instances' = Instances
  BY <1>2, NodeFrame DEF WalletInv, nodeVars, Instances
<1>6. r \in EventType /\ r.type = "remove" /\ r.model = e.model
  BY <1>2, <1>4, EventFields DEF ModelEvent, EventType
<1>7. GoodEvent(r)'
  BY <1>2, <1>3, <1>4, <1>6 DEF GoodEvent
<1> HIDE DEF r
<1>8. /\ gui' \in Seq(EventType)
      /\ \A d \in ToSet(gui') : d \in ToSet(gui) \/ (d.type # "result" /\ GoodEvent(d)')
      /\ \A d \in ToSet(gui) : d \in ToSet(gui') \/ d.type # "result"
  <2> DEFINE rest == Tail(gui)
  <2>1. rest \in Seq(EventType) /\ ToSet(gui) = {e} \cup ToSet(rest)
    BY <1>4
  <2>2. gui' = Append(rest, r) \/ gui' = rest
    BY <1>2
  <2> HIDE DEF rest
  <2>3. CASE gui' = rest
    BY <2>1, <2>3, <1>2
  <2>4. CASE gui' = Append(rest, r)
    <3>1. gui' \in Seq(EventType) /\ ToSet(gui') = ToSet(rest) \cup {r}
      BY <2>1, <2>4, <1>6, AppendSet
    <3> QED
      BY <3>1, <2>1, <1>2, <1>6, <1>7
  <2> QED
    BY <2>2, <2>3, <2>4
<1>9. NotifyInv' /\ CommandInv'
  BY <1>2, <1>5, NotifyFrame, CommandFrame DEF WalletInv
<1>10. PhaseInv'
  <2>1. UNCHANGED <<open, consuming, commands, deferred>> /\ UNCHANGED cmd
    BY <1>2, <1>3
  <2>2. \A d \in ToSet(gui') : d \in ToSet(gui) \/ d.type # "result"
    BY <1>8
  <2> QED
    BY <2>1, <2>2, <1>2, <1>3, PhaseFrame DEF WalletInv
<1>11. \A i : (Returned(i)' <=> Returned(i)) /\ (Notified(i)' <=> Notified(i))
  BY <1>3, <1>8 DEF Returned, Notified
<1>12. ExecutorStep
  BY <1>3 DEF ExecutorStep
<1>13. WalletInv'
  BY <1>2, <1>3, <1>8, <1>9, <1>10, <1>11, <1>12, BookKeeps
<1>14. TrackingInv => TrackingInv'
  BY <1>2, <1>3, <1>11, BookTracks
<1> QED
  BY <1>13, <1>14

\* The shutdown is complete when nothing but the last event was missing.
LEMMA CheckedIsGone ==
  ASSUME WalletInv, NEW c, NEW n, CheckShutdownFinished(models, c, n)
  PROVE  /\ shuttingDown /\ c = "drained" /\ n = "drained"
         /\ \A k \in DOMAIN models : models[k].state = "gone"
<1>1. /\ shuttingDown /\ c = "drained" /\ n = "drained"
      /\ \A k \in DOMAIN models : models[k].state \in {"open", "gone"}
  BY DEF CheckShutdownFinished
<1>2. Open = {}
  BY <1>1 DEF WalletInv, PhaseInv, StopInv, Open, ToSet
<1> QED
  BY <1>1, <1>2 DEF WalletInv, ModelInv

LEMMA ExecutorDrainedKeeps ==
  ASSUME WalletInv, HandleCommandsDrained \/ HandleCleanupDrained
  PROVE  /\ WalletInv'
         /\ TrackingInv => TrackingInv'
<1>1. PICK e : e = Head(gui)
  OBVIOUS
<1>2. /\ gui # <<>> /\ e.type \in {"commandsDrained", "cleanupDrained"} /\ gui' = Tail(gui)
      /\ UNCHANGED nodeVars /\ UNCHANGED modelVars /\ UNCHANGED notifyVars
      /\ UNCHANGED <<commands, retained, init, shuttingDown>>
      /\ UNCHANGED <<walletLoaded, deferred, loadInProgress, migrating, list>>
  BY <1>1 DEF HandleCommandsDrained, HandleCleanupDrained, Event, statusVars, commandVars
<1>3. UNCHANGED <<pending, consuming, models, open>>
  BY <1>2 DEF notifyVars, modelVars
<1>4. gui' \in Seq(EventType) /\ ToSet(gui) = {e} \cup ToSet(gui') /\ GoodEvent(e)
  BY <1>1, <1>2, EventTaken
<1>5. /\ cmd' = cmd \/ (cmd' = "drained" /\ cmd \in {"posted", "drained"})
      /\ cleanup' = cleanup \/ (cleanup' = "drained" /\ cleanup \in {"posted", "drained"})
      /\ complete' = (complete \/ CheckShutdownFinished(models, cmd', cleanup'))
  <2>1. CASE HandleCommandsDrained
    BY <2>1, <1>1, <1>4 DEF HandleCommandsDrained, Event, GoodEvent
  <2>2. CASE HandleCleanupDrained
    BY <2>2, <1>1, <1>4 DEF HandleCleanupDrained, Event, GoodEvent, commandVars
  <2> QED
    BY <2>1, <2>2
<1>6. NodeStep /\ Instances' = Instances
  BY <1>2, NodeFrame DEF WalletInv, nodeVars, Instances
<1>7. NotifyInv'
  BY <1>2, <1>6, NotifyFrame DEF WalletInv
<1>8. CommandInv'
  <2>1. \A task \in ToSet(commands) : GoodTask(task)'
    BY <1>6, TaskKept DEF WalletInv, CommandInv
  <2> QED
    BY <2>1, <1>2, <1>5, <1>6 DEF WalletInv, CommandInv
<1>9. PhaseInv'
  <2>1. complete' \in BOOLEAN
    BY <1>5 DEF WalletInv, PhaseInv, PhaseType, CheckShutdownFinished
  <2>2. PhaseType' /\ StartInv' /\ StopInv'
    BY <2>1, <1>2, <1>3, <1>4, <1>5
       DEF WalletInv, PhaseInv, PhaseType, StartInv, StopInv, NoResults
  <2>3. DrainInv'
    BY <1>2, <1>3, <1>5 DEF WalletInv, PhaseInv, DrainInv
  <2>4. CompleteInv'
    <3>1. CASE complete
      BY <3>1, <1>2, <1>3, <1>5 DEF WalletInv, PhaseInv, CompleteInv
    <3>2. CASE CheckShutdownFinished(models, cmd', cleanup')
      <4>1. /\ shuttingDown /\ cmd' = "drained" /\ cleanup' = "drained"
            /\ \A k \in DOMAIN models : models[k].state = "gone"
        BY <3>2, CheckedIsGone
      <4> QED
        BY <4>1, <1>2, <1>3 DEF CompleteInv
    <3> QED
      BY <3>1, <3>2, <1>5 DEF CompleteInv
  <2> QED
    BY <2>2, <2>3, <2>4 DEF PhaseInv
<1>10. \A i : (Returned(i)' <=> Returned(i)) /\ (Notified(i)' <=> Notified(i))
  BY <1>2, <1>3, <1>4 DEF Returned, Notified
<1>11. ExecutorStep
  BY <1>5 DEF ExecutorStep
<1>12. WalletInv'
  BY <1>2, <1>4, <1>7, <1>8, <1>9, <1>10, <1>11, BookKeeps
<1>13. TrackingInv => TrackingInv'
  BY <1>2, <1>10, BookTracks
<1> QED
  BY <1>12, <1>13

LEMMA RegisterHandlerKeeps ==
  ASSUME WalletInv, RegisterHandler
  PROVE  /\ WalletInv'
         /\ TrackingInv => TrackingInv'
<1>1. /\ init = "no" /\ ~shuttingDown /\ init' = "listing" /\ UNCHANGED gui
      /\ UNCHANGED nodeVars /\ UNCHANGED modelVars /\ UNCHANGED notifyVars /\ UNCHANGED commandVars
      /\ UNCHANGED <<shuttingDown, complete, cleanup>>
      /\ UNCHANGED <<walletLoaded, deferred, loadInProgress, migrating, list>>
  BY DEF RegisterHandler, statusVars
<1>2. /\ UNCHANGED <<pending, consuming, models, open, commands, retained, cmd>>
      /\ UNCHANGED <<insts, loaded>>
  BY <1>1 DEF nodeVars, notifyVars, modelVars, commandVars
<1>3. NodeStep
  BY <1>1, NodeFrame DEF WalletInv
<1>4. NotifyInv' /\ CommandInv'
  BY <1>1, <1>3, NotifyFrame, CommandFrame DEF WalletInv
<1>5. PhaseInv'
  <2>1. PhaseType' /\ StartInv'
    BY <1>1, <1>2 DEF WalletInv, PhaseInv, PhaseType, StartInv, NoResults
  <2>2. StopInv' /\ DrainInv' /\ CompleteInv'
    BY <1>1, <1>2 DEF WalletInv, PhaseInv, StopInv, DrainInv, CompleteInv
  <2> QED
    BY <2>1, <2>2 DEF PhaseInv
<1>6. gui' \in Seq(EventType) /\ \A e \in ToSet(gui') : e \in ToSet(gui)
  BY <1>1 DEF WalletInv, EventInv
<1>7. \A i : /\ Returned(i)' <=> Returned(i)
             /\ Notified(i)' <=> Notified(i)
             /\ Modelled(i)' <=> Modelled(i)
  BY <1>1, <1>2 DEF Returned, Notified, Modelled
<1>8. ExecutorStep
  BY <1>1, <1>2 DEF ExecutorStep
<1>9. WalletInv'
  BY <1>1, <1>4, <1>5, <1>6, <1>7, <1>8, BookKeeps
<1>10. TrackingInv => TrackingInv'
  BY <1>1, <1>2, <1>7, TrackedParts DEF TrackingInv, ReturnedInv, Initialized
<1> QED
  BY <1>9, <1>10

----------------------------------------------------------------------------
(* The life of a model *)

\* What is left to say of a step that changes models but opens none.
LEMMA ModelsKeep ==
  ASSUME WalletInv, NodeInv', NodeStep, ModelInv', ModelStep, ExecutorStep,
         Instances' = Instances, loaded' \subseteq loaded, UNCHANGED unannounced,
         UNCHANGED <<notifyVars, commandVars>>, UNCHANGED deferred,
         Open' \subseteq Open, ShownInv', PhaseInv', gui' \in Seq(EventType),
         \A e \in ToSet(gui') : e \in ToSet(gui) \/ (e.type # "result" /\ GoodEvent(e)'),
         \A i : Modelled(i)' => Modelled(i)
  PROVE  WalletInv'
<1>1. UNCHANGED notifyVars /\ UNCHANGED commandVars
  OBVIOUS
<1>2. NotifyInv' /\ CommandInv'
  BY <1>1, NotifyFrame, CommandFrame DEF WalletInv
<1>3. EventInv'
  BY EventsKept DEF WalletInv
<1>4. OneModelPerName' /\ DeferredInv'
  BY OneKept, DeferredKept DEF WalletInv
<1>5. \A i : (Returned(i)' => Returned(i)) /\ (Notified(i)' => Notified(i))
  BY DEF Returned, Notified, notifyVars, commandVars
<1>6. HeldInv'
  <2>1. \A i \in Instances : Held(i)' => Held(i)
    BY <1>5, HeldParts
  <2> QED
    BY <2>1, HeldKept DEF WalletInv
<1> QED
  BY <1>2, <1>3, <1>4, <1>6 DEF WalletInv

\* The executor of a retiring model lets go of the wallet.
LEMMA ReleaseModelKeeps ==
  ASSUME WalletInv, NEW k \in DOMAIN models, ReleaseModel(k)
  PROVE  /\ WalletInv'
         /\ TrackingInv => TrackingInv'
<1>1. PICK i : i = models[k].inst
  OBVIOUS
<1>2. PICK unload : unload = IF models[k].remove THEN UnloadEvents(i) ELSE <<>>
  OBVIOUS
<1> DEFINE d == ModelEvent("drained", k)
           last == <<d>>
<1>3. /\ models[k].state = "retiring" /\ models' = [models EXCEPT ![k].state = "released"]
      /\ loaded' = IF models[k].remove THEN loaded \ {i} ELSE loaded
      /\ gui' = (gui \o unload) \o last
      /\ UNCHANGED <<insts, unannounced, disk, legacy>>
      /\ UNCHANGED <<notifyVars, commandVars>> /\ UNCHANGED phaseVars
      /\ UNCHANGED <<open, selected, retiringNames, walletLoaded>>
      /\ UNCHANGED <<deferred, loadInProgress, migrating, list>>
  BY <1>1, <1>2 DEF ReleaseModel, statusVars
<1>4. /\ UNCHANGED <<pending, consuming, commands, retained, cmd>>
      /\ UNCHANGED <<init, shuttingDown, complete, cleanup>>
  BY <1>3 DEF notifyVars, commandVars, phaseVars
<1>5. NodeInv' /\ NodeStep /\ Instances' = Instances /\ loaded' \subseteq loaded
  <2>1. CASE models[k].remove
    BY <2>1, <1>3, UnloadStep
  <2>2. CASE ~models[k].remove
    <3>1. UNCHANGED nodeVars
      BY <2>2, <1>3 DEF nodeVars
    <3> QED
      BY <3>1, <2>2, <1>3, NodeFrame DEF WalletInv, Instances
  <2> QED
    BY <2>1, <2>2
<1>6. /\ models \in Seq(ModelType) /\ models[k] \in ModelType /\ k \in Nat
      /\ Open \subseteq DOMAIN models \ {Empty}
  BY ElementOfSeq, LenProperties DEF WalletInv, ModelInv
<1>7. /\ models' \in Seq(ModelType) /\ Len(models') = Len(models) /\ DOMAIN models' = DOMAIN models
      /\ \A j \in DOMAIN models : j # k => models'[j] = models[j]
      /\ models'[k].state = "released" /\ models'[k].inst = i /\ models'[k].remove = models[k].remove
  <2> DEFINE m == [models[k] EXCEPT !.state = "released"]
  <2>1. m \in ModelType /\ m.state = "released" /\ m.inst = i /\ m.remove = models[k].remove
    BY <1>1, <1>6 DEF ModelType
  <2>2. models' = [models EXCEPT ![k] = m]
    BY <1>3
  <2> HIDE DEF m
  <2> QED
    BY <2>1, <2>2, <1>6, ExceptSeq, LenProperties
<1>8. k \notin Open /\ Open' = Open
  BY <1>3 DEF WalletInv, ModelInv, Open
<1>9. ModelStep
  BY <1>1, <1>3, <1>7 DEF ModelStep
<1>10. ModelInv'
  <2>1. \A j \in DOMAIN models' : j # Empty => models'[j].inst \in Instances
    BY <1>1, <1>7 DEF WalletInv, ModelInv
  <2>2. \A j \in DOMAIN models' : (models'[j].state = "open") <=> (models[j].state = "open")
    BY <1>3, <1>7
  <2>3. \A j \in DOMAIN models' :
          (models'[j].state = "retiring" /\ ~models'[j].remove /\ ~shuttingDown) =>
            models'[j].inst \notin loaded'
    BY <1>5, <1>7 DEF WalletInv, ModelInv
  <2> QED
    BY <2>1, <2>2, <2>3, <1>3, <1>4, <1>5, <1>7, <1>8 DEF WalletInv, ModelInv
<1>11. d \in EventType /\ d.type = "drained" /\ d.model = k
  BY <1>6 DEF ModelEvent, EventType
<1>12. GoodEvent(d)'
  BY <1>7, <1>11 DEF GoodEvent
<1> HIDE DEF d
<1>13. /\ unload \in Seq(EventType)
       /\ \A e \in ToSet(unload) : e.type = "unload" /\ GoodEvent(e)'
  <2>1. CASE models[k].remove
    <3>1. unload = UnloadEvents(i)
      BY <1>2, <2>1
    <3>2. /\ unload \in Seq(EventType)
          /\ \A e \in ToSet(unload) : e.type = "unload" /\ e.model \in Open /\ models[e.model].inst = i
      BY <3>1, UnloadEventsAre
    <3>3. \A e \in ToSet(unload) : e.model \in DOMAIN models' \ {Empty} /\ models'[e.model].inst = i
      BY <3>2, <1>6, <1>7, <1>8
    <3> QED
      BY <2>1, <3>2, <3>3, <1>3 DEF GoodEvent
  <2>2. CASE ~models[k].remove
    <3>1. unload = <<>>
      BY <1>2, <2>2
    <3> QED
      BY <3>1 DEF ToSet
  <2> QED
    BY <2>1, <2>2
<1>14. /\ gui' \in Seq(EventType)
       /\ \A e \in ToSet(gui') : e \in ToSet(gui) \/ (e.type # "result" /\ GoodEvent(e)')
       /\ ToSet(gui) \subseteq ToSet(gui')
  <2> DEFINE g == gui \o unload
  <2>1. last \in Seq(EventType) /\ ToSet(last) = {d}
    BY <1>11, ShortSet
  <2>2. g \in Seq(EventType) /\ ToSet(g) = ToSet(gui) \cup ToSet(unload)
    BY <1>13, ConcatSet DEF WalletInv, EventInv
  <2>3. gui' = g \o last
    BY <1>3
  <2> HIDE DEF g, last
  <2>4. gui' \in Seq(EventType) /\ ToSet(gui') = ToSet(g) \cup ToSet(last)
    BY <2>1, <2>2, <2>3, ConcatSet
  <2> QED
    BY <2>1, <2>2, <2>4, <1>11, <1>12, <1>13
<1>15. ShownInv'
  BY <1>3, <1>7, <1>8 DEF WalletInv, ShownInv, SelectedIsOpen
<1>16. PhaseInv'
  <2>1. ~complete
    BY <1>3 DEF WalletInv, PhaseInv, CompleteInv
  <2>2. UNCHANGED <<open, consuming, commands, deferred>> /\ UNCHANGED cmd
    BY <1>3, <1>4
  <2>3. \A e \in ToSet(gui') : e \in ToSet(gui) \/ e.type # "result"
    BY <1>14
  <2> QED
    BY <2>1, <2>2, <2>3, <1>3, <1>4, PhaseFrame DEF WalletInv
<1>17. \A j : Modelled(j)' => Modelled(j)
  BY <1>7 DEF Modelled
<1>18. ExecutorStep
  BY <1>4 DEF ExecutorStep
<1>19. WalletInv'
  BY <1>3, <1>5, <1>8, <1>9, <1>10, <1>14, <1>15, <1>16, <1>17, <1>18, ModelsKeep
<1>20. ASSUME TrackingInv PROVE TrackingInv'
  <2>1. ~shuttingDown => i \notin loaded'
    BY <1>1, <1>3 DEF WalletInv, ModelInv
  <2>2. \A j : j # i => (Modelled(j) => Modelled(j)')
    BY <1>1, <1>7 DEF Modelled
  <2>3. \A j : (Returned(j) => Returned(j)') /\ (Notified(j) => Notified(j)')
    BY <1>4, <1>14 DEF Returned, Notified
  <2>4. ASSUME ~shuttingDown', NEW j \in loaded'
        PROVE  j \in loaded /\ (Pursued(j) => Pursued(j)') /\ (Kept(j) => Kept(j)')
    BY <2>1, <2>2, <2>3, <2>4, <1>3, <1>4, <1>5 DEF Pursued, Kept
  <2>5. LoadedWalletTracked'
    BY <2>4, <1>4, <1>20, TrackedKept DEF TrackingInv, Initialized
  <2>6. ReturnedInv'
    BY <2>4, <1>3, <1>4, <1>5, <1>20, ReturnedKept DEF WalletInv, TrackingInv
  <2> QED
    BY <2>5, <2>6 DEF TrackingInv
<1> QED
  BY <1>19, <1>20

\* A model that is done with is forgotten, and its name may be used again.
LEMMA HandleModelDrainedKeeps ==
  ASSUME WalletInv, HandleModelDrained
  PROVE  /\ WalletInv'
         /\ TrackingInv => TrackingInv'
<1>1. PICK e : e = Head(gui)
  OBVIOUS
<1>2. PICK k : k = e.model
  OBVIOUS
<1>3. /\ gui # <<>> /\ e.type = "drained" /\ gui' = Tail(gui)
      /\ models' = [models EXCEPT ![k].state = "gone"] /\ retiringNames' = FreeClosingName(k)
      /\ complete' = (complete \/ CheckShutdownFinished(models', cmd, cleanup))
      /\ UNCHANGED nodeVars /\ UNCHANGED <<notifyVars, commandVars>>
      /\ UNCHANGED <<open, selected, init, shuttingDown, cleanup, walletLoaded>>
      /\ UNCHANGED <<deferred, loadInProgress, migrating, list>>
  BY <1>1, <1>2 DEF HandleModelDrained, Event, statusVars
<1>4. /\ UNCHANGED <<pending, consuming, commands, retained, cmd>>
      /\ UNCHANGED <<insts, loaded, unannounced>>
  BY <1>3 DEF notifyVars, commandVars, nodeVars
<1>5. gui' \in Seq(EventType) /\ ToSet(gui) = {e} \cup ToSet(gui') /\ GoodEvent(e)
  BY <1>1, <1>3, EventTaken
<1>6. k \in DOMAIN models /\ models[k].state \in {"released", "gone"}
  BY <1>2, <1>3, <1>5 DEF GoodEvent
<1>7. NodeInv' /\ NodeStep /\ Instances' = Instances
  BY <1>3, NodeFrame DEF WalletInv, nodeVars, Instances
<1>8. models \in Seq(ModelType) /\ models[k] \in ModelType
  BY <1>6, ElementOfSeq, LenProperties DEF WalletInv, ModelInv
<1>9. /\ models' \in Seq(ModelType) /\ Len(models') = Len(models) /\ DOMAIN models' = DOMAIN models
      /\ \A j \in DOMAIN models : j # k => models'[j] = models[j]
      /\ models'[k].state = "gone" /\ models'[k].inst = models[k].inst
  <2> DEFINE m == [models[k] EXCEPT !.state = "gone"]
  <2>1. m \in ModelType /\ m.state = "gone" /\ m.inst = models[k].inst
    BY <1>8 DEF ModelType
  <2>2. models' = [models EXCEPT ![k] = m]
    BY <1>3
  <2> HIDE DEF m
  <2> QED
    BY <2>1, <2>2, <1>6, <1>8, ExceptSeq, LenProperties
<1>10. Open' = Open /\ ModelStep
  BY <1>3, <1>6, <1>9 DEF Open, ModelStep
<1>11. ModelInv'
  <2>1. \A j \in DOMAIN models' : j # Empty => models'[j].inst \in Instances
    BY <1>9 DEF WalletInv, ModelInv
  <2>2. \A j \in DOMAIN models' : (models'[j].state = "open") <=> (models[j].state = "open")
    BY <1>6, <1>9
  <2>3. \A j \in DOMAIN models' :
          (models'[j].state = "retiring" /\ ~models'[j].remove /\ ~shuttingDown) =>
            models'[j].inst \notin loaded
    BY <1>6, <1>9 DEF WalletInv, ModelInv
  <2> QED
    BY <2>1, <2>2, <2>3, <1>3, <1>4, <1>7, <1>9, <1>10 DEF WalletInv, ModelInv
<1>12. ShownInv'
  <2>1. retiringNames' \subseteq retiringNames
    BY <1>3 DEF FreeClosingName
  <2> QED
    BY <2>1, <1>3, <1>9, <1>10 DEF WalletInv, ShownInv, SelectedIsOpen
<1>13. PhaseInv'
  <2>1. complete' \in BOOLEAN
    BY <1>3 DEF WalletInv, PhaseInv, PhaseType, CheckShutdownFinished
  <2>2. PhaseType' /\ StartInv'
    BY <2>1, <1>3, <1>4, <1>5 DEF WalletInv, PhaseInv, PhaseType, StartInv, NoResults
  <2>3. StopInv' /\ DrainInv'
    BY <1>3, <1>4 DEF WalletInv, PhaseInv, StopInv, DrainInv
  <2>4. CompleteInv'
    <3>1. CASE complete
      BY <3>1, <1>3, <1>4, <1>9 DEF WalletInv, PhaseInv, CompleteInv
    <3>2. CASE CheckShutdownFinished(models', cmd, cleanup)
      <4>1. /\ shuttingDown /\ cmd = "drained" /\ cleanup = "drained"
            /\ \A j \in DOMAIN models' : models'[j].state \in {"open", "gone"}
        BY <3>2 DEF CheckShutdownFinished
      <4>2. Open' = {}
        BY <4>1, <1>10 DEF WalletInv, PhaseInv, StopInv, Open, ToSet
      <4>3. \A j \in DOMAIN models' : models'[j].state # "open"
        BY <4>1, <4>2, <1>3, <1>11 DEF ModelInv
      <4> QED
        BY <4>1, <4>3, <1>3, <1>4 DEF CompleteInv
    <3> QED
      BY <3>1, <3>2, <1>3 DEF CompleteInv
  <2> QED
    BY <2>2, <2>3, <2>4 DEF PhaseInv
<1>14. \A j : Modelled(j)' <=> Modelled(j)
  BY <1>6, <1>9 DEF Modelled
<1>15. \A j : (Returned(j) => Returned(j)') /\ (Notified(j) => Notified(j)')
  BY <1>3, <1>4, <1>5 DEF Returned, Notified
<1>16. ExecutorStep
  BY <1>3, <1>4 DEF ExecutorStep
<1>17. WalletInv'
  BY <1>3, <1>4, <1>5, <1>7, <1>10, <1>11, <1>12, <1>13, <1>14, <1>16, ModelsKeep
<1>18. ASSUME TrackingInv PROVE TrackingInv'
  <2>1. \A j \in loaded' : j \in loaded /\ (Pursued(j) => Pursued(j)') /\ (Kept(j) => Kept(j)')
    BY <1>4, <1>14, <1>15 DEF Pursued, Kept
  <2>2. LoadedWalletTracked'
    BY <2>1, <1>3, <1>18, TrackedKept DEF TrackingInv
  <2>3. ReturnedInv'
    BY <2>1, <1>3, <1>7, <1>18, ReturnedKept DEF WalletInv, TrackingInv
  <2> QED
    BY <2>2, <2>3 DEF TrackingInv
<1> QED
  BY <1>17, <1>18

----------------------------------------------------------------------------
(* Models leave m_wallets *)

\* retireWallet: the models keep their wallets until they are released.
LEMMA RetireModels ==
  ASSUME WalletInv, NEW ks \in SUBSET DOMAIN models, NEW remove \in BOOLEAN, Retire(ks, remove)
  PROVE  /\ models' \in Seq(ModelType) /\ DOMAIN models' = DOMAIN models
         /\ Len(models') = Len(models)
         /\ \A j \in DOMAIN models \ ks : models'[j] = models[j]
         /\ \A j \in ks : /\ models'[j].state = "retiring" /\ models'[j].remove = remove
                          /\ models'[j].inst = models[j].inst
         /\ retiringNames' \subseteq Names
<1>1. /\ models \in Seq(ModelType) /\ DOMAIN models = 1..Len(models) /\ Len(models) \in Nat
      /\ \A j \in DOMAIN models : models[j] \in ModelType
  BY ElementOfSeq, LenProperties DEF WalletInv, ModelInv
<1>2. models' = [k \in DOMAIN models |->
                   IF k \in ks THEN [models[k] EXCEPT !.state = "retiring", !.remove = remove]
                   ELSE models[k]]
  BY DEF Retire
<1>3. \A j \in ks : /\ models'[j] \in ModelType
                    /\ models'[j].state = "retiring" /\ models'[j].remove = remove
                    /\ models'[j].inst = models[j].inst
  BY <1>1, <1>2 DEF ModelType
<1>4. DOMAIN models' = DOMAIN models /\ \A j \in DOMAIN models \ ks : models'[j] = models[j]
  BY <1>2
<1>5. \A j \in 1..Len(models) : models'[j] \in ModelType
  BY <1>1, <1>3, <1>4
<1>6. models' \in [1..Len(models) -> ModelType]
  BY <1>1, <1>2, <1>5
<1>7. models' \in Seq(ModelType) /\ Len(models') = Len(models)
  BY <1>1, <1>6, LenProperties
<1>8. retiringNames' \subseteq Names
  <2>1. \A k \in ks \ {Empty} : Name(k) \in Names
    BY DEF Name, WalletInv, ModelInv, NodeInv
  <2> QED
    BY <2>1 DEF Retire, WalletInv, ShownInv
<1> QED
  BY <1>3, <1>4, <1>7, <1>8

LEMMA ListClosedIs ==
  ASSUME NEW ns, list \in ListType
  PROVE  ListClosed(list, ns) \in ListType
<1>1. /\ list.open \subseteq Names /\ list.loading \in Names \cup {NoName}
      /\ list.error \in Names \cup {NoName}
  BY DEF ListType
<1> QED
  BY <1>1 DEF ListClosed, ListType

\* m_wallets without a model it has.
LEMMA WithoutIs ==
  ASSUME WalletInv, NEW k \in Open
  PROVE  /\ Without(k) \in Seq(Nat) /\ ToSet(Without(k)) = Open \ {k}
         /\ \A i, j \in DOMAIN Without(k) : Without(k)[i] = Without(k)[j] => i = j
         /\ Without(k) # <<>> => Head(Without(k)) \in Open \ {k}
<1> DEFINE p == CHOOSE i \in DOMAIN open : open[i] = k
<1>1. \E i \in DOMAIN open : open[i] = k
  BY DEF Open, ToSet
<1>2. p \in DOMAIN open /\ open[p] = k
  BY <1>1
<1>3. open \in Seq(Nat) /\ \A i, j \in DOMAIN open : open[i] = open[j] => i = j
  BY DEF WalletInv, ModelInv
<1>4. Without(k) = RemoveAt(open, p)
  BY DEF Without
<1> HIDE DEF p
<1>5. /\ Without(k) \in Seq(Nat) /\ ToSet(Without(k)) = Open \ {k}
      /\ \A i, j \in DOMAIN Without(k) : Without(k)[i] = Without(k)[j] => i = j
  BY <1>2, <1>3, <1>4, RemoveAtSet DEF Open
<1> QED
  BY <1>5, HeadTailSet

\* removeWalletModel: the model retires, and another one is selected.
LEMMA RemoveModelKeeps ==
  ASSUME WalletInv, NEW k \in Open, NEW remove \in BOOLEAN, RemoveModel(k, remove),
         remove \/ models[k].inst \notin loaded,
         UNCHANGED nodeVars, UNCHANGED <<notifyVars, commandVars>>, UNCHANGED phaseVars,
         UNCHANGED deferred, loadInProgress' \in BOOLEAN, migrating' \in BOOLEAN,
         gui' \in Seq(EventType), ToSet(gui') \subseteq ToSet(gui),
         \A e \in ToSet(gui) : e.type = "result" => e \in ToSet(gui')
  PROVE  /\ WalletInv'
         /\ TrackingInv => TrackingInv'
<1>1. PICK rest : rest = Without(k)
  OBVIOUS
<1>2. /\ rest \in Seq(Nat) /\ ToSet(rest) = Open \ {k}
      /\ \A i, j \in DOMAIN rest : rest[i] = rest[j] => i = j
      /\ rest # <<>> => Head(rest) \in Open \ {k}
  BY <1>1, WithoutIs
<1>3. /\ open' = rest
      /\ selected' = IF selected # k THEN selected
                     ELSE IF rest # <<>> THEN Head(rest) ELSE Empty
      /\ walletLoaded' = (rest # <<>>)
      /\ list' = ListClosed(list, {Name(k)})
      /\ Retire({k}, remove)
  BY <1>1 DEF RemoveModel
<1>4. /\ UNCHANGED <<pending, consuming, commands, retained, cmd>>
      /\ UNCHANGED <<insts, loaded, unannounced>>
      /\ UNCHANGED <<init, shuttingDown, complete, cleanup>>
  BY DEF notifyVars, commandVars, nodeVars, phaseVars
<1>5. NodeInv' /\ NodeStep /\ Instances' = Instances
  BY NodeFrame DEF WalletInv, nodeVars, Instances
<1>6. open # <<>> /\ k \in DOMAIN models /\ k # Empty
  BY DEF WalletInv, ModelInv, Open, ToSet
<1>7. init = "done" /\ ~shuttingDown /\ ~complete /\ cmd = "open"
  BY <1>6 DEF WalletInv, PhaseInv, StartInv, StopInv, CompleteInv
<1>8. /\ models' \in Seq(ModelType) /\ DOMAIN models' = DOMAIN models
      /\ Len(models') = Len(models)
      /\ \A j \in DOMAIN models : j # k => models'[j] = models[j]
      /\ models'[k].state = "retiring" /\ models'[k].remove = remove
      /\ models'[k].inst = models[k].inst
      /\ retiringNames' \subseteq Names
  <2>1. PICK ks \in SUBSET DOMAIN models : ks = {k}
    BY <1>6
  <2>2. Retire(ks, remove)
    BY <2>1, <1>3
  <2>3. /\ models' \in Seq(ModelType) /\ DOMAIN models' = DOMAIN models
        /\ Len(models') = Len(models)
        /\ \A j \in DOMAIN models \ ks : models'[j] = models[j]
        /\ \A j \in ks : /\ models'[j].state = "retiring" /\ models'[j].remove = remove
                         /\ models'[j].inst = models[j].inst
        /\ retiringNames' \subseteq Names
    BY <2>2, RetireModels
  <2> QED
    BY <2>1, <2>3
<1>9. Open' = Open \ {k}
  BY <1>2, <1>3 DEF Open
<1>10. models[k].state = "open"
  BY <1>6 DEF WalletInv, ModelInv
<1>11. ModelStep
  BY <1>8, <1>10 DEF ModelStep
<1>12. ModelInv'
  <2>1. \A j \in DOMAIN models' : j # Empty => models'[j].inst \in Instances
    BY <1>8 DEF WalletInv, ModelInv
  <2>2. \A j \in DOMAIN models' :
          (models'[j].state = "open") <=> (j \in Open' \/ (j = Empty /\ ~shuttingDown))
    BY <1>6, <1>8, <1>9 DEF WalletInv, ModelInv
  <2>3. \A j \in DOMAIN models' :
          (models'[j].state = "retiring" /\ ~models'[j].remove /\ ~shuttingDown) =>
            models'[j].inst \notin loaded
    BY <1>8 DEF WalletInv, ModelInv
  <2>4. Open' \subseteq DOMAIN models' \ {Empty}
    BY <1>8, <1>9 DEF WalletInv, ModelInv
  <2> QED
    BY <2>1, <2>2, <2>3, <2>4, <1>2, <1>3, <1>4, <1>5, <1>8 DEF WalletInv, ModelInv
<1>13. ShownInv'
  <2>1. selected = Empty \/ selected \in Open
    BY DEF WalletInv, ShownInv, SelectedIsOpen
  <2>2. selected # Empty
    BY <1>6 DEF WalletInv, ShownInv, SelectedIsOpen
  <2>3. selected' = Empty \/ selected' \in Open'
    BY <2>1, <1>2, <1>3, <1>9
  <2>4. rest # <<>> => selected' # Empty
    <3>1. Empty \notin Open
      BY DEF WalletInv, ModelInv
    <3> QED
      BY <2>2, <3>1, <1>2, <1>3
  <2>5. SelectedIsOpen'
    BY <2>3, <2>4, <1>3 DEF SelectedIsOpen
  <2>6. selected' \in DOMAIN models'
    <3>1. Empty \in DOMAIN models'
      BY <1>8, LenProperties DEF WalletInv, ModelInv, Empty
    <3> QED
      BY <2>3, <3>1, <1>12 DEF ModelInv
  <2>7. list' \in ListType
    BY <1>3, ListClosedIs DEF WalletInv, ShownInv
  <2>8. walletLoaded' \in BOOLEAN
    BY <1>3
  <2> QED
    BY <2>5, <2>6, <2>7, <2>8, <1>8 DEF ShownInv
<1>14. PhaseInv'
  <2>1. PhaseType' /\ StartInv' /\ StopInv'
    BY <1>4, <1>7 DEF WalletInv, PhaseInv, PhaseType, StartInv, StopInv
  <2>2. DrainInv' /\ CompleteInv'
    BY <1>4, <1>7 DEF WalletInv, PhaseInv, DrainInv, CompleteInv
  <2> QED
    BY <2>1, <2>2 DEF PhaseInv
<1>15. \A j : Modelled(j)' <=> Modelled(j)
  BY <1>6, <1>8, <1>10 DEF Modelled
<1>16. \A j : (Returned(j) => Returned(j)') /\ (Notified(j) => Notified(j)')
  BY <1>4 DEF Returned, Notified
<1>17. ExecutorStep
  BY <1>4 DEF ExecutorStep
<1>18. WalletInv'
  BY <1>4, <1>5, <1>9, <1>11, <1>12, <1>13, <1>14, <1>15, <1>17, ModelsKeep
<1>19. ASSUME TrackingInv PROVE TrackingInv'
  <2>1. \A j \in loaded' : j \in loaded /\ (Pursued(j) => Pursued(j)') /\ (Kept(j) => Kept(j)')
    BY <1>4, <1>15, <1>16 DEF Pursued, Kept
  <2>2. LoadedWalletTracked'
    BY <2>1, <1>4, <1>19, TrackedKept DEF TrackingInv
  <2>3. ReturnedInv'
    BY <2>1, <1>4, <1>5, <1>19, ReturnedKept DEF WalletInv, TrackingInv
  <2> QED
    BY <2>2, <2>3 DEF TrackingInv
<1> QED
  BY <1>18, <1>19

LEMMA CloseWalletKeeps ==
  ASSUME WalletInv, NEW n \in Names, CloseWallet(n)
  PROVE  /\ WalletInv'
         /\ TrackingInv => TrackingInv'
<1>1. PICK k \in OpenWithName(n) : RemoveModel(k, TRUE)
  BY DEF CloseWallet
<1>2. /\ UNCHANGED nodeVars /\ UNCHANGED <<notifyVars, commandVars>> /\ UNCHANGED phaseVars
      /\ UNCHANGED deferred /\ UNCHANGED gui
      /\ loadInProgress' \in BOOLEAN /\ migrating' \in BOOLEAN
  BY DEF CloseWallet, ClearLoadStatus, ClearMigrationStatus
<1>3. k \in Open
  BY DEF OpenWithName
<1>4. gui' \in Seq(EventType) /\ ToSet(gui') = ToSet(gui)
  BY <1>2 DEF WalletInv, EventInv
<1> QED
  BY <1>1, <1>2, <1>3, <1>4, RemoveModelKeeps

\* The unload of a wallet was posted after it left the node, so the model does
\* not have to remove it.
LEMMA HandleRemoveKeeps ==
  ASSUME WalletInv, HandleRemove
  PROVE  /\ WalletInv'
         /\ TrackingInv => TrackingInv'
<1>1. PICK e : e = Head(gui)
  OBVIOUS
<1>2. PICK k : k = e.model
  OBVIOUS
<1>3. /\ gui # <<>> /\ e.type = "remove" /\ gui' = Tail(gui)
      /\ k \in Open => RemoveModel(k, FALSE)
      /\ k \notin Open => KeepWallets /\ UNCHANGED <<retiringNames, list>>
      /\ UNCHANGED nodeVars /\ UNCHANGED <<notifyVars, commandVars>> /\ UNCHANGED phaseVars
      /\ UNCHANGED <<deferred, loadInProgress, migrating>>
  BY <1>1, <1>2 DEF HandleRemove, Event, statusVars
<1>4. gui' \in Seq(EventType) /\ ToSet(gui) = {e} \cup ToSet(gui') /\ GoodEvent(e)
  BY <1>1, <1>3, EventTaken
<1>5. loadInProgress' \in BOOLEAN /\ migrating' \in BOOLEAN /\ UNCHANGED deferred
  BY <1>3 DEF WalletInv, ShownInv
<1>6. CASE k \in Open
  <2>1. models[k].inst \notin loaded
    BY <1>2, <1>3, <1>4 DEF GoodEvent
  <2>2. ToSet(gui') \subseteq ToSet(gui) /\ \A d \in ToSet(gui) : d.type = "result" => d \in ToSet(gui')
    BY <1>3, <1>4
  <2> QED
    BY <2>1, <2>2, <1>3, <1>4, <1>5, <1>6, RemoveModelKeeps
<1>7. CASE k \notin Open
  <2>1. /\ UNCHANGED modelVars
        /\ UNCHANGED <<walletLoaded, deferred, loadInProgress, migrating, list>>
        /\ UNCHANGED notifyVars /\ UNCHANGED commandVars
    BY <1>3, <1>7 DEF KeepWallets, modelVars
  <2>2. /\ UNCHANGED <<pending, consuming, commands, retained, cmd>>
        /\ UNCHANGED <<models, open, init, shuttingDown, complete, cleanup>>
    BY <2>1, <1>3 DEF notifyVars, modelVars, commandVars, phaseVars
  <2>3. NodeStep
    BY <1>3, NodeFrame DEF WalletInv
  <2>4. NotifyInv' /\ CommandInv'
    BY <2>1, <2>3, NotifyFrame, CommandFrame DEF WalletInv
  <2>5. PhaseInv'
    <3>1. UNCHANGED <<open, consuming, commands, deferred>> /\ UNCHANGED cmd
      BY <2>1, <2>2
    <3>2. \A d \in ToSet(gui') : d \in ToSet(gui)
      BY <1>4
    <3> QED
      BY <3>1, <3>2, <2>2, <1>3, PhaseFrame DEF WalletInv
  <2>6. \A i : (Returned(i)' <=> Returned(i)) /\ (Notified(i)' <=> Notified(i))
    BY <2>2, <1>3, <1>4 DEF Returned, Notified
  <2>7. ExecutorStep
    BY <2>2 DEF ExecutorStep
  <2>8. WalletInv'
    BY <2>1, <2>2, <2>4, <2>5, <2>6, <2>7, <1>3, <1>4, BookKeeps
  <2>9. TrackingInv => TrackingInv'
    BY <2>1, <2>2, <2>6, <1>3, BookTracks
  <2> QED
    BY <2>8, <2>9
<1> QED
  BY <1>6, <1>7

\* shutdown(): every model retires, and the executors are stopped.
LEMMA BeginShutdownKeeps ==
  ASSUME WalletInv, BeginShutdown
  PROVE  WalletInv' /\ TrackingInv'
<1>1. PICK ks : ks = Open \cup {Empty}
  OBVIOUS
<1>2. /\ GuiIdle /\ ~shuttingDown /\ shuttingDown' = TRUE /\ open' = <<>> /\ selected' = Empty
      /\ walletLoaded' = FALSE /\ cmd' = "stopping" /\ cleanup' = "cleaning"
      /\ list' = ListClosed(list, {Name(k) : k \in Open}) /\ Retire(ks, FALSE)
      /\ UNCHANGED nodeVars /\ UNCHANGED notifyVars /\ UNCHANGED <<commands, retained, gui>>
      /\ UNCHANGED <<init, complete, deferred, loadInProgress, migrating>>
  BY <1>1 DEF BeginShutdown, statusVars
<1>3. UNCHANGED <<pending, consuming, insts, loaded, unannounced>>
  BY <1>2 DEF notifyVars, nodeVars
<1>4. NodeInv' /\ NodeStep /\ Instances' = Instances
  BY <1>2, NodeFrame DEF WalletInv, nodeVars, Instances
<1>5. /\ ks \in SUBSET DOMAIN models
  <2>1. Empty \in DOMAIN models
    BY LenProperties DEF WalletInv, ModelInv, Empty
  <2> QED
    BY <2>1, <1>1 DEF WalletInv, ModelInv
<1>6. /\ models' \in Seq(ModelType) /\ DOMAIN models' = DOMAIN models
      /\ Len(models') = Len(models)
      /\ \A j \in DOMAIN models \ ks : models'[j] = models[j]
      /\ \A j \in ks : /\ models'[j].state = "retiring" /\ models'[j].remove = FALSE
                       /\ models'[j].inst = models[j].inst
      /\ retiringNames' \subseteq Names
  BY <1>2, <1>5, RetireModels
<1>7. \A j \in DOMAIN models : (models[j].state = "open") <=> (j \in ks)
  BY <1>1, <1>2 DEF WalletInv, ModelInv
<1>8. \A j \in DOMAIN models : models'[j].state # "open" /\ models'[j].inst = models[j].inst
  BY <1>5, <1>6, <1>7
<1>9. Open' = {} /\ open' \in Seq(Nat) /\ DOMAIN open' = {}
  BY <1>2 DEF Open, ToSet
<1>10. ModelStep
  BY <1>5, <1>6, <1>7 DEF ModelStep
<1>11. ModelInv'
  <2>1. \A j \in DOMAIN models' : j # Empty => models'[j].inst \in Instances'
    BY <1>4, <1>6, <1>8 DEF WalletInv, ModelInv
  <2> QED
    BY <2>1, <1>2, <1>6, <1>8, <1>9 DEF WalletInv, ModelInv
<1>12. ExecutorStep
  BY <1>2 DEF WalletInv, PhaseInv, StopInv, ExecutorStep
<1>13. NotifyInv'
  BY <1>2, <1>4, NotifyFrame DEF WalletInv
<1>14. CommandInv'
  <2>1. \A task \in ToSet(commands) : GoodTask(task)'
    BY <1>4, TaskKept DEF WalletInv, CommandInv
  <2> QED
    BY <2>1, <1>2, <1>4 DEF WalletInv, CommandInv
<1>15. EventInv'
  <2>1. gui' \in Seq(EventType) /\ \A e \in ToSet(gui') : e \in ToSet(gui)
    BY <1>2 DEF WalletInv, EventInv
  <2> QED
    BY <2>1, <1>4, <1>10, <1>12, EventsKept DEF WalletInv
<1>16. ShownInv'
  <2>1. Empty \in DOMAIN models'
    BY <1>1, <1>5, <1>6
  <2>2. list' \in ListType
    BY <1>2, ListClosedIs DEF WalletInv, ShownInv
  <2>3. loadInProgress' \in BOOLEAN /\ migrating' \in BOOLEAN
    BY <1>2 DEF WalletInv, ShownInv
  <2> QED
    BY <2>1, <2>2, <2>3, <1>2, <1>6 DEF ShownInv, SelectedIsOpen
<1>17. PhaseInv'
  <2>1. consuming = <<>> /\ init # "listing" /\ ~complete
    BY <1>2 DEF GuiIdle, WalletInv, PhaseInv, CompleteInv
  <2>2. PhaseType' /\ StartInv' /\ StopInv'
    BY <2>1, <1>2, <1>3 DEF WalletInv, PhaseInv, PhaseType, StartInv, StopInv, NoResults
  <2>3. DrainInv' /\ CompleteInv'
    BY <2>1, <1>2 DEF DrainInv, CompleteInv
  <2> QED
    BY <2>2, <2>3 DEF PhaseInv
<1>18. OneModelPerName' /\ DeferredInv'
  <2>1. Open' \subseteq Open /\ deferred' \in {deferred, NoName}
    BY <1>2, <1>9
  <2> QED
    BY <2>1, <1>4, <1>10, OneKept, DeferredKept DEF WalletInv
<1>19. HeldInv'
  <2>1. \A i : Modelled(i)' => Modelled(i)
    BY <1>5, <1>6, <1>7 DEF Modelled
  <2>2. \A i : (Returned(i)' => Returned(i)) /\ (Notified(i)' => Notified(i))
    BY <1>2, <1>3 DEF Returned, Notified
  <2>3. \A i \in Instances : Held(i)' => Held(i)
    BY <2>1, <2>2, <1>3, HeldParts
  <2> QED
    BY <2>3, <1>4, HeldKept DEF WalletInv
<1>20. TrackingInv'
  BY <1>2, TrackedParts DEF TrackingInv, ReturnedInv, Initialized
<1> QED
  BY <1>4, <1>11, <1>13, <1>14, <1>15, <1>16, <1>17, <1>18, <1>19, <1>20 DEF WalletInv

----------------------------------------------------------------------------
(* Models enter m_wallets *)

LEMMA ListOpenIs ==
  ASSUME NEW n \in Names, list \in ListType
  PROVE  ListOpen(list, n) \in ListType
<1>1. /\ list.open \subseteq Names /\ list.loading \in Names \cup {NoName}
      /\ list.error \in Names \cup {NoName}
  BY DEF ListType
<1> QED
  BY <1>1 DEF ListOpen, ListType

\* addOrSelectWalletModel: the wallet has a model afterwards.  An open model of
\* its name is a model of this very wallet, since a second wallet could not have
\* been loaded while the first was held.
LEMMA AddOrSelectModels ==
  ASSUME WalletInv, NEW i \in Instances, Held(i), AddOrSelect(i), ~shuttingDown,
         UNCHANGED nodeVars, shuttingDown' = shuttingDown, deferred' \in {deferred, NoName},
         insts[i].setUp \/ deferred' # insts[i].name
  PROVE  /\ ModelInv' /\ ModelStep /\ OneModelPerName' /\ DeferredInv'
         /\ selected' \in Open' /\ open' # <<>>
         /\ \A j : Modelled(j)' <=> Modelled(j) \/ j = i
<1>1. PICK n : n = insts[i].name
  OBVIOUS
<1>2. UNCHANGED <<insts, loaded, unannounced>>
  BY DEF nodeVars
<1>3. NodeInv' /\ NodeStep /\ Instances' = Instances
  BY <1>2, NodeFrame DEF WalletInv, Instances
<1>4. CASE OpenWithName(n) # {}
  <2>1. selected' \in OpenWithName(n) /\ UNCHANGED <<models, open>>
    BY <1>1, <1>4 DEF AddOrSelect
  <2>2. selected' \in Open /\ Name(selected') = n
    BY <2>1 DEF OpenWithName
  <2>3. PICK k \in Open : k = selected'
    BY <2>2
  <2>4. k \in DOMAIN models /\ models[k].state = "open" /\ models[k].inst \in Instances
    BY DEF WalletInv, ModelInv
  <2>5. Modelled(models[k].inst)
    BY <2>4 DEF Modelled
  <2>6. models[k].inst = i
    <3>1. Held(models[k].inst) /\ insts[models[k].inst].name = insts[i].name
      BY <2>2, <2>3, <2>5, <1>1, HeldParts DEF Name
    <3> QED
      BY <3>1, <2>4 DEF WalletInv, HeldInv
  <2>7. ModelInv' /\ ModelStep /\ Open' = Open
    BY <2>1, <1>3, ModelFrame DEF WalletInv
  <2>8. \A j : Modelled(j)' <=> Modelled(j)
    BY <2>1 DEF Modelled
  <2>9. OneModelPerName' /\ DeferredInv'
    BY <2>7, <1>3, OneKept, DeferredKept DEF WalletInv
  <2>10. open' # <<>>
    BY <2>1, <2>2 DEF Open, ToSet
  <2> QED
    BY <2>2, <2>5, <2>6, <2>7, <2>8, <2>9, <2>10
<1>5. CASE OpenWithName(n) = {}
  <2> DEFINE m == NewModel(i)
  <2>1. PICK k : k = Len(models) + 1
    OBVIOUS
  <2>2. models' = Append(models, m) /\ open' = Append(open, k) /\ selected' = k
    BY <2>1, <1>1, <1>5 DEF AddOrSelect
  <2>3. models \in Seq(ModelType) /\ open \in Seq(Nat) /\ Len(models) \in Nat /\ Len(models) >= 1
    BY LenProperties DEF WalletInv, ModelInv
  <2>4. m \in ModelType /\ m.inst = i /\ m.state = "open"
    <3>1. i \in Nat /\ (i \in loaded) \in BOOLEAN
      BY DEF Instances
    <3> QED
      BY <3>1 DEF NewModel, ModelType
  <2> HIDE DEF m
  <2>5. /\ models' \in Seq(ModelType) /\ Len(models') = k /\ DOMAIN models' = 1..k
        /\ models'[k] = m /\ \A j \in 1..Len(models) : models'[j] = models[j]
        /\ DOMAIN models = 1..Len(models)
    BY <2>1, <2>2, <2>3, <2>4, AppendProperties, LenProperties
  <2>6. k \in Nat /\ k # Empty /\ k \notin DOMAIN models /\ DOMAIN models' = DOMAIN models \cup {k}
    BY <2>1, <2>3, <2>5 DEF Empty
  <2>7. \A j \in DOMAIN models : models'[j] = models[j]
    BY <2>5
  <2>8. open' \in Seq(Nat) /\ Open' = Open \cup {k}
    BY <2>2, <2>3, <2>6, AppendSet DEF Open
  <2>9. Open \subseteq DOMAIN models \ {Empty}
    BY DEF WalletInv, ModelInv
  <2>10. \A p, q \in DOMAIN open' : open'[p] = open'[q] => p = q
    <3>1. /\ DOMAIN open = 1..Len(open) /\ DOMAIN open' = 1..(Len(open) + 1) /\ Len(open) \in Nat
          /\ open'[Len(open) + 1] = k /\ \A p \in 1..Len(open) : open'[p] = open[p]
      BY <2>2, <2>3, <2>6, AppendProperties, LenProperties
    <3>2. \A p \in 1..Len(open) : open[p] \in Open
      BY <3>1 DEF Open, ToSet
    <3>3. \A p \in 1..Len(open) : open[p] # k
      BY <3>2, <2>6, <2>9
    <3>4. \A p \in DOMAIN open' : p \in 1..Len(open) \/ p = Len(open) + 1
      BY <3>1
    <3>5. \A p, q \in 1..Len(open) : open[p] = open[q] => p = q
      BY <3>1 DEF WalletInv, ModelInv
    <3> QED
      BY <3>1, <3>3, <3>4, <3>5
  <2>11. ModelStep
    BY <2>6, <2>7 DEF ModelStep
  <2>12. ModelInv'
    <3>1. \A j \in DOMAIN models' : j # Empty => models'[j].inst \in Instances'
      BY <2>4, <2>5, <2>6, <2>7, <1>3 DEF WalletInv, ModelInv
    <3>2. \A j \in DOMAIN models' :
            (models'[j].state = "open") <=> (j \in Open' \/ (j = Empty /\ ~shuttingDown'))
      BY <2>4, <2>5, <2>6, <2>7, <2>8, <2>9 DEF WalletInv, ModelInv
    <3>3. \A j \in DOMAIN models' :
            (models'[j].state = "retiring" /\ ~models'[j].remove /\ ~shuttingDown') =>
              models'[j].inst \notin loaded'
      BY <2>4, <2>5, <2>6, <2>7, <1>2 DEF WalletInv, ModelInv
    <3>4. Len(models') >= 1
      BY <2>1, <2>3, <2>5
    <3>5. \A j \in DOMAIN models' : j = Empty => models'[j].inst = 0
      BY <2>6, <2>7 DEF WalletInv, ModelInv
    <3> QED
      BY <3>1, <3>2, <3>3, <3>4, <3>5, <2>5, <2>6, <2>8, <2>9, <2>10 DEF ModelInv
  <2>13. \A j : Modelled(j)' <=> Modelled(j) \/ j = i
    BY <2>4, <2>5, <2>6, <2>7 DEF Modelled
  <2>14. /\ \A j \in Open : Name(j)' = Name(j)
         /\ Name(k)' = n
    BY <2>4, <2>5, <2>7, <2>9, <1>1, <1>2 DEF Name
  <2>15. OneModelPerName'
    <3>1. \A j \in Open : Name(j) # n
      BY <1>5 DEF OpenWithName
    <3> QED
      BY <3>1, <2>8, <2>14 DEF WalletInv, OneModelPerName
  <2>16. DeferredInv'
    <3>1. \A j \in Open : insts[models[j].inst].setUp \/ deferred' # Name(j)
      <4>1. \A j \in Open : Name(j) # NoName
        BY <2>9, NamesAssumption DEF Name, WalletInv, NodeInv, ModelInv
      <4> QED
        BY <4>1 DEF WalletInv, DeferredInv, HeldBackNotShown
    <3>2. \A j \in Open : models'[j].inst = models[j].inst
      BY <2>7, <2>9
    <3>3. HeldBackNotShown'
      BY <3>1, <3>2, <2>4, <2>5, <2>8, <2>14, <1>1, <1>2 DEF HeldBackNotShown
    <3> QED
      BY <3>3 DEF WalletInv, DeferredInv
  <2>17. selected' \in Open' /\ open' # <<>>
    <3>1. selected' \in Open'
      BY <2>2, <2>8
    <3> QED
      BY <3>1 DEF Open, ToSet
  <2> QED
    BY <2>11, <2>12, <2>13, <2>15, <2>16, <2>17
<1> QED
  BY <1>4, <1>5

\* The rest of a step in which the GUI thread shows a wallet that it was given.
LEMMA ShowKeeps ==
  ASSUME WalletInv, NEW i \in Instances, Held(i), AddOrSelect(i), ~shuttingDown, init = "done",
         UNCHANGED nodeVars, UNCHANGED commandVars, UNCHANGED phaseVars, UNCHANGED retiringNames,
         pending' = pending, NotifyInv', \A j : Notified(j)' => Notified(j),
         deferred' \in {deferred, NoName}, insts[i].setUp \/ deferred' # insts[i].name,
         loadInProgress' \in BOOLEAN, migrating' \in BOOLEAN,
         gui' \in Seq(EventType), ToSet(gui') \subseteq ToSet(gui)
  PROVE  /\ WalletInv'
         /\ \A j : Modelled(j)' <=> Modelled(j) \/ j = i
<1>1. /\ UNCHANGED <<insts, loaded, unannounced, commands, retained, cmd>>
      /\ UNCHANGED <<init, shuttingDown, complete, cleanup>>
  BY DEF nodeVars, commandVars, phaseVars
<1>2. NodeInv' /\ NodeStep /\ Instances' = Instances
  BY <1>1, NodeFrame DEF WalletInv, Instances
<1>3. /\ ModelInv' /\ ModelStep /\ OneModelPerName' /\ DeferredInv'
      /\ selected' \in Open' /\ open' # <<>>
      /\ \A j : Modelled(j)' <=> Modelled(j) \/ j = i
  BY <1>1, AddOrSelectModels
<1>4. CommandInv'
  BY <1>2, CommandFrame DEF WalletInv
<1>5. ExecutorStep
  BY <1>1 DEF ExecutorStep
<1>6. EventInv'
  BY <1>2, <1>3, <1>5, EventsKept DEF WalletInv
<1>7. ShownInv'
  <2>1. walletLoaded' = TRUE /\ list' = ListOpen(list, insts[i].name)
    BY DEF AddOrSelect
  <2>2. list' \in ListType
    <3>1. insts[i].name \in Names
      BY DEF WalletInv, NodeInv
    <3> QED
      BY <2>1, <3>1, ListOpenIs DEF WalletInv, ShownInv
  <2>3. selected' \in DOMAIN models' /\ selected' # Empty
    BY <1>3 DEF ModelInv
  <2> QED
    BY <2>1, <2>2, <2>3, <1>3 DEF WalletInv, ShownInv, SelectedIsOpen
<1>8. PhaseInv'
  <2>1. cmd = "open" /\ cleanup = "none" /\ ~complete
    BY DEF WalletInv, PhaseInv, StopInv, CompleteInv
  <2> QED
    BY <2>1, <1>1 DEF WalletInv, PhaseInv, PhaseType, StartInv, StopInv, DrainInv, CompleteInv
<1>9. HeldInv'
  <2>1. \A j : Returned(j)' => Returned(j)
    BY <1>1 DEF Returned
  <2>2. \A j \in Instances : Held(j)' => Held(j)
    BY <2>1, <1>1, <1>3, HeldParts
  <2> QED
    BY <2>2, <1>2, HeldKept DEF WalletInv
<1> QED
  BY <1>2, <1>3, <1>4, <1>6, <1>7, <1>8, <1>9 DEF WalletInv

\* handleLoadWallet.  A notification that is ignored because its name is held
\* back is not the last trace of the wallet.
LEMMA ConsumeNextKeeps ==
  ASSUME WalletInv, ConsumeNext
  PROVE  /\ WalletInv'
         /\ TrackingInv => TrackingInv'
<1>1. PICK i : i = Head(consuming)
  OBVIOUS
<1>2. /\ consuming # <<>> /\ consuming' = Tail(consuming)
      /\ HeldBack(i) => KeepWallets /\ UNCHANGED list
      /\ ~HeldBack(i) => AddOrSelect(i)
      /\ UNCHANGED nodeVars /\ UNCHANGED commandVars /\ UNCHANGED phaseVars
      /\ UNCHANGED <<pending, gui, retiringNames, deferred, loadInProgress, migrating>>
  BY <1>1 DEF ConsumeNext, statusVars
<1>3. /\ UNCHANGED <<insts, loaded, unannounced, commands, retained, cmd>>
      /\ UNCHANGED <<init, shuttingDown, complete, cleanup>>
  BY <1>2 DEF nodeVars, commandVars, phaseVars
<1>4. init = "done" /\ ~shuttingDown
  BY <1>2 DEF WalletInv, PhaseInv, StartInv, StopInv
<1>5. NodeInv' /\ NodeStep /\ Instances' = Instances
  BY <1>3, <1>2, NodeFrame DEF WalletInv, Instances
<1>6. consuming' \in Seq(Nat) /\ ToSet(consuming) = {i} \cup ToSet(consuming')
  <2>1. consuming \in Seq(Nat)
    BY DEF WalletInv, NotifyInv
  <2>2. /\ Tail(consuming) \in Seq(Nat)
        /\ ToSet(consuming) = {i} \cup ToSet(Tail(consuming))
    BY <2>1, <1>1, <1>2, HeadTailSet
  <2> QED
    BY <2>2, <1>2
<1>7. i \in Instances /\ Notified(i) /\ NotifyInv'
  BY <1>2, <1>5, <1>6 DEF WalletInv, NotifyInv, Notified
<1>8. \A j : /\ Notified(j)' => Notified(j)
             /\ Notified(j) /\ j # i => Notified(j)'
  BY <1>2, <1>6 DEF Notified
<1>9. \A j : Returned(j)' <=> Returned(j)
  BY <1>2, <1>3 DEF Returned
<1>10. gui' \in Seq(EventType) /\ ToSet(gui') = ToSet(gui)
  BY <1>2 DEF WalletInv, EventInv
<1>11. CASE HeldBack(i)
  <2>1. /\ UNCHANGED modelVars /\ UNCHANGED commandVars
        /\ UNCHANGED <<walletLoaded, deferred, loadInProgress, migrating, list>>
    BY <1>2, <1>11 DEF KeepWallets, modelVars
  <2>2. UNCHANGED <<models, open>>
    BY <2>1 DEF modelVars
  <2>3. CommandInv'
    BY <2>1, <1>5, CommandFrame DEF WalletInv
  <2>4. PhaseInv'
    <3>1. cmd = "open" /\ cleanup = "none" /\ ~complete
      BY <1>4 DEF WalletInv, PhaseInv, StopInv, CompleteInv
    <3> QED
      BY <3>1, <1>3, <1>4 DEF WalletInv, PhaseInv, PhaseType, StartInv, StopInv, DrainInv, CompleteInv
  <2>5. ExecutorStep
    BY <1>3 DEF ExecutorStep
  <2>6. WalletInv'
    BY <2>1, <2>3, <2>4, <2>5, <1>2, <1>3, <1>7, <1>8, <1>9, <1>10, BookKeeps
  <2>7. ASSUME TrackingInv PROVE TrackingInv'
    <3>1. \A j : Modelled(j)' <=> Modelled(j)
      BY <2>2 DEF Modelled
    <3>2. i \in loaded => Kept(i)
      BY <2>7, <1>4, <1>11 DEF HeldBack, TrackingInv, ReturnedInv, Kept
    <3>3. \A j \in loaded' : j \in loaded /\ (Pursued(j) => Pursued(j)') /\ (Kept(j) => Kept(j)')
      BY <3>1, <3>2, <1>3, <1>8, <1>9 DEF Pursued, Kept
    <3>4. LoadedWalletTracked'
      BY <2>7, <3>3, <1>3, TrackedKept DEF TrackingInv
    <3>5. ReturnedInv'
      BY <2>7, <3>3, <1>2, <1>3, <1>5, ReturnedKept DEF WalletInv, TrackingInv
    <3> QED
      BY <3>4, <3>5 DEF TrackingInv
  <2> QED
    BY <2>6, <2>7
<1>12. CASE ~HeldBack(i)
  <2>1. Held(i)
    BY <1>7, HeldParts
  <2>2. deferred' \in {deferred, NoName} /\ deferred' # insts[i].name
    BY <1>2, <1>12 DEF HeldBack
  <2>3. loadInProgress' \in BOOLEAN /\ migrating' \in BOOLEAN
    BY <1>2 DEF WalletInv, ShownInv
  <2>4. UNCHANGED retiringNames /\ pending' = pending /\ AddOrSelect(i)
    BY <1>2, <1>12
  <2>5. WalletInv' /\ \A j : Modelled(j)' <=> Modelled(j) \/ j = i
    BY <2>1, <2>2, <2>3, <2>4, <1>2, <1>4, <1>7, <1>8, <1>10, ShowKeeps
  <2>6. ASSUME TrackingInv PROVE TrackingInv'
    <3>1. \A j \in loaded' : j \in loaded /\ (Pursued(j) => Pursued(j)') /\ (Kept(j) => Kept(j)')
      BY <2>5, <1>3, <1>8, <1>9 DEF Pursued, Kept
    <3>2. LoadedWalletTracked'
      BY <2>6, <3>1, <1>3, TrackedKept DEF TrackingInv
    <3>3. ReturnedInv'
      BY <2>6, <3>1, <1>2, <1>3, <1>5, ReturnedKept DEF WalletInv, TrackingInv
    <3> QED
      BY <3>2, <3>3 DEF TrackingInv
  <2> QED
    BY <2>5, <2>6
<1> QED
  BY <1>11, <1>12

\* The callbacks of a command.  The wallet of a result is shown, unless the
\* result is an error, and then the node no longer has it.
LEMMA HandleResultKeeps ==
  ASSUME WalletInv, HandleResult
  PROVE  /\ WalletInv'
         /\ TrackingInv => TrackingInv'
<1>1. PICK e : e = Head(gui)
  OBVIOUS
<1>2. PICK task : task = e.task
  OBVIOUS
<1>3. PICK outcome : outcome = e.outcome
  OBVIOUS
<1>4. /\ gui # <<>> /\ e.type = "result" /\ gui' = Tail(gui) /\ ~shuttingDown
      /\ loadInProgress' = ResultInProgress(task, outcome)
      /\ migrating' = IF task.kind = "migrate" THEN FALSE ELSE migrating
      /\ deferred' = ResultDeferred(task, outcome)
      /\ UNCHANGED nodeVars /\ UNCHANGED notifyVars /\ UNCHANGED commandVars /\ UNCHANGED phaseVars
      /\ UNCHANGED retiringNames
  BY <1>1, <1>2, <1>3 DEF HandleResult, Event
<1>5. \/ /\ outcome = "wallet"
         /\ IF task.kind = "migrate" /\ HeldBack(task.inst)
            THEN KeepWallets /\ UNCHANGED list
            ELSE AddOrSelect(task.inst)
      \/ /\ outcome # "wallet"
         /\ KeepWallets
         /\ list' = IF task.kind = "load" THEN ListError(list, task.name) ELSE list
  BY <1>1, <1>2, <1>3 DEF HandleResult
<1>6. /\ UNCHANGED <<insts, loaded, unannounced, commands, retained, cmd, pending, consuming>>
      /\ UNCHANGED <<init, shuttingDown, complete, cleanup>>
  BY <1>4 DEF nodeVars, commandVars, phaseVars, notifyVars
<1>7. /\ e \in EventType /\ GoodEvent(e) /\ e \in ToSet(gui)
      /\ gui' \in Seq(EventType) /\ ToSet(gui) = {e} \cup ToSet(gui')
  BY <1>1, <1>4, EventTaken
<1>8. init = "done"
  BY <1>4, <1>7 DEF WalletInv, PhaseInv, StartInv, NoResults
<1>9. /\ task \in TaskType /\ GoodTask(task)
      /\ outcome = "wallet" => task.inst # 0 /\ insts[task.inst].setUp
      /\ outcome # "wallet" => task.inst \notin loaded
  BY <1>2, <1>3, <1>4, <1>7, EventFields DEF GoodEvent
<1>10. deferred' \in {deferred, NoName}
  BY <1>4 DEF ResultDeferred
<1>11. loadInProgress' \in BOOLEAN /\ migrating' \in BOOLEAN
  BY <1>4 DEF ResultInProgress, WalletInv, ShownInv
<1>12. NodeInv' /\ NodeStep /\ Instances' = Instances
  BY <1>4, <1>6, NodeFrame DEF WalletInv, Instances
<1>13. NotifyInv' /\ \A j : Notified(j)' <=> Notified(j)
  BY <1>4, <1>6, <1>12, NotifyFrame DEF WalletInv, Notified
<1>14. /\ \A j : Returned(j)' => Returned(j)
       /\ \A j : Returned(j) /\ j # task.inst => Returned(j)'
  BY <1>2, <1>4, <1>6, <1>7 DEF Returned
<1>15. CASE outcome = "wallet"
  <2>1. task.inst \in Instances /\ insts[task.inst].setUp
    BY <1>9, <1>15 DEF GoodTask
  <2>2. ~(task.kind = "migrate" /\ HeldBack(task.inst))
    <3> SUFFICES ASSUME task.kind = "migrate", HeldBack(task.inst) PROVE FALSE
      OBVIOUS
    <3>1. insts[task.inst].name \in OnDisk
      BY <1>9, <1>15 DEF GoodTask
    <3>2. deferred \in OnDisk
      BY <3>1 DEF HeldBack
    <3>3. NoName \notin OnDisk
      BY NamesAssumption
    <3> QED
      BY <3>2, <3>3 DEF WalletInv, DeferredInv
  <2>3. AddOrSelect(task.inst)
    BY <2>2, <1>5, <1>15
  <2>4. Held(task.inst)
    <3>1. Returned(task.inst)
      BY <1>2, <1>4, <1>7 DEF Returned
    <3> QED
      BY <3>1, HeldParts
  <2>5. pending' = pending /\ ToSet(gui') \subseteq ToSet(gui)
    BY <1>6, <1>7
  <2>6. PICK i \in Instances : i = task.inst
    BY <2>1
  <2>7. WalletInv' /\ \A j : Modelled(j)' <=> Modelled(j) \/ j = i
    BY <2>1, <2>3, <2>4, <2>5, <2>6, <1>4, <1>7, <1>8, <1>10, <1>11, <1>13, ShowKeeps
  <2>8. ASSUME TrackingInv PROVE TrackingInv'
    <3>1. \A j \in loaded' : j \in loaded /\ (Pursued(j) => Pursued(j)') /\ (Kept(j) => Kept(j)')
      BY <2>6, <2>7, <1>6, <1>13, <1>14 DEF Pursued, Kept
    <3>2. LoadedWalletTracked'
      BY <2>8, <3>1, <1>6, TrackedKept DEF TrackingInv
    <3>3. ReturnedInv'
      BY <2>8, <3>1, <1>6, <1>10, <1>12, ReturnedKept DEF WalletInv, TrackingInv
    <3> QED
      BY <3>2, <3>3 DEF TrackingInv
  <2> QED
    BY <2>7, <2>8
<1>16. CASE outcome # "wallet"
  <2>1. /\ UNCHANGED <<models, open, selected, walletLoaded>>
        /\ list' = IF task.kind = "load" THEN ListError(list, task.name) ELSE list
    BY <1>5, <1>16 DEF KeepWallets
  <2>2. list' \in ListType
    <3>1. /\ list.open \subseteq Names /\ list.loading \in Names \cup {NoName}
          /\ list.error \in Names \cup {NoName} /\ task.name \in Names /\ list \in ListType
      BY <1>9 DEF WalletInv, ShownInv, ListType, TaskType
    <3> QED
      BY <2>1, <3>1 DEF ListError, ListType
  <2>3. UNCHANGED modelVars /\ UNCHANGED walletLoaded
    BY <2>1, <1>4 DEF modelVars
  <2>4. ModelInv' /\ ModelStep /\ Open' = Open
    BY <2>1, <1>6, <1>12, ModelFrame DEF WalletInv
  <2>5. CommandInv'
    BY <1>4, <1>12, CommandFrame DEF WalletInv
  <2>6. ExecutorStep
    BY <1>6 DEF ExecutorStep
  <2>7. EventInv'
    BY <2>4, <2>6, <1>7, <1>12, EventsKept DEF WalletInv
  <2>8. ShownInv'
    BY <2>2, <2>3, <1>11, ShownFrame DEF WalletInv
  <2>9. PhaseInv'
    <3>1. cmd = "open" /\ cleanup = "none" /\ ~complete
      BY <1>4 DEF WalletInv, PhaseInv, StopInv, CompleteInv
    <3> QED
      BY <3>1, <1>4, <1>6, <1>8 DEF WalletInv, PhaseInv, PhaseType, StartInv, StopInv, DrainInv,
         CompleteInv
  <2>10. OneModelPerName' /\ DeferredInv'
    BY <2>4, <1>10, <1>12, OneKept, DeferredKept DEF WalletInv
  <2>11. \A j : Modelled(j)' <=> Modelled(j)
    BY <2>1 DEF Modelled
  <2>12. HeldInv'
    <3>1. \A j \in Instances : Held(j)' => Held(j)
      BY <2>11, <1>6, <1>13, <1>14, HeldParts
    <3> QED
      BY <3>1, <1>12, HeldKept DEF WalletInv
  <2>13. WalletInv'
    BY <2>4, <2>5, <2>7, <2>8, <2>9, <2>10, <2>12, <1>12, <1>13 DEF WalletInv
  <2>14. ASSUME TrackingInv PROVE TrackingInv'
    <3>1. \A j \in loaded' : j \in loaded /\ (Pursued(j) => Pursued(j)') /\ (Kept(j) => Kept(j)')
      BY <2>11, <1>6, <1>9, <1>13, <1>14, <1>16 DEF Pursued, Kept
    <3>2. LoadedWalletTracked'
      BY <2>14, <3>1, <1>6, TrackedKept DEF TrackingInv
    <3>3. ReturnedInv'
      BY <2>14, <3>1, <1>6, <1>10, <1>12, ReturnedKept DEF WalletInv, TrackingInv
    <3> QED
      BY <3>2, <3>3 DEF TrackingInv
  <2> QED
    BY <2>13, <2>14
<1> QED
  BY <1>15, <1>16

\* The node's wallets in load order are each listed once.
LEMMA LoadOrderIs ==
  ASSUME WalletInv, NEW ws \in InLoadOrder(loaded)
  PROVE  /\ ws \in Seq(loaded) /\ ToSet(ws) = loaded /\ Len(ws) \in Nat /\ DOMAIN ws = 1..Len(ws)
         /\ \A a, b \in 1..Len(ws) : ws[a] = ws[b] => a = b
<1>1. loaded \subseteq 1..Len(insts) /\ Len(insts) \in Nat
  BY LenProperties DEF WalletInv, NodeInv, Instances
<1>2. IsFiniteSet(1..Len(insts))
  BY <1>1, FS_Interval
<1>3. IsFiniteSet(loaded)
  BY <1>1, <1>2, FS_Subset
<1>4. Cardinality(loaded) \in Nat
  BY <1>3, FS_CardinalityType
<1>5. /\ ws \in [1..Cardinality(loaded) -> loaded] /\ ToSet(ws) = loaded
      /\ \A a, b \in DOMAIN ws : a < b => ws[a] < ws[b]
  BY DEF InLoadOrder
<1>6. ws \in Seq(loaded) /\ Len(ws) = Cardinality(loaded) /\ DOMAIN ws = 1..Len(ws)
  BY <1>4, <1>5, LenProperties
<1>7. ASSUME NEW a \in 1..Len(ws), NEW b \in 1..Len(ws), ws[a] = ws[b] PROVE a = b
  <2>0. \A x \in loaded : x \in Int
    BY <1>1
  <2>1. ws[a] \in Int /\ ws[b] \in Int
    BY <2>0, <1>5, <1>6
  <2>2. ~(a < b) /\ ~(b < a)
    BY <2>1, <1>5, <1>6, <1>7
  <2> QED
    BY <2>2, <1>4, <1>6
<1> QED
  BY <1>4, <1>5, <1>6, <1>7

\* initialize: one new model for each of the node's wallets.
LEMMA ListedModels ==
  ASSUME WalletInv, NEW ws \in InLoadOrder(loaded), Open = {}, ~shuttingDown,
         models' = models \o [j \in 1..Len(ws) |-> NewModel(ws[j])],
         open' = [j \in 1..Len(ws) |-> Len(models) + j],
         UNCHANGED nodeVars, shuttingDown' = shuttingDown
  PROVE  /\ ModelInv' /\ ModelStep /\ OneModelPerName' /\ Len(models) \in Nat
         /\ open' = <<>> <=> ws = <<>>
         /\ ws # <<>> => Len(models) + 1 \in Open'
         /\ \A k \in Open' : Name(k)' \in {insts[i].name : i \in loaded}
         /\ \A j : Modelled(j)' <=> Modelled(j) \/ j \in loaded
<1> DEFINE news == [j \in 1..Len(ws) |-> NewModel(ws[j])]
<1>1. PICK L : L = Len(models)
  OBVIOUS
<1>2. PICK C : C = Len(ws)
  OBVIOUS
<1>3. /\ ws \in Seq(loaded) /\ ToSet(ws) = loaded /\ C \in Nat /\ DOMAIN ws = 1..C
      /\ \A a, b \in 1..C : ws[a] = ws[b] => a = b
  BY <1>2, LoadOrderIs
<1>4. /\ models \in Seq(ModelType) /\ L \in Nat /\ L >= 1 /\ DOMAIN models = 1..L
  BY <1>1, LenProperties DEF WalletInv, ModelInv
<1>5. UNCHANGED <<insts, loaded, unannounced>>
  BY DEF nodeVars
<1>6. NodeInv' /\ Instances' = Instances
  BY <1>5, NodeFrame DEF WalletInv, Instances
<1>7. \A a \in 1..C : ws[a] \in loaded /\ ws[a] \in Instances /\ ws[a] \in Nat
  <2>1. \A a \in 1..C : ws[a] \in loaded
    BY <1>3 DEF ToSet
  <2>2. \A x \in loaded : x \in Instances
    BY DEF WalletInv, NodeInv
  <2>3. \A x \in Instances : x \in Nat
    BY DEF Instances
  <2> QED
    BY <2>1, <2>2, <2>3
<1>8. \A a \in 1..C : /\ NewModel(ws[a]) \in ModelType /\ NewModel(ws[a]).inst = ws[a]
                      /\ NewModel(ws[a]).state = "open"
  BY <1>7 DEF NewModel, ModelType
<1>9. news \in Seq(ModelType) /\ Len(news) = C /\ \A a \in 1..C : news[a] = NewModel(ws[a])
  <2>1. news \in [1..C -> ModelType] /\ \A a \in 1..C : news[a] = NewModel(ws[a])
    BY <1>2, <1>8
  <2> HIDE DEF news
  <2>2. C \in Nat
    BY <1>3
  <2>3. news \in Seq(ModelType)
    BY <2>1, <2>2
  <2> QED
    BY <2>1, <2>2, <2>3, LenProperties
<1>10. models' = models \o news
  OBVIOUS
<1> HIDE DEF news
<1>11. /\ models' \in Seq(ModelType) /\ Len(models') = L + C /\ DOMAIN models' = 1..(L + C)
       /\ \A j \in 1..(L + C) : models'[j] = IF j <= L THEN models[j] ELSE news[j - L]
  BY <1>1, <1>4, <1>9, <1>10, ConcatProperties, LenProperties
<1>12. \A j \in DOMAIN models : j \in DOMAIN models' /\ models'[j] = models[j]
  BY <1>3, <1>4, <1>11
<1>13. \A a \in 1..C : /\ L + a \in DOMAIN models' /\ L + a \notin DOMAIN models /\ L + a # Empty
                       /\ models'[L + a].inst = ws[a] /\ models'[L + a].state = "open"
  <2> TAKE a \in 1..C
  <2>1. L + a \in 1..(L + C) /\ ~(L + a <= L) /\ (L + a) - L = a /\ L + a # 1
    BY <1>3, <1>4
  <2>2. models'[L + a] = NewModel(ws[a])
    BY <2>1, <1>9, <1>11
  <2> QED
    BY <2>1, <2>2, <1>4, <1>8, <1>11 DEF Empty
<1>14. \A j \in DOMAIN models' : j \in DOMAIN models \/ \E a \in 1..C : j = L + a
  <2> TAKE j \in DOMAIN models'
  <2>1. CASE j <= L
    BY <2>1, <1>4, <1>11
  <2>2. CASE ~(j <= L)
    <3>1. j - L \in 1..C /\ j = L + (j - L)
      BY <2>2, <1>3, <1>4, <1>11
    <3> QED
      BY <3>1
  <2> QED
    BY <2>1, <2>2
<1>15. /\ open' \in Seq(Nat) /\ DOMAIN open' = 1..C /\ \A a \in 1..C : open'[a] = L + a
  <2>1. open' = [j \in 1..C |-> L + j]
    BY <1>1, <1>2
  <2>2. \A a \in 1..C : L + a \in Nat
    BY <1>3, <1>4
  <2>3. open' \in [1..C -> Nat] /\ \A a \in 1..C : open'[a] = L + a
    BY <2>1, <2>2
  <2>4. C \in Nat
    BY <1>3
  <2>5. open' \in Seq(Nat)
    BY <2>3, <2>4
  <2> QED
    BY <2>3, <2>5
<1>16. \A k : k \in Open' <=> \E a \in 1..C : k = L + a
  BY <1>15 DEF Open, ToSet
<1>17. ModelStep
  BY <1>12 DEF ModelStep
<1>18. ModelInv'
  <2>1. \A j \in DOMAIN models' : j # Empty => models'[j].inst \in Instances'
    <3>1. \A j \in DOMAIN models : j # Empty => models'[j].inst \in Instances
      BY <1>12 DEF WalletInv, ModelInv
    <3>2. \A a \in 1..C : models'[L + a].inst \in Instances
      BY <1>7, <1>13
    <3> QED
      BY <3>1, <3>2, <1>6, <1>14
  <2>2. \A j \in DOMAIN models : j \notin Open'
    BY <1>13, <1>16
  <2>3. \A j \in DOMAIN models' :
          (models'[j].state = "open") <=> (j \in Open' \/ (j = Empty /\ ~shuttingDown'))
    <3>1. ASSUME NEW j \in DOMAIN models
          PROVE  (models'[j].state = "open") <=> (j \in Open' \/ (j = Empty /\ ~shuttingDown'))
      BY <2>2, <1>12 DEF WalletInv, ModelInv
    <3>2. ASSUME NEW a \in 1..C PROVE models'[L + a].state = "open" /\ L + a \in Open'
      BY <1>13, <1>16
    <3> QED
      BY <3>1, <3>2, <1>14
  <2>4. \A j \in DOMAIN models' :
          (models'[j].state = "retiring" /\ ~models'[j].remove /\ ~shuttingDown') =>
            models'[j].inst \notin loaded'
    <3>1. ASSUME NEW j \in DOMAIN models,
                 models'[j].state = "retiring" /\ ~models'[j].remove /\ ~shuttingDown'
          PROVE  models'[j].inst \notin loaded'
      BY <3>1, <1>5, <1>12 DEF WalletInv, ModelInv
    <3>2. \A a \in 1..C : models'[L + a].state # "retiring"
      BY <1>13
    <3> QED
      BY <3>1, <3>2, <1>14
  <2>5. \A p, q \in DOMAIN open' : open'[p] = open'[q] => p = q
    BY <1>3, <1>4, <1>15
  <2>6. Open' \subseteq DOMAIN models' \ {Empty}
    BY <1>13, <1>16
  <2>7. Len(models') >= 1
    BY <1>3, <1>4, <1>11
  <2>8. \A j \in DOMAIN models' : j = Empty => models'[j].inst = 0
    <3>1. \A j \in DOMAIN models : j = Empty => models'[j].inst = 0
      <4>1. \A j \in DOMAIN models : j = Empty => models[j].inst = 0
        BY DEF WalletInv, ModelInv
      <4> QED
        BY <4>1, <1>12
    <3>2. \A a \in 1..C : L + a # Empty
      BY <1>13
    <3> QED
      BY <3>1, <3>2, <1>14
  <2> QED
    BY <2>1, <2>3, <2>4, <2>5, <2>6, <2>7, <2>8, <1>11, <1>15 DEF ModelInv
<1>19. \A a \in 1..C : Name(L + a)' = insts[ws[a]].name
  BY <1>5, <1>13 DEF Name
<1>20. OneModelPerName'
  <2> SUFFICES ASSUME NEW p \in Open', NEW q \in Open', Name(p)' = Name(q)' PROVE p = q
    BY DEF OneModelPerName
  <2>1. PICK a \in 1..C : p = L + a
    BY <1>16
  <2>2. PICK b \in 1..C : q = L + b
    BY <1>16
  <2>3. insts[ws[a]].name = insts[ws[b]].name
    BY <2>1, <2>2, <1>19
  <2>4. Held(ws[a]) /\ Held(ws[b])
    BY <1>7, HeldParts
  <2>5. ws[a] = ws[b]
    BY <2>3, <2>4, <1>7 DEF WalletInv, HeldInv
  <2> QED
    BY <2>1, <2>2, <2>5, <1>3
<1>21. \A j : Modelled(j)' <=> Modelled(j) \/ j \in loaded
  <2>1. ASSUME NEW j, Modelled(j)' PROVE Modelled(j) \/ j \in loaded
    <3>1. PICK k \in DOMAIN models' : models'[k].inst = j /\ models'[k].state \in {"open", "retiring"}
      BY <2>1 DEF Modelled
    <3>2. CASE k \in DOMAIN models
      BY <3>1, <3>2, <1>12 DEF Modelled
    <3>3. ASSUME NEW a \in 1..C, k = L + a PROVE j \in loaded
      BY <3>1, <3>3, <1>7, <1>13
    <3> QED
      BY <3>2, <3>3, <1>14
  <2>2. ASSUME NEW j, Modelled(j) PROVE Modelled(j)'
    BY <2>2, <1>12 DEF Modelled
  <2>3. ASSUME NEW j \in loaded PROVE Modelled(j)'
    <3>1. PICK a \in 1..C : j = ws[a]
      BY <1>3 DEF ToSet
    <3> QED
      BY <3>1, <1>13 DEF Modelled
  <2> QED
    BY <2>1, <2>2, <2>3
<1>22. (open' = <<>> <=> ws = <<>>) /\ (ws # <<>> => L + 1 \in Open')
  <2>1. (ws = <<>> <=> C = 0) /\ (open' = <<>> <=> C = 0)
    BY <1>2, <1>3, <1>15, EmptySeq, LenProperties
  <2>2. C # 0 => 1 \in 1..C
    BY <1>3
  <2> QED
    BY <2>1, <2>2, <1>16
<1>23. \A k \in Open' : Name(k)' \in {insts[i].name : i \in loaded}
  BY <1>7, <1>16, <1>19
<1> QED
  BY <1>1, <1>4, <1>17, <1>18, <1>20, <1>21, <1>22, <1>23

LEMMA ListWalletsKeeps ==
  ASSUME WalletInv, ListWallets
  PROVE  WalletInv' /\ TrackingInv'
<1>1. PICK ws \in InLoadOrder(loaded) :
        /\ models' = models \o [j \in 1..Len(ws) |-> NewModel(ws[j])]
        /\ open' = [j \in 1..Len(ws) |-> Len(models) + j]
        /\ selected' = FrontWallet(ws)
        /\ walletLoaded' = (ws # <<>>)
        /\ list' = [list EXCEPT !.open = {insts[i].name : i \in loaded}]
  BY DEF ListWallets
<1>2. /\ init = "listing" /\ init' = "done" /\ UNCHANGED gui
      /\ UNCHANGED nodeVars /\ UNCHANGED notifyVars /\ UNCHANGED commandVars
      /\ UNCHANGED <<retiringNames, shuttingDown, complete, cleanup>>
      /\ UNCHANGED <<deferred, loadInProgress, migrating>>
  BY DEF ListWallets, statusVars
<1>3. UNCHANGED <<insts, loaded, unannounced, commands, retained, cmd, pending, consuming>>
  BY <1>2 DEF nodeVars, commandVars, notifyVars
<1>4. /\ open = <<>> /\ consuming = <<>> /\ commands = <<>> /\ deferred = NoName /\ ~shuttingDown
      /\ cmd = "open" /\ cleanup = "none" /\ ~complete
  BY <1>2 DEF WalletInv, PhaseInv, StartInv, StopInv, CompleteInv
<1>5. Open = {}
  BY <1>4 DEF Open, ToSet
<1>6. /\ ModelInv' /\ ModelStep /\ OneModelPerName' /\ Len(models) \in Nat
      /\ open' = <<>> <=> ws = <<>>
      /\ ws # <<>> => Len(models) + 1 \in Open'
      /\ \A k \in Open' : Name(k)' \in {insts[i].name : i \in loaded}
      /\ \A j : Modelled(j)' <=> Modelled(j) \/ j \in loaded
  BY <1>1, <1>2, <1>4, <1>5, ListedModels
<1>7. NodeInv' /\ NodeStep /\ Instances' = Instances
  BY <1>2, <1>3, NodeFrame DEF WalletInv, Instances
<1>8. NotifyInv' /\ CommandInv'
  BY <1>2, <1>7, NotifyFrame, CommandFrame DEF WalletInv
<1>9. ExecutorStep
  BY <1>2, <1>3 DEF ExecutorStep
<1>10. EventInv'
  <2>1. gui' \in Seq(EventType) /\ \A e \in ToSet(gui') : e \in ToSet(gui)
    BY <1>2 DEF WalletInv, EventInv
  <2> QED
    BY <2>1, <1>6, <1>7, <1>9, EventsKept DEF WalletInv
<1>11. \A i \in loaded : insts[i].name \in Names
  BY DEF WalletInv, NodeInv
<1>12. ShownInv'
  <2>1. list' \in ListType
    <3>1. list \in ListType /\ {insts[i].name : i \in loaded} \subseteq Names
      BY <1>11 DEF WalletInv, ShownInv
    <3> QED
      BY <3>1, <1>1 DEF ListType
  <2>2. selected' = IF ws = <<>> THEN Empty ELSE Len(models) + 1
    BY <1>1 DEF FrontWallet
  <2>3. Empty \in DOMAIN models' /\ Empty \notin Open' /\ Open' \subseteq DOMAIN models'
    BY <1>6, LenProperties DEF ModelInv, Empty
  <2>4. SelectedIsOpen'
    BY <2>2, <2>3, <1>1, <1>6 DEF SelectedIsOpen
  <2>5. selected' \in DOMAIN models'
    BY <2>2, <2>3, <1>6
  <2>6. /\ loadInProgress' \in BOOLEAN /\ migrating' \in BOOLEAN /\ retiringNames' \subseteq Names
        /\ walletLoaded' \in BOOLEAN
    BY <1>1, <1>2 DEF WalletInv, ShownInv
  <2> QED
    BY <2>1, <2>4, <2>5, <2>6 DEF ShownInv
<1>13. PhaseInv'
  BY <1>2, <1>3, <1>4 DEF WalletInv, PhaseInv, PhaseType, StartInv, StopInv, DrainInv, CompleteInv
<1>14. DeferredInv'
  <2>1. \A k \in Open' : Name(k)' # NoName
    BY <1>6, <1>11, NamesAssumption
  <2> QED
    BY <2>1, <1>2, <1>4 DEF DeferredInv, HeldBackNotShown
<1>15. \A j : (Returned(j)' <=> Returned(j)) /\ (Notified(j)' <=> Notified(j))
  BY <1>2, <1>3 DEF Returned, Notified
<1>16. HeldInv'
  <2>1. \A j \in Instances : Held(j)' => Held(j)
    BY <1>3, <1>6, <1>15, HeldParts
  <2> QED
    BY <2>1, <1>7, HeldKept DEF WalletInv
<1>17. TrackingInv'
  <2>1. \A j \in loaded' : Pursued(j)' /\ Kept(j)'
    BY <1>3, <1>6 DEF Pursued, Kept
  <2> QED
    BY <2>1, TrackedParts DEF TrackingInv, ReturnedInv, Kept
<1> QED
  BY <1>6, <1>7, <1>8, <1>10, <1>12, <1>13, <1>14, <1>16, <1>17 DEF WalletInv

----------------------------------------------------------------------------
(* The invariant holds *)

LEMMA InitWallet ==
  ASSUME Init
  PROVE  WalletInv /\ TrackingInv
<1>1. PICK s \in SetToSeqs(AtStart) :
        insts = [i \in 1..Len(s) |-> [name |-> s[i], setUp |-> TRUE]]
  BY DEF Init
<1>2. /\ Cardinality(AtStart) \in Nat /\ s \in [1..Cardinality(AtStart) -> AtStart]
      /\ \A i, j \in 1..Cardinality(AtStart) : i # j => s[i] # s[j]
  BY NamesAssumption, FS_CardinalityType DEF SetToSeqs
<1>3. Len(s) = Cardinality(AtStart) /\ Len(s) \in Nat
  BY <1>2, LenProperties
<1>4. \A i \in 1..Len(s) : s[i] \in OnDisk /\ s[i] \in Names
  BY <1>2, <1>3, NamesAssumption
<1>5. insts \in Seq(InstType) /\ Instances = 1..Len(s) /\ \A i \in Instances : insts[i].name = s[i]
  <2>1. insts \in [1..Len(s) -> InstType] /\ \A i \in 1..Len(s) : insts[i].name = s[i]
    BY <1>1, <1>4 DEF InstType
  <2>2. insts \in Seq(InstType) /\ Len(insts) = Len(s)
    BY <2>1, <1>3, LenProperties
  <2> QED
    BY <2>1, <2>2 DEF Instances
<1>6. /\ loaded = Instances /\ unannounced = {} /\ disk = OnDisk /\ legacy = Legacy
      /\ pending = <<>> /\ consuming = <<>> /\ commands = <<>> /\ retained = {} /\ cmd = "open"
      /\ cleanup = "none" /\ gui = <<>>
      /\ models = <<[inst |-> 0, state |-> "open", remove |-> FALSE, subscribed |-> FALSE]>>
      /\ open = <<>> /\ selected = Empty /\ retiringNames = {}
      /\ init = "no" /\ shuttingDown = FALSE /\ complete = FALSE
      /\ walletLoaded = FALSE /\ loadInProgress = FALSE /\ migrating = FALSE
      /\ deferred = NoName /\ list = [open |-> {}, loading |-> NoName, error |-> NoName]
  BY DEF Init
<1>7. ToSet(<<>>) = {}
  BY DEF ToSet
<1>8. NodeInv
  BY <1>4, <1>5, <1>6, NamesAssumption DEF NodeInv
<1>9. NotifyInv /\ CommandInv /\ EventInv
  BY <1>6, <1>7 DEF NotifyInv, CommandInv, EventInv
<1>10. /\ models \in Seq(ModelType) /\ Len(models) = 1 /\ DOMAIN models = {Empty}
       /\ models[Empty].state = "open" /\ models[Empty].inst = 0
  BY <1>6 DEF ModelType, Empty
<1>11. Open = {}
  BY <1>6, <1>7 DEF Open
<1>12. ModelInv
  BY <1>6, <1>10, <1>11 DEF ModelInv
<1>13. ShownInv
  BY <1>6, <1>10, <1>11 DEF ShownInv, SelectedIsOpen, ListType
<1>14. PhaseInv
  BY <1>6, <1>7 DEF PhaseInv, PhaseType, StartInv, StopInv, DrainInv, CompleteInv, NoResults
<1>15. HeldInv
  BY <1>2, <1>3, <1>5 DEF HeldInv
<1>16. OneModelPerName /\ DeferredInv
  BY <1>6, <1>11 DEF OneModelPerName, DeferredInv, HeldBackNotShown
<1>17. TrackingInv
  <2>1. \A i \in loaded : insts[i].name # deferred
    BY <1>4, <1>5, <1>6, NamesAssumption
  <2> QED
    BY <2>1, <1>6, TrackedParts DEF TrackingInv, ReturnedInv, Initialized
<1> QED
  BY <1>8, <1>9, <1>12, <1>13, <1>14, <1>15, <1>16, <1>17 DEF WalletInv

LEMMA StutterQuiet ==
  ASSUME WalletInv, UNCHANGED vars
  PROVE  QuietStep
<1>1. list \in ListType /\ loadInProgress \in BOOLEAN /\ migrating \in BOOLEAN
  BY DEF WalletInv, ShownInv
<1> QED
  BY <1>1 DEF vars, QuietStep, nodeVars, notifyVars, commandVars, modelVars, phaseVars, statusVars

\* Every step keeps the invariant; no wallet is overlooked either, as long as
\* RPC clients create no wallet of a new name.
LEMMA NextKeeps ==
  ASSUME WalletInv, [Next]_vars
  PROVE  /\ WalletInv'
         /\ RpcNames \subseteq OnDisk /\ TrackingInv => TrackingInv'
<1> DEFINE Goal == WalletInv' /\ (RpcNames \subseteq OnDisk /\ TrackingInv => TrackingInv')
<1>1. CASE QuietStep
  BY <1>1, QuietKeeps, QuietTracks
<1>2. CASE User
  <2>1. ASSUME NEW n \in Names,
               SelectClosing(n) \/ SelectOpen(n) \/ StartLoad(n) \/ CloseWallet(n)
        PROVE  Goal
    BY <2>1, <1>1, UserQuiet, CloseWalletKeeps
  <2>2. ASSUME NEW n \in Names,
               Import(n) \/ Migrate(n) \/ \E kind \in Kinds : Create(kind, n)
        PROVE  Goal
    BY <2>2, <1>1, UserQuiet
  <2>3. CASE ClearStatus
    BY <2>3, <1>1, ClearStatusQuiet
  <2>4. CASE BeginShutdown
    BY <2>4, BeginShutdownKeeps
  <2> QED
    BY <2>1, <2>2, <2>3, <2>4, <1>2 DEF User
<1>3. CASE GuiStep
  <2>1. CASE RegisterHandler
    BY <2>1, RegisterHandlerKeeps
  <2>2. CASE ListWallets
    BY <2>2, ListWalletsKeeps
  <2>3. CASE HandleConsume
    BY <2>3, HandleConsumeKeeps
  <2>4. CASE ConsumeNext
    BY <2>4, ConsumeNextKeeps
  <2>5. CASE HandleResult
    BY <2>5, HandleResultKeeps
  <2>6. CASE DropResult
    BY <2>6, DropResultKeeps
  <2>7. CASE HandleUnload
    BY <2>7, HandleUnloadKeeps
  <2>8. CASE HandleRemove
    BY <2>8, HandleRemoveKeeps
  <2>9. CASE HandleModelDrained
    BY <2>9, HandleModelDrainedKeeps
  <2>10. CASE HandleCommandsDrained \/ HandleCleanupDrained
    BY <2>10, ExecutorDrainedKeeps
  <2> QED
    BY <2>1, <2>2, <2>3, <2>4, <2>5, <2>6, <2>7, <2>8, <2>9, <2>10, <1>3 DEF GuiStep
<1>4. CASE CommandStep
  <2>1. ASSUME NEW outcome \in {"error", "exception"}, CommandFails(outcome) PROVE Goal
    BY <2>1, CommandFailsKeeps
  <2>2. CASE CommandLoads
    BY <2>2, CommandLoadsKeeps
  <2>3. CASE CommandReturns
    BY <2>3, CommandReturnsKeeps
  <2>4. CASE SetupFails
    BY <2>4, SetupFailsKeeps
  <2>5. CASE CommandsDrain
    BY <2>5, CommandsDrainKeeps
  <2> QED
    BY <2>1, <2>2, <2>3, <2>4, <2>5, <1>4 DEF CommandStep
<1>5. CASE CleanUpNotifications
  BY <1>5, CleanUpKeeps
<1>6. ASSUME NEW i \in Instances, Announce(i) PROVE Goal
  BY <1>6, AnnounceKeeps
<1>7. ASSUME NEW k \in DOMAIN models, ReleaseModel(k) PROVE Goal
  BY <1>7, ReleaseModelKeeps
<1>8. CASE Rpc
  <2>1. ASSUME NEW n \in RpcNames, RpcLoad(n) PROVE Goal
    BY <2>1, RpcLoadKeeps
  <2>2. ASSUME NEW i \in Instances, RpcUnload(i) PROVE Goal
    BY <2>2, RpcUnloadKeeps
  <2> QED
    BY <2>1, <2>2, <1>8 DEF Rpc
<1>9. CASE UNCHANGED vars
  BY <1>1, <1>9, StutterQuiet
<1> QED
  BY <1>2, <1>3, <1>4, <1>5, <1>6, <1>7, <1>8, <1>9 DEF Next

\* What the invariant says of the variables' values.
LEMMA WalletTypes ==
  ASSUME WalletInv
  PROVE  TypeOK
<1>1. /\ \A i \in Instances : insts[i] \in InstType
      /\ loaded \subseteq Instances /\ unannounced \subseteq Instances
      /\ disk \subseteq Names /\ legacy \subseteq disk
  BY NamesAssumption, ElementOfSeq DEF WalletInv, NodeInv, Instances
<1>2. ToSet(pending) \cup ToSet(consuming) \subseteq Instances /\ retained \subseteq Instances
  BY DEF WalletInv, NotifyInv, CommandInv
<1>3. \A i \in DOMAIN commands :
        commands[i] \in [kind : Kinds, name : Names, inst : {0} \cup Instances]
  <2> TAKE i \in DOMAIN commands
  <2>1. commands[i] \in ToSet(commands) /\ commands[i] \in TaskType
    BY ElementOfSeq, LenProperties DEF WalletInv, CommandInv, ToSet
  <2>2. GoodTask(commands[i])
    BY <2>1 DEF WalletInv, CommandInv
  <2>3. commands[i].inst \in {0} \cup Instances
    BY <2>2 DEF GoodTask
  <2> QED
    BY <2>1, <2>3 DEF TaskType
<1>4. \A k \in DOMAIN models :
        models[k] \in [inst : {0} \cup Instances, state : {"open", "retiring", "released", "gone"},
                       remove : BOOLEAN, subscribed : BOOLEAN]
  <2> TAKE k \in DOMAIN models
  <2>1. models[k] \in ModelType
    BY ElementOfSeq, LenProperties DEF WalletInv, ModelInv
  <2>2. models[k].inst \in {0} \cup Instances
    BY DEF WalletInv, ModelInv
  <2> QED
    BY <2>1, <2>2 DEF ModelType
<1>5. Open \subseteq DOMAIN models \ {Empty} /\ selected \in DOMAIN models /\ retiringNames \subseteq Names
  BY DEF WalletInv, ModelInv, ShownInv
<1>6. /\ cmd \in {"open", "stopping", "posted", "drained"}
      /\ cleanup \in {"none", "cleaning", "posted", "drained"}
      /\ init \in {"no", "listing", "done"} /\ shuttingDown \in BOOLEAN /\ complete \in BOOLEAN
      /\ walletLoaded \in BOOLEAN /\ loadInProgress \in BOOLEAN /\ migrating \in BOOLEAN
  BY DEF WalletInv, CommandInv, PhaseInv, PhaseType, ShownInv
<1>7. /\ deferred \in Names \cup {NoName}
      /\ list.open \subseteq Names /\ {list.loading, list.error} \subseteq Names \cup {NoName}
  BY DEF WalletInv, DeferredInv, ShownInv, ListType
<1> QED
  BY <1>1, <1>2, <1>3, <1>4, <1>5, <1>6, <1>7 DEF TypeOK, InstType

\* Whatever happens to the wallets, views see a selected wallet that is open,
\* no name has two open models, and a watch-only wallet whose name is held back
\* is not shown before it is set up (addOrSelectWalletModel, removeWalletModel,
\* handleLoadWallet).
THEOREM ShownWalletsAreRight ==
  Spec => [](TypeOK /\ SelectedIsOpen /\ OneModelPerName /\ HeldBackNotShown)
<1>1. Init => WalletInv
  BY InitWallet
<1>2. WalletInv /\ [Next]_vars => WalletInv'
  BY NextKeeps
<1>3. WalletInv => TypeOK /\ SelectedIsOpen /\ OneModelPerName /\ HeldBackNotShown
  BY WalletTypes DEF WalletInv, ShownInv, DeferredInv
<1> QED
  BY <1>1, <1>2, <1>3, PTL DEF Spec

\* When checkShutdownFinished reports walletsDrained, no model, command, result
\* or notification holds a wallet.
THEOREM DrainIsClean ==
  Spec => []DrainedHoldsNoWallet
<1>1. Init => WalletInv
  BY InitWallet
<1>2. WalletInv /\ [Next]_vars => WalletInv'
  BY NextKeeps
<1>3. WalletInv => DrainedHoldsNoWallet
  BY DEF WalletInv, PhaseInv, StopInv, DrainInv, CompleteInv, DrainedHoldsNoWallet
<1> QED
  BY <1>1, <1>2, <1>3, PTL DEF Spec

\* No wallet of the node is overlooked between its load, its notification, the
\* result of its command and its close, as long as RPC clients load only wallets
\* that exist: a wallet that one creates under a name that is held back would be
\* ignored by handleLoadWallet and, when the creation fails, never be shown.
THEOREM NoWalletIsOverlooked ==
  ASSUME RpcNames \subseteq OnDisk
  PROVE  Spec => []WalletsAreTracked
<1>1. Init => WalletInv /\ TrackingInv
  BY InitWallet
<1>2. WalletInv /\ TrackingInv /\ [Next]_vars => WalletInv' /\ TrackingInv'
  BY NextKeeps
<1>3. WalletInv /\ TrackingInv => WalletsAreTracked
  BY WalletTypes DEF WalletInv, ShownInv, DeferredInv, TrackingInv, WalletsAreTracked
<1> QED
  BY <1>1, <1>2, <1>3, PTL DEF Spec

----------------------------------------------------------------------------
(* Payment requests: the wallet's notifications, the scan of its history and *)
(* the locks of the requests                                                 *)

Requested == [address : Addresses, terms : Terms, paid : BOOLEAN]
Notification == [kind : {"changed", "deleted"}, tx : Txs]
Outcome == [kind : {"scan", "scan failed", "poll", "poll failed"}, tx : {"none"}]
Scans == [state : {"idle", "queued", "reading", "done"}, addresses : SUBSET Addresses,
          todo : SUBSET Txs, payments : [Txs -> SUBSET Addresses], unconfirmed : SUBSET Txs,
          observed : SUBSET Addresses, requested : BOOLEAN,
          updates : [Txs -> {"none", "changed", "deleted"}]]
Polls == [state : {"idle", "queued", "done"}, todo : SUBSET Txs, inactive : SUBSET Txs,
          confirmed : SUBSET Txs]

ReceiveTypes ==
  /\ status \in [Txs -> Statuses] /\ given \subseteq Addresses
  /\ stage \in {"constructing", "running", "stopped"}
  /\ requests \in [Ids -> Requested \cup {NoRequest}]
  /\ stored \in [Ids -> Requested \cup {NoRequest}]
  /\ receiving \in [address : Addresses \cup {NoAddress}, paid : BOOLEAN,
                    persisted : Addresses \cup {NoAddress}]
  /\ scan \in Scans
  /\ queue \in Seq(Notification \cup Outcome)
  /\ missed \subseteq Txs /\ failed \in BOOLEAN
  /\ spent \in [changes : Nat, operations : Nat]

\* The worker has posted the one result of the scan, or an exception.
ScanResults == {"scan", "scan failed"}
QueueInv ==
  /\ stage # "running" => ~NotificationsPending
  /\ stage = "stopped" => scan.state = "idle"
  /\ \A i \in DOMAIN queue : queue[i].kind \in ScanResults =>
       scan.state = "done" /\ \A j \in DOMAIN queue : queue[j].kind \in ScanResults => i = j
  /\ \A i \in DOMAIN queue : queue[i].kind = "deleted" /\ queue[i].tx \in Present =>
       \E j \in DOMAIN queue : i < j /\ queue[j] = Message("changed", queue[i].tx)

Announced(t) == \E i \in DOMAIN queue : queue[i] = Message("changed", t)
ScanThrew == \E i \in DOMAIN queue : queue[i].kind = "scan failed"

\* The scan, as it stands, will lock the request of address a for t.
Scanned(t, a) ==
  /\ ReconciliationPending
  /\ \/ scan.requested \/ ScanWillRead(t) \/ a \in scan.observed \/ scan.updates[t] = "changed"
     \/ ScanThrew

Accounted(r, t) ==
  requests[r].paid \/ t \in missed \/ Announced(t) \/ Scanned(t, requests[r].address)

LockInvariant ==
  /\ ReconciliationPending =>
       scan.requested \/ RequestAddresses \subseteq scan.addresses
  /\ stage # "stopped" /\ ~failed => \A r \in Saved : \A t \in Paying(r) : Accounted(r, t)

ReceiveInv == ReceiveTypes /\ QueueInv /\ LockInvariant

----------------------------------------------------------------------------
(* Types *)

USE DEF Ids

LEMMA NoRequestIsNone == NoRequest \notin Requested
  BY PaysAssumption DEF NoRequest, Requested

LEMMA RefreshType ==
  ASSUME NEW s \in Scans, NEW rs \in [Ids -> Requested \cup {NoRequest}]
  PROVE  /\ Refresh(s, rs) \in Scans
         /\ s.state # "idle" => Refresh(s, rs) = [s EXCEPT !.requested = TRUE]
         /\ s.state = "idle" /\ (\A r \in Ids : rs[r] = NoRequest) => Refresh(s, rs) = s
         /\ s.state = "idle" /\ (\E r \in Ids : rs[r] # NoRequest) =>
              Refresh(s, rs) = [s EXCEPT !.state = "queued",
                                  !.addresses = {rs[r].address : r \in {r \in Ids : rs[r] # NoRequest}}]
<1> DEFINE saved == {r \in Ids : rs[r] # NoRequest}
           found == {rs[r].address : r \in saved}
<1>1. found \subseteq Addresses
  BY DEF Requested
<1>2. Refresh(s, rs) = CASE s.state # "idle" -> [s EXCEPT !.requested = TRUE]
                         [] s.state = "idle" /\ saved = {} -> s
                         [] OTHER -> [s EXCEPT !.state = "queued", !.addresses = found]
  BY DEF Refresh
<1>3. [s EXCEPT !.requested = TRUE] \in Scans
  BY DEF Scans
<1>4. [s EXCEPT !.state = "queued", !.addresses = found] \in Scans
  BY <1>1 DEF Scans
<1>5. saved = {} <=> \A r \in Ids : rs[r] = NoRequest
  OBVIOUS
<1> HIDE DEF saved, found
<1>6. CASE s.state # "idle"
  BY <1>2, <1>3, <1>6
<1>7. CASE s.state = "idle" /\ saved = {}
  BY <1>2, <1>5, <1>7
<1>8. CASE s.state = "idle" /\ saved # {}
  <2>1. Refresh(s, rs) = [s EXCEPT !.state = "queued", !.addresses = found]
    BY <1>2, <1>8
  <2> QED
    BY <2>1, <1>4, <1>5, <1>8 DEF found, saved
<1> QED
  BY <1>6, <1>7, <1>8

LEMMA RefreshState ==
  ASSUME NEW s \in Scans, NEW rs \in [Ids -> Requested \cup {NoRequest}], s.state # "idle"
  PROVE  Refresh(s, rs).state = s.state
<1>1. Refresh(s, rs) = [s EXCEPT !.requested = TRUE]
  BY RefreshType
<1> QED BY <1>1 DEF Scans

LEMMA IdleTypes == IdleScan \in Scans /\ IdlePoll \in Polls
  BY DEF IdleScan, IdlePoll, Scans, Polls

LEMMA ReceivedType ==
  ASSUME NEW t \in Txs, NEW A
  PROVE  /\ PaidBy(t) \subseteq Addresses
         /\ Received(t, A) \subseteq Addresses \cap A
         /\ Observed(t, A) = PaidBy(t) \cap A
  BY DEF PaidBy, Received, Observed

\* Locking a request that is saved changes nothing but its lock.
LEMMA MarkOK ==
  ASSUME ReceiveTypes, NEW A, Mark(A)
  PROVE  /\ requests' \in [Ids -> Requested \cup {NoRequest}]
         /\ stored' \in [Ids -> Requested \cup {NoRequest}]
         /\ \A r \in Ids : /\ requests'[r] = NoRequest <=> requests[r] = NoRequest
                           /\ requests'[r].address = requests[r].address
                           /\ requests'[r].terms = requests[r].terms
                           /\ requests[r].paid => requests'[r].paid
         /\ \A r \in Saved : requests[r].address \in A => requests'[r].paid
<1>1. Unlocked(A) \subseteq Saved
  BY DEF Unlocked
<1>2. requests \in [Ids -> Requested \cup {NoRequest}] /\ stored \in [Ids -> Requested \cup {NoRequest}]
  BY DEF ReceiveTypes
<1>3. \A r \in Saved : r \in Ids /\ requests[r] \in Requested
  BY <1>2 DEF Saved
<1>4. \A r \in Saved : /\ [requests[r] EXCEPT !.paid = TRUE] \in Requested
                       /\ [requests[r] EXCEPT !.paid = TRUE].address = requests[r].address
                       /\ [requests[r] EXCEPT !.paid = TRUE].terms = requests[r].terms
                       /\ [requests[r] EXCEPT !.paid = TRUE].paid
  BY <1>3 DEF Requested
<1>5. requests' = [r \in Ids |-> IF r \in Unlocked(A) THEN [requests[r] EXCEPT !.paid = TRUE] ELSE requests[r]]
  BY DEF Mark, Locked
<1>6. PICK written \in SUBSET Unlocked(A) : stored' = Locked(stored, written)
  BY DEF Mark
<1>7. stored' = [r \in Ids |-> IF r \in written THEN [requests[r] EXCEPT !.paid = TRUE] ELSE stored[r]]
  BY <1>6 DEF Locked
<1>8. stored' \in [Ids -> Requested \cup {NoRequest}]
  BY <1>1, <1>2, <1>4, <1>7
<1>9. requests' \in [Ids -> Requested \cup {NoRequest}]
  BY <1>1, <1>2, <1>4, <1>5
<1>10. ASSUME NEW r \in Ids
       PROVE  /\ requests'[r] = NoRequest <=> requests[r] = NoRequest
              /\ requests'[r].address = requests[r].address
              /\ requests'[r].terms = requests[r].terms
              /\ requests[r].paid => requests'[r].paid
  <2>1. CASE r \in Unlocked(A)
    BY <2>1, <1>1, <1>3, <1>4, <1>5, NoRequestIsNone
  <2>2. CASE r \notin Unlocked(A)
    BY <2>2, <1>5
  <2> QED
    BY <2>1, <2>2
<1>11. ASSUME NEW r \in Saved, requests[r].address \in A
       PROVE  requests'[r].paid
  <2>1. CASE r \in Unlocked(A)
    BY <2>1, <1>3, <1>4, <1>5
  <2>2. CASE r \notin Unlocked(A)
    BY <2>2, <1>3, <1>5, <1>11 DEF Unlocked
  <2> QED
    BY <2>1, <2>2
<1> QED
  BY <1>8, <1>9, <1>10, <1>11

\* A new request takes an id of its own.
LEMMA NextIdNew == NextId \notin Saved
<1> DEFINE S == {0} \cup Saved
           T == {d \in Nat : MaxRequests - d \in S}
<1>1. MaxRequests \in Nat /\ \A x \in S : x \in Int /\ x <= MaxRequests
  BY BoundsAssumption DEF Saved
<1>2. T # {} /\ T \subseteq Nat
  <2>1. MaxRequests - MaxRequests = 0
    BY <1>1
  <2> QED BY <1>1, <2>1
<1>3. PICK d \in T : \A e \in T : ~(<<e, d>> \in OpToRel(<, Nat))
  <2> HIDE DEF T
  <2> QED BY <1>2, NatLessThanWellFounded, WFMin, Zenon
<1>4. d \in Nat /\ MaxRequests - d \in S
  OBVIOUS
<1>5. \A y \in S : MaxRequests - d >= y
  <2> SUFFICES ASSUME NEW y \in S, ~(MaxRequests - d >= y) PROVE FALSE
    OBVIOUS
  <2>1. y \in Int /\ y <= MaxRequests
    BY <1>1
  <2>2. MaxRequests - y \in Nat /\ MaxRequests - y < d /\ MaxRequests - (MaxRequests - y) = y
    BY <1>1, <1>4, <2>1
  <2>3. MaxRequests - y \in T
    BY <2>2
  <2> HIDE DEF T
  <2>4. <<MaxRequests - y, d>> \in OpToRel(<, Nat)
    BY <1>4, <2>2, Zenon DEF OpToRel
  <2> QED BY <1>3, <2>3, <2>4
<1>6. Max(S) \in S /\ \A y \in S : Max(S) >= y
  BY <1>4, <1>5 DEF Max
<1> SUFFICES ASSUME NextId \in Saved PROVE FALSE
  OBVIOUS
<1>7. Max(S) \in Int /\ Max(S) + 1 \in S
  BY <1>1, <1>6 DEF NextId
<1> HIDE DEF S
<1> QED BY <1>6, <1>7

LEMMA InitTypes == ReceiveInit => ReceiveTypes
<1> SUFFICES ASSUME ReceiveInit PROVE ReceiveTypes
  OBVIOUS
<1>1. requests \in [Ids -> Requested \cup {NoRequest}]
  BY PaysAssumption DEF ReceiveInit, Requested, Terms
<1>2. scan \in Scans
  BY <1>1, RefreshType, IdleTypes DEF ReceiveInit
<1>3. receiving \in [address : Addresses \cup {NoAddress}, paid : BOOLEAN, persisted : Addresses \cup {NoAddress}]
  BY DEF ReceiveInit
<1>4. spent \in [changes : Nat, operations : Nat]
  BY DEF ReceiveInit
<1>5. given \subseteq Addresses
  BY PaysAssumption DEF ReceiveInit
<1>6. queue \in Seq(Notification \cup Outcome)
  <2>1. queue = <<>>
    BY DEF ReceiveInit
  <2> QED BY <2>1
<1>8. missed \subseteq Txs /\ failed \in BOOLEAN
  <2>1. missed = {} /\ failed = FALSE
    BY DEF ReceiveInit
  <2> QED BY <2>1
<1>7. status \in [Txs -> Statuses] /\ stage \in {"constructing", "running", "stopped"}
  BY Zenon DEF ReceiveInit
<1> QED
  BY <1>1, <1>2, <1>3, <1>4, <1>5, <1>6, <1>7, <1>8 DEF ReceiveTypes, ReceiveInit

\* The head of the queue is handled, or an event is added at its end.
LEMMA HandleOK ==
  ASSUME ReceiveTypes, NEW kind, Handle(kind)
  PROVE  /\ Head(queue) \in Notification \cup Outcome /\ Head(queue).kind = kind
         /\ Head(queue) = queue[1] /\ 1 \in DOMAIN queue /\ DOMAIN queue = 1..Len(queue)
         /\ queue' \in Seq(Notification \cup Outcome)
         /\ Len(queue) \in Nat /\ DOMAIN queue' = 1..Len(queue)-1
         /\ \A i \in DOMAIN queue' : i \in Nat /\ i + 1 \in DOMAIN queue /\ queue'[i] = queue[i + 1]
         /\ \A i \in DOMAIN queue : i # 1 =>
              i \in Nat /\ i - 1 \in DOMAIN queue' /\ queue'[i - 1] = queue[i]
         /\ kind \in {"changed", "deleted"} => Head(queue).tx \in Txs /\ Head(queue) = Message(kind, Head(queue).tx)
<1>1. queue \in Seq(Notification \cup Outcome) /\ queue # <<>> /\ Head(queue).kind = kind /\ queue' = Tail(queue)
  BY DEF Handle, ReceiveTypes
<1>2. Head(queue) \in Notification \cup Outcome
  BY <1>1
<1>3. kind \in {"changed", "deleted"} => Head(queue).tx \in Txs /\ Head(queue) = Message(kind, Head(queue).tx)
  BY <1>1, <1>2 DEF Notification, Outcome, Message
<1> QED BY <1>1, <1>2, <1>3

LEMMA AppendOK ==
  ASSUME ReceiveTypes, NEW e \in Notification \cup Outcome, queue' = Append(queue, e)
  PROVE  /\ queue' \in Seq(Notification \cup Outcome)
         /\ Len(queue) \in Nat /\ DOMAIN queue = 1..Len(queue)
         /\ DOMAIN queue' = 1..Len(queue)+1 /\ queue'[Len(queue)+1] = e
         /\ DOMAIN queue' = 1..Len(queue')
         /\ \A i \in DOMAIN queue : i \in DOMAIN queue' /\ queue'[i] = queue[i]
  BY DEF ReceiveTypes

LEMMA PostEvents ==
  \A kind \in {"scan", "scan failed", "poll", "poll failed"} : Message(kind, "none") \in Outcome
  BY DEF Message, Outcome

LEMMA UsedType ==
  ASSUME ReceiveTypes, Change \/ Operate
  PROVE  spent' \in [changes : Nat, operations : Nat]
<1>1. spent \in [changes : Nat, operations : Nat]
  BY DEF ReceiveTypes
<1>2. spent.changes + 1 \in Nat /\ spent.operations + 1 \in Nat
  BY <1>1
<1>3. CASE spent' = [spent EXCEPT !.changes = @ + 1]
  BY <1>1, <1>2, <1>3
<1>4. CASE spent' = [spent EXCEPT !.operations = @ + 1]
  BY <1>1, <1>2, <1>4
<1> QED BY <1>3, <1>4 DEF Change, Operate

LEMMA WorkerTypes ==
  ASSUME ReceiveTypes, Worker \/ Throws
  PROVE  ReceiveTypes'
<1> USE DEF ReceiveTypes
<1>1. CASE ScanStart
  <2>1. scan' \in Scans
    BY <1>1 DEF ScanStart, Scans, Present
  <2> QED BY <1>1, <2>1 DEF ScanStart
<1>2. CASE ScanEnd
  <2>1. scan' \in Scans
    BY <1>2 DEF ScanEnd, Scans
  <2>2. queue' \in Seq(Notification \cup Outcome)
    BY <1>2, AppendOK, PostEvents DEF ScanEnd, Post
  <2> QED BY <1>2, <2>1, <2>2 DEF ScanEnd, history
<1>3. CASE PollEnd
  <2>2. queue' \in Seq(Notification \cup Outcome)
    BY <1>3, AppendOK, PostEvents DEF PollEnd, Post
  <2> QED BY <1>3, <2>2 DEF PollEnd, history
<1>4. ASSUME NEW t \in Txs, ScanRead(t) PROVE ReceiveTypes'
  <2>0. Received(t, scan.addresses) \subseteq Addresses /\ Observed(t, scan.addresses) \subseteq Addresses
    BY ReceivedType
  <2>1. scan' \in Scans
    <3> DEFINE c == [scan EXCEPT !.todo = @ \ {t}, !.payments[t] = Received(t, scan.addresses)]
               p == [scan.payments EXCEPT ![t] = Received(t, scan.addresses)]
               u == IF Unconfirmed(t, scan.addresses) THEN scan.unconfirmed \cup {t} ELSE scan.unconfirmed
    <3>1. p \in [Txs -> SUBSET Addresses] /\ u \subseteq Txs
      BY <2>0 DEF Scans
    <3>2. scan' = [scan EXCEPT !.todo = @ \ {t}, !.payments = p, !.unconfirmed = u,
                               !.observed = @ \cup Observed(t, scan.addresses)]
      BY <1>4 DEF ScanRead, Scans
    <3> HIDE DEF p, u
    <3> QED BY <2>0, <3>1, <3>2 DEF Scans
  <2> QED BY <1>4, <2>1 DEF ScanRead, history
<1>5. ASSUME NEW t \in Txs, PollRead(t) PROVE ReceiveTypes'
  BY <1>5 DEF PollRead, history
<1>6. CASE ScanThrows
  <2>1. scan' \in Scans
    BY <1>6 DEF ScanThrows, Scans
  <2>2. queue' \in Seq(Notification \cup Outcome)
    BY <1>6, AppendOK, PostEvents DEF ScanThrows, Post
  <2>3. spent' \in [changes : Nat, operations : Nat]
    BY <1>6, UsedType DEF ScanThrows
  <2> QED BY <1>6, <2>1, <2>2, <2>3 DEF ScanThrows
<1>7. CASE PollThrows
  <2>2. queue' \in Seq(Notification \cup Outcome)
    BY <1>7, AppendOK, PostEvents DEF PollThrows, Post
  <2>3. spent' \in [changes : Nat, operations : Nat]
    BY <1>7, UsedType DEF PollThrows
  <2> QED BY <1>7, <2>2, <2>3 DEF PollThrows
<1> QED
  BY <1>1, <1>2, <1>3, <1>4, <1>5, <1>6, <1>7 DEF Worker, Throws

\* Notifications are handled, and the reconciliation ends.
LEMMA GuiTypes ==
  ASSUME ReceiveTypes, Gui \/ PollTimeout
  PROVE  ReceiveTypes'
<1>0. scan \in Scans /\ requests \in [Ids -> Requested \cup {NoRequest}]
  BY DEF ReceiveTypes
<1>1. CASE SubscribeToWalletSignals
  BY <1>1 DEF ReceiveTypes, SubscribeToWalletSignals, history
<1>2. ASSUME TransactionChanged PROVE ReceiveTypes'
  <2> DEFINE t == Head(queue).tx
  <2>1. queue' \in Seq(Notification \cup Outcome) /\ t \in Txs
    <3>1. Handle("changed")
      BY <1>2 DEF TransactionChanged
    <3> QED BY <3>1, HandleOK
  <2>2. scan' \in Scans
    BY <1>0, <1>2, <2>1 DEF TransactionChanged, Scans
  <2>3. /\ requests' \in [Ids -> Requested \cup {NoRequest}]
        /\ stored' \in [Ids -> Requested \cup {NoRequest}]
    BY <1>2, MarkOK DEF TransactionChanged, ReceiveTypes
  <2>4. receiving' \in [address : Addresses \cup {NoAddress}, paid : BOOLEAN, persisted : Addresses \cup {NoAddress}]
    BY <1>2 DEF TransactionChanged, Notice, ReceiveTypes
  <2> QED BY <1>2, <2>1, <2>2, <2>3, <2>4 DEF TransactionChanged, ReceiveTypes
<1>3. ASSUME TransactionDeleted PROVE ReceiveTypes'
  <2> DEFINE t == Head(queue).tx
  <2>1. queue' \in Seq(Notification \cup Outcome) /\ t \in Txs
    <3>1. Handle("deleted")
      BY <1>3 DEF TransactionDeleted
    <3> QED BY <3>1, HandleOK
  <2>2. scan' \in Scans
    BY <1>0, <1>3, <2>1 DEF TransactionDeleted, Scans
  <2> QED BY <1>3, <2>1, <2>2 DEF TransactionDeleted, ReceiveTypes
<1>4. ASSUME ApplyScan PROVE ReceiveTypes'
  <2>1. queue' \in Seq(Notification \cup Outcome)
    BY <1>4, HandleOK DEF ApplyScan
  <2>2. scan' \in Scans
    BY <1>4, IdleTypes DEF ApplyScan
  <2>3. /\ requests' \in [Ids -> Requested \cup {NoRequest}]
        /\ stored' \in [Ids -> Requested \cup {NoRequest}]
    BY <1>4, MarkOK DEF ApplyScan
  <2>4. receiving' \in [address : Addresses \cup {NoAddress}, paid : BOOLEAN, persisted : Addresses \cup {NoAddress}]
    BY <1>4 DEF ApplyScan, Notice, ReceiveTypes
  <2> QED BY <1>4, <2>1, <2>2, <2>3, <2>4 DEF ApplyScan, ReceiveTypes, history
<1>5. ASSUME RepeatScan PROVE ReceiveTypes'
  <2>1. queue' \in Seq(Notification \cup Outcome)
    BY <1>5, HandleOK DEF RepeatScan
  <2>2. scan' \in Scans
    BY <1>0, <1>5, IdleTypes, RefreshType DEF RepeatScan
  <2> QED BY <1>5, <2>1, <2>2 DEF RepeatScan, ReceiveTypes, history
<1>6. ASSUME ScanFailed PROVE ReceiveTypes'
  <2>1. queue' \in Seq(Notification \cup Outcome)
    BY <1>6, HandleOK DEF ScanFailed
  <2>2. scan' \in Scans
    BY <1>0, <1>6, IdleTypes DEF ScanFailed, Finished, Scans
  <2> QED BY <1>6, <2>1, <2>2 DEF ScanFailed, ReceiveTypes
<1>7. ASSUME PollDone PROVE ReceiveTypes'
  <2>1. queue' \in Seq(Notification \cup Outcome)
    BY <1>7, HandleOK DEF PollDone
  <2> QED BY <1>7, <2>1 DEF PollDone, ReceiveTypes, history
<1>8. ASSUME PollFailed PROVE ReceiveTypes'
  <2>1. queue' \in Seq(Notification \cup Outcome)
    BY <1>8, HandleOK DEF PollFailed
  <2> QED BY <1>8, <2>1 DEF PollFailed, ReceiveTypes, history
<1>9. CASE PollTimeout
  BY <1>9 DEF PollTimeout, ReceiveTypes, history
<1> QED
  BY <1>1, <1>2, <1>3, <1>4, <1>5, <1>6, <1>7, <1>8, <1>9 DEF Gui

LEMMA UserTypes ==
  ASSUME ReceiveTypes, RequestOperations
  PROVE  ReceiveTypes'
<1>0. /\ scan \in Scans /\ given \subseteq Addresses
      /\ requests \in [Ids -> Requested \cup {NoRequest}]
      /\ stored \in [Ids -> Requested \cup {NoRequest}]
      /\ receiving \in [address : Addresses \cup {NoAddress}, paid : BOOLEAN, persisted : Addresses \cup {NoAddress}]
  BY DEF ReceiveTypes
<1>1. ASSUME NEW renew \in BOOLEAN, EnsureReceivingAddress(renew) PROVE ReceiveTypes'
  <2> DEFINE address == IF receiving.address = NoAddress /\ ~renew THEN receiving.persisted ELSE receiving.address
             known == address # NoAddress
             paid == receiving.paid \/ (known /\ \E t \in Present : address \in PaidBy(t))
  <2>1. address \in Addresses \cup {NoAddress} /\ paid \in BOOLEAN
    BY <1>0
  <2>2. /\ requests' \in [Ids -> Requested \cup {NoRequest}]
        /\ stored' \in [Ids -> Requested \cup {NoRequest}]
        /\ missed' \subseteq Txs
    BY <1>1, MarkOK DEF EnsureReceivingAddress, ReceiveTypes, StillMissed
  <2>3. \/ receiving' = [receiving EXCEPT !.address = address] /\ given' = given
        \/ \E a \in Addresses \ given : given' = given \cup {a} /\ receiving' = [address |-> a, paid |-> FALSE, persisted |-> a]
        \/ receiving' = [receiving EXCEPT !.address = address, !.paid = paid] /\ given' = given
    BY <1>1 DEF EnsureReceivingAddress
  <2>4. /\ receiving' \in [address : Addresses \cup {NoAddress}, paid : BOOLEAN, persisted : Addresses \cup {NoAddress}]
        /\ given' \subseteq Addresses
    <3> HIDE DEF address, known, paid
    <3>1. CASE receiving' = [receiving EXCEPT !.address = address] /\ given' = given
      BY <1>0, <2>1, <3>1
    <3>2. CASE \E a \in Addresses \ given : given' = given \cup {a} /\ receiving' = [address |-> a, paid |-> FALSE, persisted |-> a]
      <4>1. PICK a \in Addresses \ given : given' = given \cup {a} /\ receiving' = [address |-> a, paid |-> FALSE, persisted |-> a]
        BY <3>2
      <4> QED BY <1>0, <4>1
    <3>3. CASE receiving' = [receiving EXCEPT !.address = address, !.paid = paid] /\ given' = given
      BY <1>0, <2>1, <3>3
    <3> QED BY <2>3, <3>1, <3>2, <3>3
  <2> QED BY <1>1, <2>2, <2>4, UsedType DEF EnsureReceivingAddress, ReceiveTypes
<1>2. ASSUME NEW a \in Addresses, ChooseAddress(a) PROVE ReceiveTypes'
  <2>1. receiving' \in [address : Addresses \cup {NoAddress}, paid : BOOLEAN, persisted : Addresses \cup {NoAddress}]
    BY <1>2 DEF ChooseAddress
  <2> QED BY <1>2, <2>1, UsedType DEF ChooseAddress, ReceiveTypes
<1>3. ASSUME CommitRequest PROVE ReceiveTypes'
  <2> DEFINE new == [address |-> receiving.address, terms |-> "some", paid |-> FALSE]
  <2>1. missed' \subseteq Txs
    BY <1>3 DEF CommitRequest, ReceiveTypes, StillMissed
  <2>2. CASE Mark(AllPaid) /\ Notice(AllPaid) /\ UNCHANGED scan
    <3>1. /\ requests' \in [Ids -> Requested \cup {NoRequest}]
          /\ stored' \in [Ids -> Requested \cup {NoRequest}]
      BY <2>2, MarkOK
    <3>2. receiving' \in [address : Addresses \cup {NoAddress}, paid : BOOLEAN, persisted : Addresses \cup {NoAddress}]
      BY <1>0, <2>2 DEF Notice
    <3> QED BY <1>3, <2>1, <2>2, <3>1, <3>2, UsedType DEF CommitRequest, ReceiveTypes
  <2>3. ASSUME receiving.address # NoAddress, NextId \in Ids,
               requests' = [Locked(requests, Unlocked(AllPaid)) EXCEPT ![NextId] = new],
               NEW written \in SUBSET Unlocked(AllPaid),
               stored' = [Locked(stored, written) EXCEPT ![NextId] = new],
               receiving' = [address |-> NoAddress, paid |-> FALSE, persisted |-> NoAddress],
               scan' = [scan EXCEPT !.requested = @ \/ ReconciliationPending]
        PROVE  ReceiveTypes'
    <3>1. new \in Requested
      BY <1>0, <2>3 DEF Requested, Terms
    <3>2. \A r \in Unlocked(AllPaid) : r \in Ids /\ [requests[r] EXCEPT !.paid = TRUE] \in Requested
      BY <1>0 DEF Unlocked, Saved, Requested
    <3>3. /\ Locked(requests, Unlocked(AllPaid)) \in [Ids -> Requested \cup {NoRequest}]
          /\ Locked(stored, written) \in [Ids -> Requested \cup {NoRequest}]
      BY <1>0, <3>2 DEF Locked
    <3>4. /\ requests' \in [Ids -> Requested \cup {NoRequest}]
          /\ stored' \in [Ids -> Requested \cup {NoRequest}]
      BY <2>3, <3>1, <3>3
    <3>5. scan' \in Scans
      BY <1>0, <2>3 DEF Scans, ReconciliationPending
    <3>6. receiving' \in [address : Addresses \cup {NoAddress}, paid : BOOLEAN, persisted : Addresses \cup {NoAddress}]
      BY <2>3
    <3> QED BY <1>3, <2>1, <3>4, <3>5, <3>6, UsedType DEF CommitRequest, ReceiveTypes
  <2> QED BY <1>3, <2>2, <2>3 DEF CommitRequest
<1>4. ASSUME NEW r \in Ids, RemoveRequest(r) PROVE ReceiveTypes'
  <2> DEFINE rest == [requests EXCEPT ![r] = NoRequest]
  <2>1. /\ requests' \in [Ids -> Requested \cup {NoRequest}] /\ rest \in [Ids -> Requested \cup {NoRequest}]
        /\ stored' \in [Ids -> Requested \cup {NoRequest}]
    BY <1>0, <1>4 DEF RemoveRequest
  <2>2. scan' \in Scans
    BY <1>0, <1>4, <2>1, RefreshType DEF RemoveRequest
  <2> QED BY <1>4, <2>1, <2>2, UsedType DEF RemoveRequest, ReceiveTypes
<1>5. ASSUME NEW r \in Ids, UseAsTemplate(r) PROVE ReceiveTypes'
  <2>1. receiving' \in [address : Addresses \cup {NoAddress}, paid : BOOLEAN, persisted : Addresses \cup {NoAddress}]
    BY <1>5 DEF UseAsTemplate
  <2> QED BY <1>5, <2>1, UsedType DEF UseAsTemplate, ReceiveTypes
<1>6. ASSUME NEW r \in Ids, NEW terms \in Terms, UpdateRequest(r, terms) PROVE ReceiveTypes'
  <2>1. [requests[r] EXCEPT !.terms = terms] \in Requested
    BY <1>0, <1>6 DEF UpdateRequest, Saved, Requested
  <2>2. /\ requests' \in [Ids -> Requested \cup {NoRequest}]
        /\ stored' \in [Ids -> Requested \cup {NoRequest}]
    BY <1>0, <1>6, <2>1 DEF UpdateRequest
  <2> QED BY <1>6, <2>2, UsedType DEF UpdateRequest, ReceiveTypes
<1>7. CASE SyncNote
  <2>1. scan' \in Scans
    BY <1>0, <1>7, RefreshType DEF SyncNote
  <2> QED BY <1>7, <2>1, UsedType DEF SyncNote, ReceiveTypes
<1>8. CASE BeginModelShutdown
  <2>1. scan' \in Scans /\ queue' \in Seq(Notification \cup Outcome)
    BY <1>8, IdleTypes DEF BeginModelShutdown
  <2> QED BY <1>8, <2>1, UsedType DEF BeginModelShutdown, ReceiveTypes
<1>9. CASE Reopen
  <2>1. scan' \in Scans
    BY <1>0, <1>9, IdleTypes, RefreshType DEF Reopen
  <2>2. receiving' \in [address : Addresses \cup {NoAddress}, paid : BOOLEAN, persisted : Addresses \cup {NoAddress}]
    BY <1>0, <1>9 DEF Reopen
  <2> QED BY <1>9, <2>1, <2>2 DEF Reopen, ReceiveTypes
<1> QED
  BY <1>1, <1>2, <1>3, <1>4, <1>5, <1>6, <1>7, <1>8, <1>9 DEF RequestOperations

LEMMA WalletChangeTypes ==
  ASSUME ReceiveTypes, NEW t \in Txs, NEW s \in Statuses, NEW told \in BOOLEAN, WalletChanges(t, s, told)
  PROVE  ReceiveTypes'
<1>1. Message("deleted", t) \in Notification /\ Message("changed", t) \in Notification
  BY DEF Message, Notification
<1>2. queue' \in Seq(Notification \cup Outcome)
  BY <1>1, AppendOK DEF WalletChanges, ReceiveTypes
<1>3. missed' \subseteq Txs /\ status' \in [Txs -> Statuses]
  BY DEF WalletChanges, ReceiveTypes
<1> QED BY <1>2, <1>3, UsedType DEF WalletChanges, ReceiveTypes

LEMMA TypesStep ==
  ASSUME ReceiveTypes, ReceiveNext \/ UNCHANGED receiveVars
  PROVE  ReceiveTypes'
<1>1. CASE UNCHANGED receiveVars
  BY <1>1 DEF receiveVars, ReceiveTypes
<1> QED BY <1>1, WorkerTypes, GuiTypes, UserTypes, WalletChangeTypes DEF ReceiveNext, Wallet

----------------------------------------------------------------------------
(* The events of the wallet and of the scan *)

\* Steps that leave the queue as it is, and the scan done if it was.
LEMMA QuietQueue ==
  ASSUME ReceiveTypes, QueueInv, queue' = queue, status' = status,
         stage' = stage \/ (stage = "constructing" /\ stage' = "running"),
         stage = "stopped" => scan' = scan,
         scan.state = "done" => scan'.state = "done"
  PROVE  QueueInv'
<1>1. NotificationsPending' = NotificationsPending /\ Present' = Present
  BY DEF NotificationsPending, Present
<1>2. (stage # "running" => ~NotificationsPending)'
  BY <1>1 DEF QueueInv
<1>3. (stage = "stopped" => scan.state = "idle")'
  BY DEF QueueInv
<1>4. (\A i \in DOMAIN queue : queue[i].kind \in ScanResults =>
         scan.state = "done" /\ \A j \in DOMAIN queue : queue[j].kind \in ScanResults => i = j)'
  BY DEF QueueInv, ScanResults
<1>5. (\A i \in DOMAIN queue : queue[i].kind = "deleted" /\ queue[i].tx \in Present =>
         \E j \in DOMAIN queue : i < j /\ queue[j] = Message("changed", queue[i].tx))'
  BY <1>1 DEF QueueInv
<1> QED BY <1>2, <1>3, <1>4, <1>5 DEF QueueInv

LEMMA HandledQueue ==
  ASSUME ReceiveTypes, QueueInv, NEW kind, Handle(kind), status' = status, stage' = stage,
         kind \in ScanResults \/ scan'.state = scan.state
  PROVE  QueueInv'
<1>0. Present' = Present /\ stage = "running"
  BY DEF Present, Handle
<1>1. (stage # "running" => ~NotificationsPending)'
  BY <1>0
<1>2. (stage = "stopped" => scan.state = "idle")'
  BY <1>0
<1>3. ASSUME NEW i \in DOMAIN queue', queue'[i].kind \in ScanResults
      PROVE  scan'.state = "done" /\ \A j \in DOMAIN queue' : queue'[j].kind \in ScanResults => i = j
  <2>1. i + 1 \in DOMAIN queue /\ queue[i + 1].kind \in ScanResults /\ i + 1 # 1 /\ i \in Nat
    BY <1>3, HandleOK
  <2>2. scan.state = "done" /\ \A j \in DOMAIN queue : queue[j].kind \in ScanResults => i + 1 = j
    BY <2>1 DEF QueueInv
  <2>3. kind \notin ScanResults
    <3>1. 1 \in DOMAIN queue /\ queue[1].kind = kind
      BY HandleOK
    <3> QED BY <2>1, <2>2, <3>1
  <2>4. ASSUME NEW j \in DOMAIN queue', queue'[j].kind \in ScanResults PROVE i = j
    <3>1. j + 1 \in DOMAIN queue /\ queue[j + 1].kind \in ScanResults /\ j \in Nat
      BY <2>4, HandleOK
    <3> QED BY <2>1, <2>2, <3>1
  <2> QED BY <2>2, <2>3, <2>4
<1>4. ASSUME NEW i \in DOMAIN queue', queue'[i].kind = "deleted", queue'[i].tx \in Present'
      PROVE  \E j \in DOMAIN queue' : i < j /\ queue'[j] = Message("changed", queue'[i].tx)
  <2>1. i \in Nat /\ i + 1 \in DOMAIN queue /\ queue'[i] = queue[i + 1]
    BY HandleOK
  <2>2. PICK j \in DOMAIN queue : i + 1 < j /\ queue[j] = Message("changed", queue[i + 1].tx)
    BY <1>0, <1>4, <2>1 DEF QueueInv
  <2>3. j # 1 /\ j \in Nat
    BY <2>1, <2>2, HandleOK
  <2>4. j - 1 \in DOMAIN queue' /\ queue'[j - 1] = queue[j]
    BY <2>3, HandleOK
  <2>5. i < j - 1
    BY <2>1, <2>2, <2>3
  <2> QED BY <2>1, <2>2, <2>4, <2>5
<1> QED
  <2>1. (\A i \in DOMAIN queue : queue[i].kind \in ScanResults =>
           scan.state = "done" /\ \A j \in DOMAIN queue : queue[j].kind \in ScanResults => i = j)'
    BY <1>3 DEF ScanResults
  <2>2. (\A i \in DOMAIN queue : queue[i].kind = "deleted" /\ queue[i].tx \in Present =>
           \E j \in DOMAIN queue : i < j /\ queue[j] = Message("changed", queue[i].tx))'
    BY <1>4
  <2> QED BY <1>1, <1>2, <2>1, <2>2 DEF QueueInv

LEMMA LastOfInterval == \A n \in Nat : \A i \in 1..n+1 : i # n + 1 => i \in 1..n
  OBVIOUS

\* A result of the worker.
LEMMA PostedQueue ==
  ASSUME ReceiveTypes, QueueInv, NEW kind \in {"scan", "scan failed", "poll", "poll failed"}, Post(kind),
         status' = status, stage' = stage,
         \/ kind \notin ScanResults /\ scan' = scan
         \/ scan.state \in {"queued", "reading"} /\ scan'.state = "done"
  PROVE  QueueInv'
<1> DEFINE e == Message(kind, "none")
<1>1. e \in Notification \cup Outcome /\ e.kind = kind
  BY PostEvents DEF Message
<1>2. queue' = Append(queue, e)
  BY DEF Post
<1> HIDE DEF e
<1>3. /\ Len(queue) \in Nat /\ DOMAIN queue = 1..Len(queue)
      /\ DOMAIN queue' = 1..Len(queue)+1 /\ queue'[Len(queue)+1].kind = kind
      /\ DOMAIN queue' = 1..Len(queue')
      /\ \A i \in DOMAIN queue : i \in DOMAIN queue' /\ queue'[i] = queue[i]
  BY <1>1, <1>2, AppendOK
<1>4. \A i \in DOMAIN queue' : i # Len(queue)+1 => i \in DOMAIN queue /\ queue'[i] = queue[i]
  <2>1. Len(queue) \in Nat
    BY <1>3
  <2>2. \A i \in 1..Len(queue)+1 : i # Len(queue)+1 => i \in 1..Len(queue)
    BY <2>1, LastOfInterval, Zenon
  <2> QED BY <1>3, <2>2
<1>5. Present' = Present
  BY DEF Present
<1>6. (stage # "running" => ~NotificationsPending)'
  <2> SUFFICES ASSUME stage # "running", NEW i \in DOMAIN queue', queue'[i].kind \in {"changed", "deleted"} PROVE FALSE
    BY <1>3 DEF NotificationsPending
  <2>1. i \in DOMAIN queue /\ queue'[i] = queue[i]
    BY <1>3, <1>4
  <2> QED BY <1>3, <2>1 DEF QueueInv, NotificationsPending
<1>7. (stage = "stopped" => scan.state = "idle")'
  BY DEF QueueInv
<1>8. ASSUME NEW i \in DOMAIN queue', queue'[i].kind \in ScanResults
      PROVE  scan'.state = "done" /\ \A j \in DOMAIN queue' : queue'[j].kind \in ScanResults => i = j
  <2>1. CASE kind \notin ScanResults /\ scan' = scan
    <3>1. \A j \in DOMAIN queue' : queue'[j].kind \in ScanResults => j \in DOMAIN queue /\ queue[j].kind \in ScanResults
      BY <1>3, <1>4, <2>1
    <3> QED BY <1>8, <2>1, <3>1 DEF QueueInv
  <2>2. CASE scan.state \in {"queued", "reading"} /\ scan'.state = "done"
    <3>1. \A j \in DOMAIN queue : queue[j].kind \notin ScanResults
      BY <2>2 DEF QueueInv
    <3>2. \A j \in DOMAIN queue' : queue'[j].kind \in ScanResults => j = Len(queue)+1
      BY <1>4, <3>1
    <3> QED BY <1>8, <2>2, <3>2
  <2> QED BY <2>1, <2>2
<1>9. ASSUME NEW i \in DOMAIN queue', queue'[i].kind = "deleted", queue'[i].tx \in Present'
      PROVE  \E j \in DOMAIN queue' : i < j /\ queue'[j] = Message("changed", queue'[i].tx)
  <2>1. i \in DOMAIN queue /\ queue'[i] = queue[i]
    BY <1>3, <1>4, <1>9
  <2>2. PICK j \in DOMAIN queue : i < j /\ queue[j] = Message("changed", queue[i].tx)
    BY <1>5, <1>9, <2>1 DEF QueueInv
  <2> QED BY <1>3, <2>1, <2>2
<1> QED
  <2>1. (\A i \in DOMAIN queue : queue[i].kind \in ScanResults =>
           scan.state = "done" /\ \A j \in DOMAIN queue : queue[j].kind \in ScanResults => i = j)'
    BY <1>8 DEF ScanResults
  <2>2. (\A i \in DOMAIN queue : queue[i].kind = "deleted" /\ queue[i].tx \in Present =>
           \E j \in DOMAIN queue : i < j /\ queue[j] = Message("changed", queue[i].tx))'
    BY <1>9
  <2> QED BY <1>6, <1>7, <2>1, <2>2 DEF QueueInv

LEMMA EventTypes ==
  ASSUME ReceiveTypes, NEW i \in DOMAIN queue, queue[i].kind \in {"changed", "deleted"}
  PROVE  queue[i].tx \in Txs
<1>1. queue[i] \in Notification \cup Outcome
  BY DEF ReceiveTypes
<1>2. queue[i] \notin Outcome
  BY DEF Outcome
<1> QED BY <1>1, <1>2 DEF Notification

LEMMA WalletQueue ==
  ASSUME ReceiveTypes, QueueInv, NEW t \in Txs, NEW s \in Statuses, NEW told \in BOOLEAN, WalletChanges(t, s, told)
  PROVE  QueueInv'
<1> DEFINE e == Message(IF s = "absent" THEN "deleted" ELSE "changed", t)
<1>1. /\ stage' = stage /\ scan' = scan /\ status' = [status EXCEPT ![t] = s]
      /\ told \/ (status[t] = "mempool" /\ s = "inactive")
      /\ s # status[t]
      /\ queue' = IF told /\ stage = "running" THEN Append(queue, e) ELSE queue
  BY DEF WalletChanges
<1>2. /\ \A u \in Txs : u # t => (u \in Present' <=> u \in Present)
      /\ t \in Present' <=> s # "absent"
      /\ t \in Present' /\ t \notin Present => told
  BY <1>1 DEF Present, ReceiveTypes
<1>3. e \in Notification /\ e.kind \in {"changed", "deleted"} /\ e.tx = t
      /\ (s # "absent" => e = Message("changed", t) /\ e.kind = "changed") /\ (s = "absent" => e.kind = "deleted")
  BY DEF Message, Notification
<1>4. \A i \in DOMAIN queue : queue[i].kind = "deleted" => queue[i].tx \in Txs
  BY EventTypes
<1>5. CASE ~(told /\ stage = "running")
  <2>1. queue' = queue /\ NotificationsPending' = NotificationsPending
    BY <1>1, <1>5 DEF NotificationsPending
  <2>2. (stage # "running" => ~NotificationsPending)'
    BY <1>1, <2>1 DEF QueueInv
  <2>3. (stage = "stopped" => scan.state = "idle")'
    BY <1>1 DEF QueueInv
  <2>4. (\A i \in DOMAIN queue : queue[i].kind \in ScanResults =>
           scan.state = "done" /\ \A j \in DOMAIN queue : queue[j].kind \in ScanResults => i = j)'
    BY <1>1, <2>1 DEF QueueInv, ScanResults
  <2>5. ASSUME NEW i \in DOMAIN queue', queue'[i].kind = "deleted", queue'[i].tx \in Present'
        PROVE  \E j \in DOMAIN queue' : i < j /\ queue'[j] = Message("changed", queue'[i].tx)
    <3>1. i \in DOMAIN queue /\ queue[i].kind = "deleted" /\ queue[i].tx \in Txs
      BY <1>4, <2>1, <2>5
    <3>2. DOMAIN queue = 1..Len(queue)
      BY DEF ReceiveTypes
    <3>3. stage = "running"
      BY <3>1, <3>2 DEF QueueInv, NotificationsPending
    <3>4. queue[i].tx \in Present
      BY <1>2, <1>5, <2>1, <2>5, <3>1, <3>3
    <3> QED BY <2>1, <3>1, <3>4 DEF QueueInv
  <2>6. (\A i \in DOMAIN queue : queue[i].kind = "deleted" /\ queue[i].tx \in Present =>
           \E j \in DOMAIN queue : i < j /\ queue[j] = Message("changed", queue[i].tx))'
    BY <2>5
  <2> QED BY <2>2, <2>3, <2>4, <2>6 DEF QueueInv
<1>6. CASE told /\ stage = "running"
  <2> HIDE DEF e
  <2>1. queue' = Append(queue, e)
    BY <1>1, <1>6
  <2>2. /\ Len(queue) \in Nat /\ DOMAIN queue = 1..Len(queue)
        /\ DOMAIN queue' = 1..Len(queue)+1 /\ queue'[Len(queue)+1] = e
        /\ \A i \in DOMAIN queue : i \in DOMAIN queue' /\ queue'[i] = queue[i]
    BY <1>3, <2>1, AppendOK
  <2>3. \A i \in DOMAIN queue' : i # Len(queue)+1 => i \in DOMAIN queue /\ queue'[i] = queue[i]
    <3>1. Len(queue) \in Nat
      BY <2>2
    <3>2. \A i \in 1..Len(queue)+1 : i # Len(queue)+1 => i \in 1..Len(queue)
      BY <3>1, LastOfInterval, Zenon
    <3> QED BY <2>2, <3>2
  <2>4. ASSUME NEW i \in DOMAIN queue', queue'[i].kind \in ScanResults
        PROVE  i \in DOMAIN queue /\ queue[i].kind \in ScanResults
    BY <1>3, <2>2, <2>3, <2>4 DEF ScanResults
  <2>5. (\A i \in DOMAIN queue : queue[i].kind \in ScanResults =>
           scan.state = "done" /\ \A j \in DOMAIN queue : queue[j].kind \in ScanResults => i = j)'
    BY <1>1, <2>4 DEF QueueInv, ScanResults
  <2>6. ASSUME NEW i \in DOMAIN queue', queue'[i].kind = "deleted", queue'[i].tx \in Present'
        PROVE  \E j \in DOMAIN queue' : i < j /\ queue'[j] = Message("changed", queue'[i].tx)
    <3>1. i # Len(queue)+1
      BY <1>2, <1>3, <2>2, <2>6
    <3>2. i \in DOMAIN queue /\ queue'[i] = queue[i] /\ i < Len(queue)+1 /\ Len(queue)+1 \in DOMAIN queue'
      BY <2>2, <2>3, <3>1
    <3>3. CASE queue[i].tx = t
      <4>1. queue'[Len(queue)+1] = Message("changed", queue'[i].tx)
        BY <1>2, <1>3, <2>2, <2>6, <3>2, <3>3
      <4> QED BY <3>2, <4>1
    <3>4. CASE queue[i].tx # t
      <4>1. queue[i].tx \in Present
        BY <1>2, <1>4, <2>6, <3>2, <3>4
      <4>2. PICK j \in DOMAIN queue : i < j /\ queue[j] = Message("changed", queue[i].tx)
        BY <2>6, <3>2, <4>1 DEF QueueInv
      <4> QED BY <2>2, <3>2, <4>2
    <3> QED BY <3>3, <3>4
  <2>7. (\A i \in DOMAIN queue : queue[i].kind = "deleted" /\ queue[i].tx \in Present =>
           \E j \in DOMAIN queue : i < j /\ queue[j] = Message("changed", queue[i].tx))'
    BY <2>6
  <2>8. (stage # "running" => ~NotificationsPending)' /\ (stage = "stopped" => scan.state = "idle")'
    BY <1>1, <1>6
  <2> QED BY <2>5, <2>7, <2>8 DEF QueueInv
<1> QED BY <1>5, <1>6

LEMMA QueueStep ==
  ASSUME ReceiveTypes, QueueInv, ReceiveNext \/ UNCHANGED receiveVars
  PROVE  QueueInv'
<1>0. scan \in Scans /\ requests \in [Ids -> Requested \cup {NoRequest}] /\ stage \in {"constructing", "running", "stopped"}
      /\ stored \in [Ids -> Requested \cup {NoRequest}]
  BY DEF ReceiveTypes
<1>1. CASE UNCHANGED receiveVars
  BY <1>1, QuietQueue DEF receiveVars
<1>2. CASE Worker \/ Throws
  <2>1. CASE ScanStart
    BY <1>0, <2>1, QuietQueue DEF ScanStart, QueueInv
  <2>2. CASE ScanEnd
    BY <1>0, <2>2, PostedQueue DEF ScanEnd, Scans
  <2>3. CASE PollEnd
    BY <2>3, PostedQueue DEF PollEnd, ScanResults
  <2>4. ASSUME NEW t \in Txs, ScanRead(t) PROVE QueueInv'
    <3>1. scan.state = "reading" /\ queue' = queue /\ status' = status /\ stage' = stage
      BY <2>4 DEF ScanRead
    <3>2. stage # "stopped"
      BY <3>1 DEF QueueInv
    <3> QED BY <3>1, <3>2, QuietQueue
  <2>5. ASSUME NEW t \in Txs, PollRead(t) PROVE QueueInv'
    BY <2>5, QuietQueue DEF PollRead
  <2>6. CASE ScanThrows
    BY <1>0, <2>6, PostedQueue DEF ScanThrows, Scans
  <2>7. CASE PollThrows
    BY <2>7, PostedQueue DEF PollThrows, ScanResults
  <2> QED BY <1>2, <2>1, <2>2, <2>3, <2>4, <2>5, <2>6, <2>7 DEF Worker, Throws
<1>3. CASE Gui \/ PollTimeout
  <2>1. CASE SubscribeToWalletSignals
    BY <2>1, QuietQueue DEF SubscribeToWalletSignals
  <2>2. CASE TransactionChanged
    <3>1. scan'.state = scan.state
      BY <1>0, <2>2 DEF TransactionChanged, Scans
    <3> QED BY <2>2, <3>1, HandledQueue DEF TransactionChanged
  <2>3. CASE TransactionDeleted
    <3>1. scan'.state = scan.state
      BY <1>0, <2>3 DEF TransactionDeleted, Scans
    <3> QED BY <2>3, <3>1, HandledQueue DEF TransactionDeleted
  <2>4. CASE ApplyScan
    BY <2>4, HandledQueue DEF ApplyScan, ScanResults
  <2>5. CASE RepeatScan
    BY <2>5, HandledQueue DEF RepeatScan, ScanResults
  <2>6. CASE ScanFailed
    BY <2>6, HandledQueue DEF ScanFailed, ScanResults
  <2>7. CASE PollDone
    BY <2>7, HandledQueue DEF PollDone
  <2>8. CASE PollFailed
    BY <2>8, HandledQueue DEF PollFailed
  <2>9. CASE PollTimeout
    BY <2>9, QuietQueue DEF PollTimeout
  <2> QED BY <1>3, <2>1, <2>2, <2>3, <2>4, <2>5, <2>6, <2>7, <2>8, <2>9 DEF Gui
<1>4. CASE RequestOperations
  <2>1. ASSUME NEW renew \in BOOLEAN, EnsureReceivingAddress(renew) PROVE QueueInv'
    BY <2>1, QuietQueue DEF EnsureReceivingAddress
  <2>2. ASSUME NEW a \in Addresses, ChooseAddress(a) PROVE QueueInv'
    BY <2>2, QuietQueue DEF ChooseAddress
  <2>3. CASE CommitRequest
    <3>1. scan'.state = scan.state /\ queue' = queue /\ status' = status /\ stage' = stage /\ stage = "running"
      BY <1>0, <2>3 DEF CommitRequest, Scans
    <3> QED BY <3>1, QuietQueue
  <2>4. ASSUME NEW r \in Ids, RemoveRequest(r) PROVE QueueInv'
    <3> DEFINE rest == [requests EXCEPT ![r] = NoRequest]
    <3>1. rest \in [Ids -> Requested \cup {NoRequest}]
      BY <1>0
    <3>2. scan' = Refresh(scan, rest) /\ queue' = queue /\ status' = status /\ stage' = stage /\ stage = "running"
      BY <2>4 DEF RemoveRequest
    <3> HIDE DEF rest
    <3>3. scan.state = "done" => scan'.state = "done"
      BY <1>0, <3>1, <3>2, RefreshState
    <3> QED BY <3>2, <3>3, QuietQueue
  <2>5. ASSUME NEW r \in Ids, UseAsTemplate(r) PROVE QueueInv'
    BY <2>5, QuietQueue DEF UseAsTemplate
  <2>6. ASSUME NEW r \in Ids, NEW terms \in Terms, UpdateRequest(r, terms) PROVE QueueInv'
    BY <2>6, QuietQueue DEF UpdateRequest
  <2>7. CASE SyncNote
    <3>2. scan' = Refresh(scan, requests) /\ queue' = queue /\ status' = status /\ stage' = stage /\ stage = "running"
      BY <2>7 DEF SyncNote
    <3>3. scan.state = "done" => scan'.state = "done"
      BY <1>0, <3>2, RefreshState
    <3> QED BY <3>2, <3>3, QuietQueue
  <2>8. CASE BeginModelShutdown
    <3>1. queue' = <<>> /\ stage' = "stopped" /\ scan' = IdleScan
      BY <2>8 DEF BeginModelShutdown
    <3>2. DOMAIN queue' = {} /\ Len(queue') = 0 /\ scan'.state = "idle"
      BY <3>1 DEF IdleScan
    <3> QED BY <3>1, <3>2 DEF QueueInv, NotificationsPending
  <2>9. CASE Reopen
    <3>1. queue' = queue /\ stage = "stopped" /\ stage' = "constructing" /\ Present' = Present
      BY <2>9 DEF Reopen, Present
    <3>2. ~NotificationsPending /\ scan.state = "idle"
      BY <3>1 DEF QueueInv
    <3>3. \A i \in DOMAIN queue : queue[i].kind \notin ScanResults \cup {"changed", "deleted"}
      <4>1. DOMAIN queue = 1..Len(queue)
        BY DEF ReceiveTypes
      <4> QED BY <3>2, <4>1 DEF QueueInv, NotificationsPending
    <3>4. (stage # "running" => ~NotificationsPending)'
      BY <3>1, <3>2 DEF NotificationsPending
    <3>5. (\A i \in DOMAIN queue : queue[i].kind \in ScanResults =>
             scan.state = "done" /\ \A j \in DOMAIN queue : queue[j].kind \in ScanResults => i = j)'
      BY <3>1, <3>3 DEF ScanResults
    <3>6. (\A i \in DOMAIN queue : queue[i].kind = "deleted" /\ queue[i].tx \in Present =>
             \E j \in DOMAIN queue : i < j /\ queue[j] = Message("changed", queue[i].tx))'
      BY <3>1, <3>3
    <3> QED BY <3>1, <3>4, <3>5, <3>6 DEF QueueInv
  <2> QED BY <1>4, <2>1, <2>2, <2>3, <2>4, <2>5, <2>6, <2>7, <2>8, <2>9 DEF RequestOperations
<1>5. CASE Wallet
  BY <1>5, WalletQueue DEF Wallet
<1> QED BY <1>1, <1>2, <1>3, <1>4, <1>5 DEF ReceiveNext

----------------------------------------------------------------------------
(* Every payment is locked, or something on its way will lock it *)

LEMMA AnnouncedHandled ==
  ASSUME ReceiveTypes, NEW kind, Handle(kind)
  PROVE  /\ \A t \in Txs : Announced(t) /\ Head(queue) # Message("changed", t) => Announced(t)'
         /\ ScanThrew /\ kind # "scan failed" => ScanThrew'
<1>1. ASSUME NEW t \in Txs, Announced(t), Head(queue) # Message("changed", t) PROVE Announced(t)'
  <2>1. PICK i \in DOMAIN queue : queue[i] = Message("changed", t)
    BY <1>1 DEF Announced
  <2>2. Head(queue) = queue[1]
    BY HandleOK
  <2>3. i # 1
    BY <1>1, <2>1, <2>2
  <2>4. i - 1 \in DOMAIN queue' /\ queue'[i - 1] = queue[i]
    BY <2>3, HandleOK
  <2> QED BY <2>1, <2>4 DEF Announced
<1>2. ASSUME ScanThrew, kind # "scan failed" PROVE ScanThrew'
  <2>1. PICK i \in DOMAIN queue : queue[i].kind = "scan failed"
    BY <1>2 DEF ScanThrew
  <2>2. queue[1].kind = kind
    BY HandleOK
  <2>3. i # 1
    BY <1>2, <2>1, <2>2
  <2>4. i - 1 \in DOMAIN queue' /\ queue'[i - 1] = queue[i]
    BY <2>3, HandleOK
  <2> QED BY <2>1, <2>4 DEF ScanThrew
<1> QED BY <1>1, <1>2

LEMMA AnnouncedAppended ==
  ASSUME ReceiveTypes, NEW e \in Notification \cup Outcome, queue' = Append(queue, e)
  PROVE  /\ \A t \in Txs : Announced(t) \/ e = Message("changed", t) => Announced(t)'
         /\ ScanThrew \/ e.kind = "scan failed" => ScanThrew'
<1>1. /\ Len(queue)+1 \in DOMAIN queue' /\ queue'[Len(queue)+1] = e
      /\ \A i \in DOMAIN queue : i \in DOMAIN queue' /\ queue'[i] = queue[i]
  BY AppendOK
<1> QED BY <1>1 DEF Announced, ScanThrew

\* A step that keeps every reason.
LEMMA LockKept ==
  ASSUME ReceiveTypes, LockInvariant, status' = status, missed \subseteq missed',
         stage' # "stopped" /\ ~failed' => stage # "stopped" /\ ~failed,
         \A r \in Ids : /\ requests'[r] = NoRequest <=> requests[r] = NoRequest
                        /\ requests'[r].address = requests[r].address
                        /\ requests[r].paid => requests'[r].paid,
         \A t \in Txs : Announced(t) => Announced(t)',
         \A t \in Txs : \A r \in Ids : Scanned(t, requests[r].address) => Scanned(t, requests[r].address)',
         ReconciliationPending' => ReconciliationPending /\ (scan.requested => scan'.requested)
                                   /\ scan'.addresses = scan.addresses
  PROVE  LockInvariant'
<1>1. Saved' = Saved /\ RequestAddresses' = RequestAddresses /\ Present' = Present
  BY DEF Saved, RequestAddresses, Present
<1>2. (ReconciliationPending => scan.requested \/ RequestAddresses \subseteq scan.addresses)'
  BY <1>1 DEF LockInvariant
<1>3. ASSUME stage' # "stopped", ~failed', NEW r \in Saved', NEW t \in Paying(r)' PROVE Accounted(r, t)'
  <2>1. r \in Saved /\ r \in Ids /\ t \in Txs /\ t \in Paying(r)
    BY <1>1, <1>3 DEF Saved, Paying, Present
  <2>2. Accounted(r, t)
    BY <1>3, <2>1 DEF LockInvariant
  <2> QED BY <2>1, <2>2 DEF Accounted
<1> QED BY <1>2, <1>3 DEF LockInvariant

LEMMA WorkerLock ==
  ASSUME ReceiveTypes, QueueInv, LockInvariant, Worker \/ Throws
  PROVE  LockInvariant'
<1>0. scan \in Scans
  BY DEF ReceiveTypes
<1>1. CASE ScanStart
  <2>1. /\ scan' = [scan EXCEPT !.state = "reading", !.todo = Present] /\ status' = status
        /\ requests' = requests /\ scan.state = "queued"
    BY <1>1 DEF ScanStart
  <2>2. /\ scan'.state = "reading" /\ scan'.todo = Present' /\ scan'.requested = scan.requested
        /\ scan'.addresses = scan.addresses /\ RequestAddresses' = RequestAddresses
    BY <1>0, <2>1 DEF Scans, Present, RequestAddresses, Saved
  <2>3. (ReconciliationPending => scan.requested \/ RequestAddresses \subseteq scan.addresses)'
    BY <2>1, <2>2 DEF LockInvariant, ReconciliationPending
  <2>4. ASSUME NEW r \in Saved', NEW t \in Paying(r)' PROVE Accounted(r, t)'
    <3>1. t \in scan'.todo
      BY <2>2, <2>4 DEF Paying
    <3> QED BY <2>2, <3>1 DEF Accounted, Scanned, ScanWillRead, ReconciliationPending
  <2> QED BY <2>3, <2>4 DEF LockInvariant
<1>2. CASE ScanEnd
  <2>1. /\ scan' = [scan EXCEPT !.state = "done"] /\ scan.state = "reading" /\ scan.todo = {}
        /\ queue' = Append(queue, Message("scan", "none"))
        /\ UNCHANGED <<status, stage, requests, missed, failed>>
    BY <1>2 DEF ScanEnd, Post, history
  <2>2. /\ \A t \in Txs : Announced(t) => Announced(t)'
        /\ ScanThrew => ScanThrew'
    BY <2>1, AnnouncedAppended, PostEvents
  <2>3. /\ scan'.state = "done" /\ scan'.requested = scan.requested /\ scan'.addresses = scan.addresses
        /\ scan'.observed = scan.observed /\ scan'.updates = scan.updates
    BY <1>0, <2>1 DEF Scans
  <2>4. \A t \in Txs : \A r \in Ids : Scanned(t, requests[r].address) => Scanned(t, requests[r].address)'
    BY <2>1, <2>2, <2>3 DEF Scanned, ScanWillRead, ReconciliationPending
  <2>5. ReconciliationPending
    BY <2>1 DEF ReconciliationPending
  <2> QED BY <2>1, <2>2, <2>3, <2>4, <2>5, LockKept
<1>3. CASE PollEnd
  <2>1. /\ scan' = scan /\ queue' = Append(queue, Message("poll", "none"))
        /\ UNCHANGED <<status, stage, requests, missed, failed>>
    BY <1>3 DEF PollEnd, Post, history
  <2>2. /\ \A t \in Txs : Announced(t) => Announced(t)'
        /\ ScanThrew => ScanThrew'
    BY <2>1, AnnouncedAppended, PostEvents
  <2>4. \A t \in Txs : \A r \in Ids : Scanned(t, requests[r].address) => Scanned(t, requests[r].address)'
    BY <2>1, <2>2 DEF Scanned, ScanWillRead, ReconciliationPending
  <2>5. ReconciliationPending' => ReconciliationPending
    BY <2>1 DEF ReconciliationPending
  <2> QED BY <2>1, <2>2, <2>4, <2>5, LockKept
<1>4. ASSUME NEW u \in Txs, ScanRead(u) PROVE LockInvariant'
  <2>1. /\ scan.state = "reading" /\ scan'.state = "reading"
        /\ scan'.requested = scan.requested /\ scan'.addresses = scan.addresses /\ scan'.updates = scan.updates
        /\ scan'.todo = scan.todo \ {u} /\ scan'.observed = scan.observed \cup Observed(u, scan.addresses)
    BY <1>0, <1>4 DEF ScanRead, Scans
  <2>2. UNCHANGED <<status, stage, requests, missed, failed, queue>>
    BY <1>4 DEF ScanRead, history
  <2>3. Saved' = Saved /\ RequestAddresses' = RequestAddresses /\ Present' = Present
    BY <2>2 DEF Saved, RequestAddresses, Present
  <2>4. (ReconciliationPending => scan.requested \/ RequestAddresses \subseteq scan.addresses)'
    BY <2>1, <2>3 DEF LockInvariant, ReconciliationPending
  <2>5. ASSUME stage' # "stopped", ~failed', NEW r \in Saved', NEW t \in Paying(r)' PROVE Accounted(r, t)'
    <3>1. r \in Saved /\ t \in Paying(r) /\ requests'[r] = requests[r] /\ requests[r].address \in PaidBy(t)
      BY <2>2, <2>3, <2>5 DEF Paying
    <3>2. Accounted(r, t)
      BY <2>2, <2>5, <3>1 DEF LockInvariant
    <3>3. scan.requested \/ requests[r].address \in scan.addresses
      BY <2>1, <3>1 DEF LockInvariant, ReconciliationPending, RequestAddresses
    <3>4. Announced(t)' = Announced(t) /\ ScanThrew' = ScanThrew
      BY <2>2 DEF Announced, ScanThrew
    <3>5. CASE ~Scanned(t, requests[r].address)
      BY <2>2, <3>1, <3>2, <3>4, <3>5 DEF Accounted
    <3>6. CASE t = u /\ ~scan.requested
      <4>1. requests[r].address \in scan'.observed
        BY <2>1, <3>1, <3>3, <3>6 DEF Observed
      <4> QED BY <2>1, <3>1, <4>1 DEF Accounted, Scanned, ReconciliationPending
    <3>7. CASE scan.requested
      BY <2>1, <3>7 DEF Accounted, Scanned, ReconciliationPending
    <3>8. CASE Scanned(t, requests[r].address) /\ t # u
      <4>1. Scanned(t, requests[r].address)'
        BY <2>1, <3>1, <3>4, <3>8 DEF Scanned, ScanWillRead, ReconciliationPending
      <4> QED BY <4>1 DEF Accounted
    <3> QED BY <3>5, <3>6, <3>7, <3>8
  <2> QED BY <2>4, <2>5 DEF LockInvariant
<1>5. ASSUME NEW t \in Txs, PollRead(t) PROVE LockInvariant'
  <2>1. UNCHANGED <<status, stage, requests, missed, failed, queue, scan>>
    BY <1>5 DEF PollRead, history
  <2>2. \A u \in Txs : Announced(u) => Announced(u)'
    BY <2>1 DEF Announced
  <2>3. \A u \in Txs : \A r \in Ids : Scanned(u, requests[r].address) => Scanned(u, requests[r].address)'
    BY <2>1 DEF Scanned, ScanWillRead, ReconciliationPending, ScanThrew
  <2>4. ReconciliationPending' => ReconciliationPending
    BY <2>1 DEF ReconciliationPending
  <2> QED BY <2>1, <2>2, <2>3, <2>4, LockKept
<1>6. CASE ScanThrows
  <2>1. /\ scan' = [scan EXCEPT !.state = "done"] /\ scan.state \in {"queued", "reading"}
        /\ queue' = Append(queue, Message("scan failed", "none"))
        /\ UNCHANGED <<status, stage, requests, missed, failed>>
    BY <1>6 DEF ScanThrows, Post
  <2>2. /\ \A t \in Txs : Announced(t) => Announced(t)'
        /\ ScanThrew'
    <3> DEFINE e == Message("scan failed", "none")
    <3>1. e \in Notification \cup Outcome /\ e.kind = "scan failed"
      BY PostEvents DEF Message
    <3>2. queue' = Append(queue, e)
      BY <2>1
    <3> HIDE DEF e
    <3> QED BY <3>1, <3>2, AnnouncedAppended
  <2>3. scan'.state = "done" /\ scan'.requested = scan.requested /\ scan'.addresses = scan.addresses
    BY <1>0, <2>1 DEF Scans
  <2>4. \A t \in Txs : \A r \in Ids : Scanned(t, requests[r].address) => Scanned(t, requests[r].address)'
    BY <2>2, <2>3 DEF Scanned, ReconciliationPending
  <2>5. ReconciliationPending
    BY <2>1 DEF ReconciliationPending
  <2> QED BY <2>1, <2>2, <2>3, <2>4, <2>5, LockKept
<1>7. CASE PollThrows
  <2>1. /\ scan' = scan /\ queue' = Append(queue, Message("poll failed", "none"))
        /\ UNCHANGED <<status, stage, requests, missed, failed>>
    BY <1>7 DEF PollThrows, Post
  <2>2. /\ \A t \in Txs : Announced(t) => Announced(t)'
        /\ ScanThrew => ScanThrew'
    BY <2>1, AnnouncedAppended, PostEvents
  <2>4. \A t \in Txs : \A r \in Ids : Scanned(t, requests[r].address) => Scanned(t, requests[r].address)'
    BY <2>1, <2>2 DEF Scanned, ScanWillRead, ReconciliationPending
  <2>5. ReconciliationPending' => ReconciliationPending
    BY <2>1 DEF ReconciliationPending
  <2> QED BY <2>1, <2>2, <2>4, <2>5, LockKept
<1> QED BY <1>1, <1>2, <1>3, <1>4, <1>5, <1>6, <1>7 DEF Worker, Throws

\* A notification of t0 is handled: locks are kept, and what it does not lock
\* has its reason still.
LEMMA NotifiedLock ==
  ASSUME ReceiveTypes, QueueInv, LockInvariant, NEW t0 \in Txs, NEW what \in {"changed", "deleted"},
         Handle(what), Head(queue) = Message(what, t0), status' = status, stage' = stage, failed' = failed,
         missed' = missed \ {t0},
         scan' = IF ReconciliationPending THEN [scan EXCEPT !.updates[t0] = what] ELSE scan,
         \A r \in Ids : /\ requests'[r] = NoRequest <=> requests[r] = NoRequest
                        /\ requests'[r].address = requests[r].address
                        /\ requests[r].paid => requests'[r].paid,
         what = "changed" /\ t0 \in Present =>
           \A r \in Saved : requests[r].address \in PaidBy(t0) => requests'[r].paid
  PROVE  LockInvariant'
<1>0. scan \in Scans
  BY DEF ReceiveTypes
<1>1. Saved' = Saved /\ RequestAddresses' = RequestAddresses /\ Present' = Present
  BY DEF Saved, RequestAddresses, Present
<1>2. /\ scan'.state = scan.state /\ scan'.requested = scan.requested /\ scan'.addresses = scan.addresses
      /\ scan'.todo = scan.todo /\ scan'.observed = scan.observed
      /\ \A t \in Txs : t # t0 => scan'.updates[t] = scan.updates[t]
  BY <1>0 DEF Scans
<1>3. (ReconciliationPending => scan.requested \/ RequestAddresses \subseteq scan.addresses)'
  BY <1>1, <1>2 DEF LockInvariant, ReconciliationPending
<1>4. ASSUME stage' # "stopped", ~failed', NEW r \in Saved', NEW t \in Paying(r)' PROVE Accounted(r, t)'
  <2>1. r \in Saved /\ r \in Ids /\ t \in Txs /\ t \in Present /\ requests[r].address \in PaidBy(t)
    BY <1>1, <1>4 DEF Saved, Paying, Present
  <2>2. Accounted(r, t)
    <3>1. t \in Paying(r)
      BY <2>1 DEF Paying
    <3> QED BY <1>4, <2>1, <3>1 DEF LockInvariant
  <2>3. CASE t = t0 /\ what = "changed"
    BY <2>1, <2>3 DEF Accounted
  <2>4. CASE t = t0 /\ what = "deleted"
    <3>1. 1 \in DOMAIN queue /\ queue[1].kind = "deleted" /\ queue[1].tx = t
      BY <2>4, HandleOK DEF Message
    <3>2. PICK j \in DOMAIN queue : 1 < j /\ queue[j] = Message("changed", t)
      BY <2>1, <3>1 DEF QueueInv
    <3>3. Announced(t)
      BY <3>2 DEF Announced
    <3>4. Head(queue) # Message("changed", t)
      BY <2>4 DEF Message
    <3>5. Announced(t)'
      BY <2>1, <3>3, <3>4, AnnouncedHandled
    <3> QED BY <3>5 DEF Accounted
  <2>5. CASE t # t0
    <3>1. Head(queue) # Message("changed", t)
      BY <2>5 DEF Message
    <3>2. (Announced(t) => Announced(t)') /\ (ScanThrew => ScanThrew')
      BY <2>1, <3>1, AnnouncedHandled
    <3>3. Scanned(t, requests[r].address) => Scanned(t, requests[r].address)'
      BY <1>2, <2>1, <2>5, <3>2 DEF Scanned, ScanWillRead, ReconciliationPending
    <3> QED BY <2>1, <2>2, <2>5, <3>2, <3>3 DEF Accounted
  <2> QED BY <2>3, <2>4, <2>5
<1> QED BY <1>3, <1>4 DEF LockInvariant

\* A scan that starts anew will read every transaction for every request.
LEMMA AnewLock ==
  ASSUME NEW s \in Scans, NEW rs \in [Ids -> Requested \cup {NoRequest}], requests' = rs,
         scan' = Refresh(s, rs), s.state = "idle"
  PROVE  LockInvariant'
<1> DEFINE saved == {r \in Ids : rs[r] # NoRequest}
           found == {rs[r].address : r \in saved}
<1>1. saved = Saved' /\ found = RequestAddresses'
  BY DEF Saved, RequestAddresses
<1>2. CASE saved = {}
  <2>1. scan' = s
    BY <1>2, RefreshType
  <2> QED BY <1>1, <1>2, <2>1 DEF LockInvariant, ReconciliationPending
<1>3. CASE saved # {}
  <2>1. scan' = [s EXCEPT !.state = "queued", !.addresses = found]
    <3>1. \E r \in Ids : rs[r] # NoRequest
      BY <1>3
    <3>2. Refresh(s, rs) = [s EXCEPT !.state = "queued",
             !.addresses = {rs[r].address : r \in {r \in Ids : rs[r] # NoRequest}}]
      BY <3>1, RefreshType, Zenon
    <3> QED BY <3>2
  <2> HIDE DEF saved, found
  <2>2. scan'.state = "queued" /\ scan'.addresses = found
    BY <2>1 DEF Scans
  <2> QED BY <1>1, <2>2 DEF LockInvariant, ReconciliationPending, Accounted, Scanned, ScanWillRead
<1> QED BY <1>2, <1>3

LEMMA GuiLock ==
  ASSUME ReceiveTypes, QueueInv, LockInvariant, Gui \/ PollTimeout
  PROVE  LockInvariant'
<1>0. scan \in Scans /\ requests \in [Ids -> Requested \cup {NoRequest}]
  BY DEF ReceiveTypes
<1>1. CASE SubscribeToWalletSignals \/ PollTimeout
  <2>1. UNCHANGED <<status, requests, missed, failed, queue, scan>> /\ stage # "stopped"
    BY <1>1 DEF SubscribeToWalletSignals, PollTimeout, history
  <2>2. \A u \in Txs : Announced(u) => Announced(u)'
    BY <2>1 DEF Announced
  <2>3. \A u \in Txs : \A r \in Ids : Scanned(u, requests[r].address) => Scanned(u, requests[r].address)'
    BY <2>1 DEF Scanned, ScanWillRead, ReconciliationPending, ScanThrew
  <2>4. ReconciliationPending' => ReconciliationPending
    BY <2>1 DEF ReconciliationPending
  <2> QED BY <2>1, <2>2, <2>3, <2>4, LockKept
<1>2. CASE TransactionChanged
  <2> DEFINE t0 == Head(queue).tx
  <2>1. /\ Handle("changed") /\ status' = status /\ stage' = stage /\ failed' = failed /\ missed' = missed \ {t0}
        /\ scan' = IF ReconciliationPending THEN [scan EXCEPT !.updates[t0] = "changed"] ELSE scan
        /\ IF t0 \in Present THEN Mark(PaidBy(t0)) ELSE requests' = requests
    BY <1>2 DEF TransactionChanged
  <2>2. t0 \in Txs /\ Head(queue) = Message("changed", t0)
    BY <2>1, HandleOK
  <2> HIDE DEF t0
  <2>3. /\ \A r \in Ids : /\ requests'[r] = NoRequest <=> requests[r] = NoRequest
                          /\ requests'[r].address = requests[r].address
                          /\ requests[r].paid => requests'[r].paid
        /\ t0 \in Present => \A r \in Saved : requests[r].address \in PaidBy(t0) => requests'[r].paid
    <3>1. CASE t0 \in Present
      BY <2>1, <3>1, MarkOK
    <3>2. CASE t0 \notin Present
      BY <2>1, <3>2
    <3> QED BY <3>1, <3>2
  <2> QED BY <2>1, <2>2, <2>3, NotifiedLock
<1>3. CASE TransactionDeleted
  <2> DEFINE t0 == Head(queue).tx
  <2>1. /\ Handle("deleted") /\ status' = status /\ stage' = stage /\ failed' = failed /\ missed' = missed \ {t0}
        /\ scan' = IF ReconciliationPending THEN [scan EXCEPT !.updates[t0] = "deleted"] ELSE scan
        /\ requests' = requests
    BY <1>3 DEF TransactionDeleted
  <2>2. t0 \in Txs /\ Head(queue) = Message("deleted", t0)
    BY <2>1, HandleOK
  <2> HIDE DEF t0
  <2> QED BY <2>1, <2>2, NotifiedLock
<1>4. CASE ApplyScan
  <2> DEFINE replayed == {t \in Present : scan.updates[t] = "changed"}
             locked == scan.observed \cup UNION {PaidBy(t) : t \in replayed}
  <2>1. /\ Handle("scan") /\ ~scan.requested /\ scan' = IdleScan /\ Mark(locked)
        /\ UNCHANGED <<status, stage, missed, failed>>
    BY <1>4 DEF ApplyScan, history
  <2>2. /\ 1 \in DOMAIN queue /\ queue[1].kind = "scan" /\ Head(queue).kind = "scan"
        /\ scan.state = "done"
    BY <2>1, HandleOK DEF QueueInv, ScanResults
  <2>3. ~ScanThrew
    BY <2>2 DEF QueueInv, ScanResults, ScanThrew
  <2>4. ~ReconciliationPending'
    BY <2>1 DEF ReconciliationPending, IdleScan
  <2>5. ASSUME stage' # "stopped", ~failed', NEW r \in Saved', NEW t \in Paying(r)' PROVE Accounted(r, t)'
    <3>1. /\ \A x \in Ids : /\ requests'[x] = NoRequest <=> requests[x] = NoRequest
                            /\ requests'[x].address = requests[x].address
                            /\ requests[x].paid => requests'[x].paid
          /\ \A x \in Saved : requests[x].address \in locked => requests'[x].paid
      BY <2>1, MarkOK
    <3>2. r \in Saved /\ r \in Ids /\ t \in Txs /\ t \in Present /\ requests[r].address \in PaidBy(t)
      BY <2>1, <2>5, <3>1 DEF Saved, Paying, Present
    <3>3. Accounted(r, t)
      <4>1. t \in Paying(r)
        BY <3>2 DEF Paying
      <4> QED BY <2>1, <2>5, <3>2, <4>1 DEF LockInvariant
    <3>4. Announced(t) => Announced(t)'
      <4>1. Head(queue) # Message("changed", t)
        BY <2>2 DEF Message
      <4> QED BY <2>1, <3>2, <4>1, AnnouncedHandled
    <3>5. Scanned(t, requests[r].address) => requests[r].address \in locked
      BY <2>1, <2>2, <2>3, <3>2 DEF Scanned, ScanWillRead
    <3> QED BY <2>1, <3>1, <3>2, <3>3, <3>4, <3>5 DEF Accounted
  <2> QED BY <2>4, <2>5 DEF LockInvariant
<1>5. CASE RepeatScan
  <2>1. scan' = Refresh(IdleScan, requests) /\ requests' = requests
    BY <1>5 DEF RepeatScan
  <2>2. IdleScan \in Scans /\ IdleScan.state = "idle"
    BY IdleTypes DEF IdleScan
  <2> QED BY <1>0, <2>1, <2>2, AnewLock
<1>6. CASE ScanFailed
  <2>1. failed' /\ scan'.state = "idle"
    BY <1>6 DEF ScanFailed, Finished, IdleScan
  <2> QED BY <2>1 DEF LockInvariant, ReconciliationPending
<1>7. CASE PollDone \/ PollFailed
  <2>1. /\ Handle("poll") \/ Handle("poll failed")
        /\ UNCHANGED <<status, stage, requests, missed, failed, scan>>
    BY <1>7 DEF PollDone, PollFailed, history
  <2>2. (\A t \in Txs : Announced(t) => Announced(t)') /\ (ScanThrew => ScanThrew')
    <3>1. PICK kind \in {"poll", "poll failed"} : Handle(kind)
      BY <2>1
    <3>2. Head(queue).kind = kind
      BY <3>1 DEF Handle
    <3>3. ASSUME NEW t \in Txs PROVE Head(queue) # Message("changed", t)
      <4>1. Message("changed", t).kind = "changed"
        BY DEF Message
      <4>2. Head(queue).kind # "changed"
        BY <3>2
      <4> QED BY <4>1, <4>2
    <3> QED BY <3>1, <3>3, AnnouncedHandled
  <2>3. \A u \in Txs : \A r \in Ids : Scanned(u, requests[r].address) => Scanned(u, requests[r].address)'
    BY <2>1, <2>2 DEF Scanned, ScanWillRead, ReconciliationPending
  <2>4. ReconciliationPending' => ReconciliationPending
    BY <2>1 DEF ReconciliationPending
  <2> QED BY <2>1, <2>2, <2>3, <2>4, LockKept
<1> QED BY <1>1, <1>2, <1>3, <1>4, <1>5, <1>6, <1>7 DEF Gui

\* Fewer requests, and a scan that must start again.
LEMMA PendingLock ==
  ASSUME ReceiveTypes, NEW rs \in [Ids -> Requested \cup {NoRequest}], requests' = rs,
         scan' = Refresh(scan, rs), ReconciliationPending
  PROVE  LockInvariant'
<1>1. scan \in Scans /\ scan.state # "idle"
  BY DEF ReceiveTypes, ReconciliationPending
<1>2. scan' = [scan EXCEPT !.requested = TRUE]
  BY <1>1, RefreshType
<1>3. scan'.requested /\ scan'.state # "idle"
  BY <1>1, <1>2 DEF Scans
<1> QED BY <1>3 DEF LockInvariant, Accounted, Scanned, ReconciliationPending

LEMMA UserLock ==
  ASSUME ReceiveTypes, QueueInv, LockInvariant, RequestOperations
  PROVE  LockInvariant'
<1>0. /\ scan \in Scans /\ requests \in [Ids -> Requested \cup {NoRequest}]
      /\ stored \in [Ids -> Requested \cup {NoRequest}]
  BY DEF ReceiveTypes
<1>1. ASSUME UNCHANGED <<status, stage, failed, queue, scan>>,
             missed \subseteq missed',
             \A r \in Ids : /\ requests'[r] = NoRequest <=> requests[r] = NoRequest
                            /\ requests'[r].address = requests[r].address
                            /\ requests[r].paid => requests'[r].paid
      PROVE  LockInvariant'
  <2>2. \A u \in Txs : Announced(u) => Announced(u)'
    BY <1>1 DEF Announced
  <2>3. \A u \in Txs : \A r \in Ids : Scanned(u, requests[r].address) => Scanned(u, requests[r].address)'
    BY <1>1 DEF Scanned, ScanWillRead, ReconciliationPending, ScanThrew
  <2>4. ReconciliationPending' => ReconciliationPending
    BY <1>1 DEF ReconciliationPending
  <2> QED BY <1>1, <2>2, <2>3, <2>4, LockKept
<1>2. ASSUME UNCHANGED <<status, scan>>, Mark(AllPaid)
      PROVE  LockInvariant'
  <2>1. /\ \A x \in Ids : /\ requests'[x] = NoRequest <=> requests[x] = NoRequest
                          /\ requests'[x].address = requests[x].address
        /\ \A x \in Saved : requests[x].address \in AllPaid => requests'[x].paid
    BY <1>2, MarkOK
  <2>2. Saved' = Saved /\ RequestAddresses' = RequestAddresses /\ Present' = Present
    BY <1>2, <2>1 DEF Saved, RequestAddresses, Present
  <2>3. (ReconciliationPending => scan.requested \/ RequestAddresses \subseteq scan.addresses)'
    BY <1>2, <2>2 DEF LockInvariant, ReconciliationPending
  <2>4. ASSUME NEW r \in Saved', NEW t \in Paying(r)' PROVE Accounted(r, t)'
    <3>1. r \in Saved /\ requests[r].address \in AllPaid
      BY <2>1, <2>2, <2>4 DEF Saved, Paying, AllPaid
    <3> QED BY <2>1, <3>1 DEF Accounted
  <2> QED BY <2>3, <2>4 DEF LockInvariant
<1>3. ASSUME NEW renew \in BOOLEAN, EnsureReceivingAddress(renew) PROVE LockInvariant'
  <2>1. UNCHANGED <<status, stage, failed, queue, scan>>
    BY <1>3 DEF EnsureReceivingAddress
  <2>2. Mark(AllPaid) \/ (requests' = requests /\ missed' = missed)
    BY <1>3 DEF EnsureReceivingAddress
  <2> QED BY <1>1, <1>2, <2>1, <2>2
<1>4. ASSUME NEW a \in Addresses, ChooseAddress(a) PROVE LockInvariant'
  BY <1>1, <1>4 DEF ChooseAddress
<1>5. ASSUME CommitRequest PROVE LockInvariant'
  <2> DEFINE new == [address |-> receiving.address, terms |-> "some", paid |-> FALSE]
             locked == Locked(requests, Unlocked(AllPaid))
  <2>1. UNCHANGED <<status, stage, failed, queue>>
    BY <1>5 DEF CommitRequest
  <2>2. CASE Mark(AllPaid) /\ UNCHANGED scan
    BY <1>2, <2>1, <2>2
  <2>3. CASE /\ receiving.address # NoAddress /\ receiving.address \notin AllPaid /\ NextId \in Ids
             /\ requests' = [locked EXCEPT ![NextId] = new]
             /\ scan' = [scan EXCEPT !.requested = @ \/ ReconciliationPending]
    <3>1. /\ scan'.state = scan.state
          /\ scan'.requested = (scan.requested \/ ReconciliationPending)
      BY <1>0, <2>3 DEF Scans, ReconciliationPending
    <3>2. (ReconciliationPending => scan.requested)'
      BY <3>1 DEF ReconciliationPending
    <3>3. ASSUME NEW r \in Saved', NEW t \in Paying(r)' PROVE Accounted(r, t)'
      <4>0. r \in Ids /\ t \in Present /\ requests'[r].address \in PaidBy(t) /\ requests'[r] # NoRequest
        BY <2>1, <3>3 DEF Saved, Paying, Present
      <4>1. r # NextId
        <5> SUFFICES ASSUME r = NextId PROVE FALSE
          OBVIOUS
        <5>1. requests'[r] = new
          BY <2>3 DEF Locked
        <5>2. receiving.address \in PaidBy(t)
          BY <4>0, <5>1
        <5> QED BY <2>3, <4>0, <5>2 DEF AllPaid
      <4>2. requests'[r] = locked[r]
        BY <2>3, <4>0, <4>1 DEF Locked
      <4>3. locked[r] = IF r \in Unlocked(AllPaid) THEN [requests[r] EXCEPT !.paid = TRUE] ELSE requests[r]
        BY <4>0 DEF Locked
      <4>4. CASE r \in Unlocked(AllPaid)
        <5>1. requests[r] \in Requested
          BY <1>0, <4>4 DEF Unlocked, Saved
        <5>2. locked[r].paid
          BY <4>3, <4>4, <5>1 DEF Requested
        <5> QED BY <4>2, <5>2 DEF Accounted
      <4>5. CASE r \notin Unlocked(AllPaid)
        <5>1. requests'[r] = requests[r]
          BY <4>2, <4>3, <4>5
        <5>2. r \in Saved /\ requests[r].address \in AllPaid
          BY <4>0, <5>1 DEF Saved, AllPaid
        <5>3. requests[r].paid
          BY <4>5, <5>2 DEF Unlocked
        <5> QED BY <5>1, <5>3 DEF Accounted
      <4> QED BY <4>4, <4>5
    <3> QED BY <3>2, <3>3 DEF LockInvariant
  <2> QED BY <1>5, <2>2, <2>3 DEF CommitRequest
<1>6. ASSUME NEW r \in Ids, RemoveRequest(r) PROVE LockInvariant'
  <2> DEFINE rest == [requests EXCEPT ![r] = NoRequest]
  <2>1. /\ rest \in [Ids -> Requested \cup {NoRequest}] /\ requests' = rest /\ scan' = Refresh(scan, rest)
        /\ UNCHANGED <<status, stage, failed, queue, missed>>
    BY <1>0, <1>6 DEF RemoveRequest
  <2> HIDE DEF rest
  <2>2. CASE ReconciliationPending
    BY <1>0, <2>1, <2>2, PendingLock
  <2>3. CASE ~ReconciliationPending
    BY <1>0, <2>1, <2>3, AnewLock DEF ReconciliationPending
  <2> QED BY <2>2, <2>3
<1>7. ASSUME NEW r \in Ids, UseAsTemplate(r) PROVE LockInvariant'
  BY <1>1, <1>7 DEF UseAsTemplate
<1>8. ASSUME NEW r \in Ids, NEW terms \in Terms, UpdateRequest(r, terms) PROVE LockInvariant'
  <2>1. /\ requests' = [requests EXCEPT ![r] = [requests[r] EXCEPT !.terms = terms]]
        /\ UNCHANGED <<status, stage, failed, queue, scan, missed>> /\ requests[r] \in Requested
    BY <1>0, <1>8 DEF UpdateRequest, Saved
  <2>2. /\ [requests[r] EXCEPT !.terms = terms] \in Requested
        /\ [requests[r] EXCEPT !.terms = terms].address = requests[r].address
        /\ [requests[r] EXCEPT !.terms = terms].paid = requests[r].paid
    BY <2>1 DEF Requested
  <2>3. \A x \in Ids : /\ requests'[x] = NoRequest <=> requests[x] = NoRequest
                       /\ requests'[x].address = requests[x].address
                       /\ requests[x].paid => requests'[x].paid
    BY <1>0, <2>1, <2>2, NoRequestIsNone
  <2> QED BY <1>1, <2>1, <2>3
<1>9. CASE SyncNote
  <2>1. /\ requests' = requests /\ scan' = Refresh(scan, requests)
        /\ UNCHANGED <<status, stage, failed, queue, missed>>
    BY <1>9 DEF SyncNote
  <2>2. CASE ReconciliationPending
    BY <1>0, <2>1, <2>2, PendingLock
  <2>3. CASE ~ReconciliationPending
    BY <1>0, <2>1, <2>3, AnewLock DEF ReconciliationPending
  <2> QED BY <2>2, <2>3
<1>10. CASE BeginModelShutdown
  <2>1. stage' = "stopped" /\ scan'.state = "idle"
    BY <1>10 DEF BeginModelShutdown, IdleScan
  <2> QED BY <2>1 DEF LockInvariant, ReconciliationPending
<1>11. CASE Reopen
  <2>1. requests' = stored /\ scan' = Refresh(IdleScan, stored)
    BY <1>11 DEF Reopen
  <2>2. IdleScan \in Scans /\ IdleScan.state = "idle"
    BY IdleTypes DEF IdleScan
  <2> QED BY <1>0, <2>1, <2>2, AnewLock
<1> QED BY <1>3, <1>4, <1>5, <1>6, <1>7, <1>8, <1>9, <1>10, <1>11 DEF RequestOperations

LEMMA WalletLock ==
  ASSUME ReceiveTypes, QueueInv, LockInvariant,
         NEW t0 \in Txs, NEW s \in Statuses, NEW told \in BOOLEAN, WalletChanges(t0, s, told)
  PROVE  LockInvariant'
<1> DEFINE e == Message(IF s = "absent" THEN "deleted" ELSE "changed", t0)
<1>1. /\ stage' = stage /\ scan' = scan /\ requests' = requests /\ failed' = failed
      /\ status' = [status EXCEPT ![t0] = s]
      /\ told \/ (status[t0] = "mempool" /\ s = "inactive")
      /\ queue' = IF told /\ stage = "running" THEN Append(queue, e) ELSE queue
      /\ missed' = IF told /\ stage = "constructing" /\ ~ScanWillRead(t0) THEN missed \cup {t0} ELSE missed
  BY DEF WalletChanges
<1>2. e \in Notification \cup Outcome /\ (s # "absent" => e = Message("changed", t0))
  BY DEF Message, Notification
<1> HIDE DEF e
<1>3. /\ \A t \in Txs : Announced(t) => Announced(t)'
      /\ ScanThrew => ScanThrew'
      /\ told /\ stage = "running" /\ s # "absent" => Announced(t0)'
  <2>1. CASE told /\ stage = "running"
    BY <1>1, <1>2, <2>1, AnnouncedAppended
  <2>2. CASE ~(told /\ stage = "running")
    BY <1>1, <2>2 DEF Announced, ScanThrew
  <2> QED BY <2>1, <2>2
<1>4. Saved' = Saved /\ RequestAddresses' = RequestAddresses
  BY <1>1 DEF Saved, RequestAddresses
<1>5. (ReconciliationPending => scan.requested \/ RequestAddresses \subseteq scan.addresses)'
  BY <1>1, <1>4 DEF LockInvariant, ReconciliationPending
<1>6. ASSUME stage' # "stopped", ~failed', NEW r \in Saved', NEW t \in Paying(r)' PROVE Accounted(r, t)'
  <2>1. r \in Saved /\ r \in Ids /\ t \in Txs /\ t \in Present' /\ requests[r].address \in PaidBy(t)
    BY <1>1, <1>4, <1>6 DEF Saved, Paying, Present
  <2>2. CASE t \in Present
    <3>1. Accounted(r, t)
      <4>1. t \in Paying(r)
        BY <2>1, <2>2 DEF Paying
      <4> QED BY <1>1, <1>6, <2>1, <4>1 DEF LockInvariant
    <3>2. Scanned(t, requests[r].address) => Scanned(t, requests[r].address)'
      BY <1>1, <1>3 DEF Scanned, ScanWillRead, ReconciliationPending
    <3> QED BY <1>1, <1>3, <2>1, <3>1, <3>2 DEF Accounted
  <2>3. CASE t \notin Present
    <3>1. t = t0 /\ s # "absent" /\ told
      <4>1. status \in [Txs -> Statuses] /\ status[t] = "absent" /\ status'[t] # "absent"
        BY <2>1, <2>3 DEF Present, ReceiveTypes
      <4>2. t = t0
        <5>1. status' = [status EXCEPT ![t0] = s]
          BY DEF WalletChanges
        <5> QED BY <2>1, <4>1, <5>1
      <4> QED BY <1>1, <4>1, <4>2
    <3>2. CASE stage = "running"
      BY <1>3, <3>1, <3>2 DEF Accounted
    <3>3. CASE stage = "constructing" /\ ~ScanWillRead(t0)
      BY <1>1, <3>1, <3>3 DEF Accounted
    <3>4. CASE ScanWillRead(t0)
      BY <1>1, <3>1, <3>4 DEF Accounted, Scanned, ScanWillRead, ReconciliationPending
    <3>5. stage \in {"constructing", "running"}
      BY <1>1, <1>6 DEF ReceiveTypes
    <3> QED BY <3>2, <3>3, <3>4, <3>5
  <2> QED BY <2>2, <2>3
<1> QED BY <1>5, <1>6 DEF LockInvariant

LEMMA InitLock == ReceiveInit => QueueInv /\ LockInvariant
<1> SUFFICES ASSUME ReceiveInit PROVE QueueInv /\ LockInvariant
  OBVIOUS
<1>1. queue = <<>> /\ stage = "constructing" /\ scan = Refresh(IdleScan, requests)
  BY DEF ReceiveInit
<1>2. DOMAIN queue = {} /\ Len(queue) = 0
  BY <1>1
<1>3. QueueInv
  BY <1>1, <1>2 DEF QueueInv, NotificationsPending
<1>4. requests \in [Ids -> Requested \cup {NoRequest}] /\ 1 \in Ids /\ requests[1] # NoRequest
  <2>1. requests \in [Ids -> Requested \cup {NoRequest}]
    BY InitTypes DEF ReceiveTypes
  <2>2. requests = [r \in Ids |-> IF r = 1 THEN [address |-> InitialAddress, terms |-> "some", paid |-> FALSE]
                                  ELSE NoRequest]
    BY DEF ReceiveInit
  <2>3. 1 \in Ids
    BY BoundsAssumption
  <2>4. requests[1] # NoRequest
    BY <2>2, <2>3, PaysAssumption DEF NoRequest
  <2> QED BY <2>1, <2>3, <2>4
<1>5. scan = [IdleScan EXCEPT !.state = "queued",
                !.addresses = {requests[r].address : r \in {r \in Ids : requests[r] # NoRequest}}]
  <2>1. IdleScan \in Scans /\ IdleScan.state = "idle"
    BY IdleTypes DEF IdleScan
  <2>2. \E r \in Ids : requests[r] # NoRequest
    BY <1>4
  <2> QED BY <1>1, <1>4, <2>1, <2>2, RefreshType, Zenon
<1>6. scan.state = "queued" /\ scan.addresses = RequestAddresses
  BY <1>5 DEF IdleScan, RequestAddresses, Saved
<1>7. LockInvariant
  BY <1>6 DEF LockInvariant, ReconciliationPending, Accounted, Scanned, ScanWillRead
<1> QED BY <1>3, <1>7

LEMMA ReceiveInvariant == ReceiveSpec => []ReceiveInv
<1>1. ReceiveInit => ReceiveInv
  BY InitTypes, InitLock DEF ReceiveInv
<1>2. ReceiveInv /\ [ReceiveNext]_receiveVars => ReceiveInv'
  <2> SUFFICES ASSUME ReceiveInv, [ReceiveNext]_receiveVars PROVE ReceiveInv'
    OBVIOUS
  <2>1. CASE UNCHANGED receiveVars
    <3>1. LockInvariant'
      <4>1. UNCHANGED <<status, requests, missed, failed, queue, scan, stage>>
        BY <2>1 DEF receiveVars
      <4>2. \A u \in Txs : Announced(u) => Announced(u)'
        BY <4>1 DEF Announced
      <4>3. \A u \in Txs : \A r \in Ids : Scanned(u, requests[r].address) => Scanned(u, requests[r].address)'
        BY <4>1 DEF Scanned, ScanWillRead, ReconciliationPending, ScanThrew
      <4>4. ReconciliationPending' => ReconciliationPending
        BY <4>1 DEF ReconciliationPending
      <4> QED BY <4>1, <4>2, <4>3, <4>4, LockKept DEF ReceiveInv
    <3> QED BY <2>1, <3>1, TypesStep, QueueStep DEF ReceiveInv
  <2>2. CASE ReceiveNext
    <3>1. LockInvariant'
      BY <2>2, WorkerLock, GuiLock, UserLock, WalletLock DEF ReceiveInv, ReceiveNext, Wallet
    <3> QED BY <2>2, <3>1, TypesStep, QueueStep DEF ReceiveInv
  <2> QED BY <2>1, <2>2
<1> QED BY <1>1, <1>2, PTL DEF ReceiveSpec

LEMMA LockFollows == ReceiveInv => PaidRequestIsLocked
<1> SUFFICES ASSUME ReceiveInv, stage = "running", ~ReconciliationPending, ~NotificationsPending, ~failed,
                    NEW r \in Saved, NEW t \in Paying(r), t \notin missed
             PROVE  requests[r].paid
  BY DEF PaidRequestIsLocked
<1>1. Accounted(r, t)
  BY DEF ReceiveInv, LockInvariant
<1>2. ~Announced(t)
  <2>1. DOMAIN queue = 1..Len(queue)
    BY DEF ReceiveInv, ReceiveTypes
  <2> QED BY <2>1 DEF Announced, NotificationsPending, Message
<1> QED BY <1>1, <1>2 DEF Accounted, Scanned

\* What is edited is a request that the invariant allows to be edited.
LEMMA TermsStep ==
  ASSUME ReceiveInv, ReceiveNext \/ UNCHANGED receiveVars, stage' = stage,
         NEW r \in Saved, requests'[r] # NoRequest, requests'[r].terms # requests[r].terms
  PROVE  failed \/ Paying(r) \subseteq missed
<1>0. r \in Ids /\ requests[r] # NoRequest /\ requests \in [Ids -> Requested \cup {NoRequest}] /\ ReceiveTypes
  BY DEF Saved, ReceiveInv, ReceiveTypes
<1>1. \A A : Mark(A) => requests'[r].terms = requests[r].terms
  BY <1>0, MarkOK
<1>2. requests' # requests
  OBVIOUS
<1>3. CASE Worker \/ Throws \/ PollTimeout \/ Wallet \/ UNCHANGED receiveVars
  BY <1>2, <1>3 DEF Worker, Throws, Wallet, ScanStart, ScanEnd, PollEnd, ScanRead, PollRead, ScanThrows,
    PollThrows, PollTimeout, WalletChanges, receiveVars
<1>4. CASE Gui
  BY <1>1, <1>2, <1>4 DEF Gui, SubscribeToWalletSignals, TransactionChanged, TransactionDeleted, ApplyScan,
    RepeatScan, ScanFailed, PollDone, PollFailed
<1>5. CASE RequestOperations
  <2>1. ASSUME NEW renew \in BOOLEAN, EnsureReceivingAddress(renew) PROVE FALSE
    BY <1>1, <1>2, <2>1 DEF EnsureReceivingAddress
  <2>2. ASSUME CommitRequest PROVE FALSE
    <3> DEFINE new == [address |-> receiving.address, terms |-> "some", paid |-> FALSE]
               locked == Locked(requests, Unlocked(AllPaid))
    <3>1. NextId \in Ids /\ requests' = [locked EXCEPT ![NextId] = new]
      BY <1>1, <2>2 DEF CommitRequest
    <3>2. requests'[r] = locked[r]
      BY <1>0, <3>1, NextIdNew DEF Locked
    <3>3. locked[r] = IF r \in Unlocked(AllPaid) THEN [requests[r] EXCEPT !.paid = TRUE] ELSE requests[r]
      BY <1>0 DEF Locked
    <3>4. requests[r] \in Requested
      BY <1>0
    <3>5. [requests[r] EXCEPT !.paid = TRUE].terms = requests[r].terms
      BY <3>4 DEF Requested
    <3> QED BY <3>2, <3>3, <3>5
  <2>3. ASSUME NEW x \in Ids, RemoveRequest(x) PROVE FALSE
    BY <1>0, <2>3 DEF RemoveRequest
  <2>4. ASSUME NEW x \in Ids, NEW terms \in Terms, UpdateRequest(x, terms)
        PROVE  failed \/ Paying(r) \subseteq missed
    <3>1. /\ requests' = [requests EXCEPT ![x] = [requests[x] EXCEPT !.terms = terms]]
          /\ stage = "running" /\ Editable /\ (~requests[x].paid \/ terms = requests[x].terms)
      BY <2>4 DEF UpdateRequest
    <3>2. x = r
      BY <1>0, <3>1
    <3>3. requests'[r].terms = terms
      <4>1. requests[r] \in Requested
        BY <1>0
      <4>2. [requests[r] EXCEPT !.terms = terms].terms = terms
        BY <4>1 DEF Requested
      <4> QED BY <1>0, <3>1, <3>2, <4>2
    <3>4. ~requests[r].paid
      BY <3>1, <3>2, <3>3
    <3> QED BY <3>1, <3>4, LockFollows DEF PaidRequestIsLocked, Editable
  <2> QED
    BY <1>2, <1>5, <2>1, <2>2, <2>3, <2>4 DEF RequestOperations, ChooseAddress, UseAsTemplate, SyncNote, BeginModelShutdown, Reopen
<1> QED BY <1>3, <1>4, <1>5 DEF ReceiveNext

----------------------------------------------------------------------------
(* Folds over finite sets *)

\* A minimal member stands for induction over the subsets of a finite set.
LEMMA MinimalSubset ==
  ASSUME NEW X, IsFiniteSet(X), NEW Bad \in SUBSET SUBSET X, Bad # {}
  PROVE  \E m \in Bad : \A s \in Bad : s \subseteq m => s = m
<1>1. IsWellFoundedOn(StrictSubsetOrdering(X), SUBSET X)
  BY FS_StrictSubsetOrderingWellFounded, FS_FiniteSubsetsOfFinite
<1>2. PICK m \in Bad : \A s \in Bad : ~(<<s, m>> \in StrictSubsetOrdering(X))
  BY <1>1, WFMin, Zenon
<1>3. \A s \in Bad : s \subseteq m /\ s # m => <<s, m>> \in StrictSubsetOrdering(X)
  BY DEF StrictSubsetOrdering
<1>4. \A s \in Bad : s \subseteq m => s = m
  BY <1>2, <1>3, Zenon
<1> QED BY <1>4, Zenon

\* The element a fold takes next, and the equation of the folds of F from b.
Picked(s) == CHOOSE x \in s : TRUE
FoldsTo(F, b, s, h) ==
  \A r \in SUBSET s : h[r] = IF r = {} THEN b ELSE F[<<Picked(r), h[r \ {Picked(r)}]>>]

LEMMA PickedOK == \A s : s # {} => Picked(s) \in s /\ s \ {Picked(s)} # s
<1> SUFFICES ASSUME NEW s, s # {} PROVE Picked(s) \in s /\ s \ {Picked(s)} # s
  OBVIOUS
<1>1. \E x \in s : TRUE
  OBVIOUS
<1>2. Picked(s) \in s
  BY <1>1 DEF Picked
<1> QED BY <1>2

\* Two folds agree where both are defined.
LEMMA FoldUnique ==
  ASSUME NEW X, IsFiniteSet(X), NEW F, NEW b, NEW s \in SUBSET X, NEW r \in SUBSET s,
         NEW g, FoldsTo(F, b, s, g), NEW h, FoldsTo(F, b, r, h)
  PROVE  g[r] = h[r]
<1> DEFINE Bad == {q \in SUBSET r : g[q] # h[q]}
<1> SUFFICES ASSUME Bad # {} PROVE FALSE
  OBVIOUS
<1>1. Bad \in SUBSET SUBSET X
  OBVIOUS
<1>2. PICK m \in Bad : \A q \in Bad : q \subseteq m => q = m
  <2> HIDE DEF Bad
  <2> QED BY <1>1, MinimalSubset
<1>3. m \in SUBSET r /\ m \in SUBSET s /\ g[m] # h[m]
  OBVIOUS
<1>4. m # {}
  BY <1>3 DEF FoldsTo
<1>5. m \ {Picked(m)} \notin Bad
  BY <1>2, <1>4, PickedOK
<1>6. g[m \ {Picked(m)}] = h[m \ {Picked(m)}]
  BY <1>3, <1>5
<1>7. /\ g[m] = F[<<Picked(m), g[m \ {Picked(m)}]>>]
      /\ h[m] = F[<<Picked(m), h[m \ {Picked(m)}]>>]
  BY <1>3, <1>4 DEF FoldsTo
<1> QED BY <1>3, <1>6, <1>7

LEMMA FoldExists ==
  ASSUME NEW X, IsFiniteSet(X), NEW B, NEW b \in B, NEW F \in [X \X B -> B]
  PROVE  \E h \in [SUBSET X -> B] : FoldsTo(F, b, X, h)
<1> DEFINE Bad == {s \in SUBSET X : ~ \E h \in [SUBSET s -> B] : FoldsTo(F, b, s, h)}
<1> SUFFICES ASSUME Bad # {} PROVE FALSE
  OBVIOUS
<1>1. PICK m \in Bad : \A q \in Bad : q \subseteq m => q = m
  <2>1. Bad \in SUBSET SUBSET X
    OBVIOUS
  <2> HIDE DEF Bad
  <2> QED BY <2>1, MinimalSubset
<1>2. m \in SUBSET X /\ ~ \E h \in [SUBSET m -> B] : FoldsTo(F, b, m, h)
  OBVIOUS
<1> DEFINE Sol(s) == CHOOSE h \in [SUBSET s -> B] : FoldsTo(F, b, s, h)
<1>3. ASSUME NEW s \in SUBSET m, s # m
      PROVE  Sol(s) \in [SUBSET s -> B] /\ FoldsTo(F, b, s, Sol(s))
  <2>1. s \in SUBSET X /\ s \notin Bad
    BY <1>1, <1>2, <1>3
  <2>2. \E h \in [SUBSET s -> B] : FoldsTo(F, b, s, h)
    BY <2>1
  <2> QED BY <2>2
<1> DEFINE Small(s) == Sol(s)[s]
           Next1(r) == F[<<Picked(r), Small(r \ {Picked(r)})>>]
           g == [s \in SUBSET m |-> IF s # m THEN Small(s) ELSE IF m = {} THEN b ELSE Next1(m)]
<1> HIDE DEF Sol, Bad
<1>4. ASSUME NEW s \in SUBSET m, s # m PROVE Small(s) \in B
  BY <1>3, <1>4
<1>5. ASSUME NEW s \in SUBSET m, s # {}
      PROVE  s \ {Picked(s)} \in SUBSET m /\ s \ {Picked(s)} # m /\ Picked(s) \in X
  BY <1>2, <1>5, PickedOK
<1>6. ASSUME NEW s \in SUBSET m, s # m
      PROVE  Small(s) = IF s = {} THEN b ELSE Next1(s)
  <2>1. Sol(s)[s] = IF s = {} THEN b ELSE F[<<Picked(s), Sol(s)[s \ {Picked(s)}]>>]
    BY <1>3, <1>6 DEF FoldsTo
  <2>2. CASE s # {}
    <3> DEFINE r == s \ {Picked(s)}
    <3>1. r \in SUBSET s /\ r \in SUBSET m /\ r # m
      BY <1>5, <2>2
    <3>2. FoldsTo(F, b, r, Sol(r)) /\ FoldsTo(F, b, s, Sol(s)) /\ s \in SUBSET X
      BY <1>2, <1>3, <1>6, <3>1
    <3> HIDE DEF r
    <3>3. Sol(s)[r] = Sol(r)[r]
      BY <3>1, <3>2, FoldUnique
    <3> QED BY <2>1, <2>2, <3>3 DEF r
  <2> QED BY <2>1, <2>2
<1>7. m # {} => Next1(m) \in B
  <2> SUFFICES ASSUME m # {} PROVE Next1(m) \in B
    OBVIOUS
  <2>1. Picked(m) \in X /\ Small(m \ {Picked(m)}) \in B
    BY <1>4, <1>5
  <2> QED BY <2>1
<1> HIDE DEF Small
<1>8. g \in [SUBSET m -> B]
  BY <1>4, <1>7
<1>9. FoldsTo(F, b, m, g)
  <2> SUFFICES ASSUME NEW r \in SUBSET m
               PROVE  g[r] = IF r = {} THEN b ELSE F[<<Picked(r), g[r \ {Picked(r)}]>>]
    BY DEF FoldsTo
  <2>1. CASE r = {}
    BY <1>6, <2>1
  <2>2. CASE r # {}
    <3>1. g[r \ {Picked(r)}] = Small(r \ {Picked(r)})
      BY <1>5, <2>2
    <3>2. g[r] = Next1(r)
      BY <1>6, <2>2
    <3> QED BY <2>2, <3>1, <3>2
  <2> QED BY <2>1, <2>2
<1> QED BY <1>2, <1>8, <1>9

----------------------------------------------------------------------------
(* The sums of payments *)

PaidTotal(a, S) == MapThenSumSet(LAMBDA t : Pays[t][a], S)
Adding(a) == [p \in Txs \X Nat |-> Pays[p[1]][a] + p[2]]

LEMMA AddingOK ==
  ASSUME NEW a \in Addresses
  PROVE  /\ Adding(a) \in [Txs \X Nat -> Nat]
         /\ \A t \in Txs : \A n \in Nat : Adding(a)[<<t, n>>] = Pays[t][a] + n
         /\ \A t \in Txs : Pays[t][a] \in Nat
<1>1. \A t \in Txs : Pays[t][a] \in Nat
  BY PaysAssumption
<1>2. \A p \in Txs \X Nat : Pays[p[1]][a] + p[2] \in Nat
  BY <1>1
<1> QED BY <1>1, <1>2 DEF Adding

\* The sum of a set of payments is the fold of Adding.
LEMMA TotalIsFold ==
  ASSUME NEW a \in Addresses, NEW S \in SUBSET Txs, NEW g \in [SUBSET Txs -> Nat], FoldsTo(Adding(a), 0, Txs, g)
  PROVE  PaidTotal(a, S) = g[S]
<1> DEFINE Eq(h) == h = [s \in SUBSET S |-> IF s = {} THEN 0 ELSE Pays[Picked(s)][a] + h[s \ {Picked(s)}]]
           it == CHOOSE h : Eq(h)
           w == [s \in SUBSET S |-> g[s]]
<1>1. PaidTotal(a, S) = it[S]
  BY DEF PaidTotal, MapThenSumSet, MapThenFoldSet, Picked
<1>2. Eq(w)
  <2>1. ASSUME NEW s \in SUBSET S
        PROVE  w[s] = IF s = {} THEN 0 ELSE Pays[Picked(s)][a] + w[s \ {Picked(s)}]
    <3>1. s \in SUBSET Txs /\ w[s] = g[s]
      OBVIOUS
    <3>2. CASE s = {}
      BY <3>1, <3>2 DEF FoldsTo
    <3>3. CASE s # {}
      <4>1. Picked(s) \in Txs /\ s \ {Picked(s)} \in SUBSET S /\ s \ {Picked(s)} \in SUBSET Txs
        BY <3>1, <3>3, PickedOK
      <4>2. g[s] = Adding(a)[<<Picked(s), g[s \ {Picked(s)}]>>]
        BY <3>1, <3>3 DEF FoldsTo
      <4>3. g[s \ {Picked(s)}] \in Nat
        BY <4>1
      <4> QED BY <3>1, <3>3, <4>1, <4>2, <4>3, AddingOK
    <3> QED BY <3>2, <3>3
  <2> QED BY <2>1
<1>3. Eq(it)
  <2> HIDE DEF w, Eq
  <2> QED BY <1>2
<1> HIDE DEF it
<1> DEFINE Bad == {s \in SUBSET S : it[s] # g[s]}
<1>4. Bad = {}
  <2> SUFFICES ASSUME Bad # {} PROVE FALSE
    OBVIOUS
  <2>1. PICK m \in Bad : \A q \in Bad : q \subseteq m => q = m
    <3>1. Bad \in SUBSET SUBSET Txs
      OBVIOUS
    <3> HIDE DEF Bad
    <3> QED BY <3>1, MinimalSubset, TxsAssumption
  <2>2. m \in SUBSET S /\ m \in SUBSET Txs /\ it[m] # g[m]
    OBVIOUS
  <2>3. it[m] = IF m = {} THEN 0 ELSE Pays[Picked(m)][a] + it[m \ {Picked(m)}]
    BY <1>3, <2>2
  <2>4. m # {}
    BY <2>2, <2>3 DEF FoldsTo
  <2>5. it[m \ {Picked(m)}] = g[m \ {Picked(m)}]
    <3>1. m \ {Picked(m)} \notin Bad
      BY <2>1, <2>4, PickedOK
    <3> QED BY <2>2, <3>1
  <2>6. Picked(m) \in Txs /\ g[m \ {Picked(m)}] \in Nat
    BY <2>2, <2>4, PickedOK
  <2>7. g[m] = Adding(a)[<<Picked(m), g[m \ {Picked(m)}]>>]
    BY <2>2, <2>4 DEF FoldsTo
  <2>8. g[m] = Pays[Picked(m)][a] + g[m \ {Picked(m)}]
    BY <2>6, <2>7, AddingOK
  <2> QED BY <2>2, <2>3, <2>4, <2>5, <2>8
<1>5. it[S] = g[S]
  BY <1>4
<1> QED BY <1>1, <1>5

\* The order of the payments does not matter: one more adds its amount.
LEMMA TotalOK ==
  ASSUME NEW a \in Addresses
  PROVE  /\ PaidTotal(a, {}) = 0
         /\ \A S \in SUBSET Txs : PaidTotal(a, S) \in Nat
         /\ \A S \in SUBSET Txs : \A t \in Txs \ S : PaidTotal(a, S \cup {t}) = PaidTotal(a, S) + Pays[t][a]
<1>1. PICK g \in [SUBSET Txs -> Nat] : FoldsTo(Adding(a), 0, Txs, g)
  BY AddingOK, FoldExists, TxsAssumption
<1>2. \A S \in SUBSET Txs : PaidTotal(a, S) = g[S] /\ g[S] \in Nat
  BY <1>1, TotalIsFold
<1>3. g[{}] = 0
  BY <1>1 DEF FoldsTo
<1>4. ASSUME NEW s \in SUBSET Txs, s # {}
      PROVE  /\ Picked(s) \in s /\ s \ {Picked(s)} \in SUBSET Txs
             /\ g[s] = Pays[Picked(s)][a] + g[s \ {Picked(s)}]
  <2>1. Picked(s) \in s /\ Picked(s) \in Txs /\ s \ {Picked(s)} \in SUBSET Txs
    BY <1>4, PickedOK
  <2>2. g[s] = Adding(a)[<<Picked(s), g[s \ {Picked(s)}]>>]
    BY <1>1, <1>4 DEF FoldsTo
  <2> QED BY <2>1, <2>2, AddingOK
<1> DEFINE Bad == {s \in SUBSET Txs : \E t \in Txs \ s : g[s \cup {t}] # g[s] + Pays[t][a]}
<1>5. Bad = {}
  <2> SUFFICES ASSUME Bad # {} PROVE FALSE
    OBVIOUS
  <2>1. PICK m \in Bad : \A q \in Bad : q \subseteq m => q = m
    <3>1. Bad \in SUBSET SUBSET Txs
      OBVIOUS
    <3> HIDE DEF Bad
    <3> QED BY <3>1, MinimalSubset, TxsAssumption
  <2>2. m \in SUBSET Txs
    OBVIOUS
  <2>3. PICK t \in Txs \ m : g[m \cup {t}] # g[m] + Pays[t][a]
    OBVIOUS
  <2> DEFINE u == Picked(m \cup {t})
             r == m \ {u}
  <2>4. /\ u \in m \cup {t} /\ m \cup {t} \in SUBSET Txs
        /\ g[m \cup {t}] = Pays[u][a] + g[(m \cup {t}) \ {u}]
    BY <1>4, <2>2, <2>3
  <2> HIDE DEF u
  <2>5. CASE u = t
    <3>1. (m \cup {t}) \ {u} = m
      BY <2>3, <2>5
    <3>2. g[m \cup {t}] = Pays[t][a] + g[m]
      BY <2>4, <2>5, <3>1
    <3>3. g[m] \in Nat /\ Pays[t][a] \in Nat
      BY <1>2, <2>2, <2>3, AddingOK
    <3> HIDE DEF Bad
    <3> QED BY <2>3, <3>2, <3>3
  <2>6. CASE u \in m
    <3>1. r \in SUBSET Txs /\ r \subseteq m /\ r # m /\ t \in Txs \ r /\ u \in Txs \ r
      BY <2>2, <2>3, <2>6
    <3>2. (m \cup {t}) \ {u} = r \cup {t} /\ r \cup {u} = m
      BY <2>3, <2>6
    <3>3. r \notin Bad
      BY <2>1, <3>1
    <3>4. g[r \cup {t}] = g[r] + Pays[t][a] /\ g[r \cup {u}] = g[r] + Pays[u][a]
      BY <3>1, <3>3
    <3>5. g[r] \in Nat /\ Pays[t][a] \in Nat /\ Pays[u][a] \in Nat
      BY <1>2, <3>1, AddingOK
    <3> HIDE DEF r, Bad
    <3>6. g[m \cup {t}] = Pays[u][a] + (g[r] + Pays[t][a])
      BY <2>4, <3>2, <3>4
    <3>7. g[m] = g[r] + Pays[u][a]
      BY <3>2, <3>4
    <3>8. g[m \cup {t}] = g[m] + Pays[t][a]
      BY <3>5, <3>6, <3>7
    <3> QED BY <2>3, <3>8
  <2> QED BY <2>4, <2>5, <2>6
<1>6. ASSUME NEW S \in SUBSET Txs, NEW t \in Txs \ S
      PROVE  g[S \cup {t}] = g[S] + Pays[t][a]
  BY <1>5
<1> QED
  <2>1. ASSUME NEW S \in SUBSET Txs, NEW t \in Txs \ S
        PROVE  PaidTotal(a, S \cup {t}) = PaidTotal(a, S) + Pays[t][a]
    <3>1. S \cup {t} \in SUBSET Txs
      OBVIOUS
    <3> QED BY <1>2, <1>6, <3>1
  <2>2. PaidTotal(a, {}) = 0
    BY <1>2, <1>3
  <2> QED BY <1>2, <2>1, <2>2

\* A fold of F over a set that is only known to follow F inside B stays in B.
LEMMA FoldSolution ==
  ASSUME NEW B, NEW b \in B, NEW F \in [Txs \X B -> B], NEW S \in SUBSET Txs
  PROVE  \E w \in [SUBSET S -> B] : FoldsTo(F, b, S, w)
<1>1. PICK h \in [SUBSET Txs -> B] : FoldsTo(F, b, Txs, h)
  BY FoldExists, TxsAssumption
<1> DEFINE w == [s \in SUBSET S |-> h[s]]
<1>2. ASSUME NEW s \in SUBSET S
      PROVE  w[s] = IF s = {} THEN b ELSE F[<<Picked(s), w[s \ {Picked(s)}]>>]
  <2>1. s \in SUBSET Txs /\ s \ {Picked(s)} \in SUBSET S
    OBVIOUS
  <2> QED BY <1>1, <2>1 DEF FoldsTo
<1>3. w \in [SUBSET S -> B]
  OBVIOUS
<1>4. FoldsTo(F, b, S, w)
  BY <1>2 DEF FoldsTo
<1> HIDE DEF w
<1> QED BY <1>3, <1>4

FollowsIn(B, F, b, S, it) ==
  /\ F \in [Txs \X B -> B]
  /\ it[{}] = b
  /\ \A s \in SUBSET S : s # {} /\ it[s \ {Picked(s)}] \in B
       => it[s] = F[<<Picked(s), it[s \ {Picked(s)}]>>]

LEMMA FoldStays ==
  ASSUME NEW B, NEW b \in B, NEW F, NEW S \in SUBSET Txs, NEW it, FollowsIn(B, F, b, S, it)
  PROVE  it[S] \in B
<1> DEFINE Bad == {s \in SUBSET S : it[s] \notin B}
<1> SUFFICES ASSUME Bad # {} PROVE FALSE
  OBVIOUS
<1>1. PICK m \in Bad : \A q \in Bad : q \subseteq m => q = m
  <2>1. Bad \in SUBSET SUBSET Txs
    OBVIOUS
  <2> HIDE DEF Bad
  <2> QED BY <2>1, MinimalSubset, TxsAssumption
<1>2. m \in SUBSET S /\ it[m] \notin B /\ m # {}
  BY DEF FollowsIn
<1>3. m \ {Picked(m)} \in SUBSET S /\ m \ {Picked(m)} \notin Bad /\ Picked(m) \in Txs
  BY <1>1, <1>2, PickedOK
<1>4. it[m] = F[<<Picked(m), it[m \ {Picked(m)}]>>] /\ it[m \ {Picked(m)}] \in B
  BY <1>2, <1>3 DEF FollowsIn
<1>5. F \in [Txs \X B -> B]
  BY DEF FollowsIn
<1> QED BY <1>2, <1>3, <1>4, <1>5

----------------------------------------------------------------------------
(* Good books: the totals are the sums of the recorded payments *)

PaidTo(b, a) == {t \in Txs : a \in b.payments[t]}
GoodBooks == {b \in Books : \A a \in Addresses : b.totals[a] = PaidTotal(a, PaidTo(b, a))}
Timed(b) == b.timer = (b.unconfirmed # {})
TimedBooks == {b \in GoodBooks : Timed(b)}

BookInv ==
  /\ book \in GoodBooks
  /\ stage # "stopped" => book \in TimedBooks
  /\ poll \in Polls

LEMMA EmptyBookOK == EmptyBook \in TimedBooks
<1>1. EmptyBook \in Books /\ Timed(EmptyBook)
  BY DEF EmptyBook, Books, Timed
<1>2. ASSUME NEW a \in Addresses PROVE EmptyBook.totals[a] = PaidTotal(a, PaidTo(EmptyBook, a))
  <2>1. PaidTo(EmptyBook, a) = {} /\ EmptyBook.totals[a] = 0
    BY DEF PaidTo, EmptyBook
  <2> QED BY <2>1, TotalOK
<1> QED BY <1>1, <1>2 DEF GoodBooks, TimedBooks

LEMMA UpdateOK ==
  ASSUME NEW b \in GoodBooks
  PROVE  UpdatePollTimer(b) \in TimedBooks
<1> DEFINE c == UpdatePollTimer(b)
<1>1. c \in Books /\ c.totals = b.totals /\ c.payments = b.payments /\ Timed(c)
  BY DEF GoodBooks, Books, UpdatePollTimer, Timed
<1> HIDE DEF c
<1>2. \A a \in Addresses : c.totals[a] = PaidTotal(a, PaidTo(c, a))
  BY <1>1 DEF GoodBooks, PaidTo
<1> QED BY <1>1, <1>2 DEF GoodBooks, TimedBooks, c

\* Some fields of a book and the payment of t replaced.
Replaced(p, t, P) == [p EXCEPT ![t] = P]
Removing(b, u, T, t, P) ==
  [b EXCEPT !.unconfirmed = u, !.steady = FALSE, !.totals = T, !.payments[t] = P]
Recording(b, u, T, t, P) == [b EXCEPT !.unconfirmed = u, !.totals = T, !.payments[t] = P]

LEMMA BookExcept ==
  ASSUME NEW b \in Books, NEW u \in SUBSET Txs, NEW T \in [Addresses -> Nat], NEW t \in Txs,
         NEW P \in SUBSET Addresses
  PROVE  /\ Removing(b, u, T, t, P) \in Books
         /\ Removing(b, u, T, t, P).totals = T
         /\ Removing(b, u, T, t, P).payments = Replaced(b.payments, t, P)
         /\ Recording(b, u, T, t, P) \in Books
         /\ Recording(b, u, T, t, P).totals = T
         /\ Recording(b, u, T, t, P).payments = Replaced(b.payments, t, P)
<1> DEFINE b1 == [b EXCEPT !.unconfirmed = u]
           b2 == [b1 EXCEPT !.steady = FALSE]
<1>1. b1 \in Books /\ b1.payments = b.payments
  BY DEF Books
<1>2. b2 \in Books /\ b2.payments = b.payments
  <2> HIDE DEF b1
  <2> QED BY <1>1 DEF Books
<1>3. ASSUME NEW c \in Books
      PROVE  /\ [[c EXCEPT !.totals = T] EXCEPT !.payments[t] = P] \in Books
             /\ [[c EXCEPT !.totals = T] EXCEPT !.payments[t] = P].totals = T
             /\ [[c EXCEPT !.totals = T] EXCEPT !.payments[t] = P].payments = [c.payments EXCEPT ![t] = P]
  <2> DEFINE d == [c EXCEPT !.totals = T]
  <2>1. d \in Books /\ d.totals = T /\ d.payments = c.payments
    BY DEF Books
  <2> HIDE DEF d
  <2>2. /\ [d EXCEPT !.payments[t] = P] \in Books
        /\ [d EXCEPT !.payments[t] = P].totals = T
        /\ [d EXCEPT !.payments[t] = P].payments = [c.payments EXCEPT ![t] = P]
    BY <2>1 DEF Books
  <2> QED BY <2>2 DEF d
<1>4. Removing(b, u, T, t, P) = [[b2 EXCEPT !.totals = T] EXCEPT !.payments[t] = P]
  BY DEF Removing
<1>5. Recording(b, u, T, t, P) = [[b1 EXCEPT !.totals = T] EXCEPT !.payments[t] = P]
  BY DEF Recording
<1> HIDE DEF b1, b2
<1> QED BY <1>1, <1>2, <1>3, <1>4, <1>5 DEF Replaced

\* Taking a payment away takes its amounts from the totals, which stay natural.
LEMMA RemovePaymentOK ==
  ASSUME NEW b \in GoodBooks, NEW t \in Txs
  PROVE  /\ RemovePayment(b, t) \in TimedBooks
         /\ RemovePayment(b, t).payments[t] = {}
<1> DEFINE sums == [a \in Addresses |-> IF a \in b.payments[t] THEN b.totals[a] - Pays[t][a] ELSE b.totals[a]]
           left == Replaced(b.payments, t, {})
           LeftTo(a) == {u \in Txs : a \in left[u]}
           c == Removing(b, b.unconfirmed \ {t}, sums, t, {})
<1>1. b \in Books /\ \A a \in Addresses : b.totals[a] = PaidTotal(a, PaidTo(b, a))
  BY DEF GoodBooks
<1>2. RemovePayment(b, t) = UpdatePollTimer(c)
  BY DEF RemovePayment, Removing
<1>3. ASSUME NEW a \in Addresses
      PROVE  sums[a] = PaidTotal(a, LeftTo(a)) /\ sums[a] \in Nat
  <2>1. LeftTo(a) = PaidTo(b, a) \ {t} /\ (t \in PaidTo(b, a) <=> a \in b.payments[t])
    BY <1>1 DEF PaidTo, Books, Replaced
  <2>2. PaidTo(b, a) \in SUBSET Txs /\ LeftTo(a) \in SUBSET Txs
    BY DEF PaidTo
  <2> HIDE DEF LeftTo, c
  <2>3. PaidTotal(a, PaidTo(b, a)) \in Nat /\ PaidTotal(a, LeftTo(a)) \in Nat /\ Pays[t][a] \in Nat
    BY <2>2, TotalOK, AddingOK
  <2>4. b.totals[a] = PaidTotal(a, PaidTo(b, a))
    BY <1>1
  <2>5. CASE a \in b.payments[t]
    <3>1. PaidTo(b, a) = LeftTo(a) \cup {t} /\ t \notin LeftTo(a)
      BY <2>1, <2>5
    <3>2. PaidTotal(a, PaidTo(b, a)) = PaidTotal(a, LeftTo(a)) + Pays[t][a]
      BY <2>2, <3>1, TotalOK
    <3>3. sums[a] = b.totals[a] - Pays[t][a]
      BY <2>5
    <3> HIDE DEF sums
    <3> QED BY <2>3, <2>4, <3>2, <3>3
  <2>6. CASE a \notin b.payments[t]
    <3>1. PaidTo(b, a) = LeftTo(a) /\ sums[a] = b.totals[a]
      BY <2>1, <2>6
    <3> QED BY <2>3, <2>4, <3>1
  <2> QED BY <2>5, <2>6
<1>4. sums \in [Addresses -> Nat] /\ b.unconfirmed \ {t} \in SUBSET Txs
      /\ {} \in SUBSET Addresses
  BY <1>1, <1>3 DEF Books
<1> HIDE DEF sums, c
<1>5. c \in Books /\ c.totals = sums /\ c.payments = left
  BY <1>1, <1>4, BookExcept DEF c
<1>6. \A a \in Addresses : PaidTo(c, a) = LeftTo(a)
  BY <1>5 DEF PaidTo
<1> HIDE DEF LeftTo
<1>7. c \in GoodBooks
  BY <1>3, <1>5, <1>6 DEF GoodBooks
<1>8. UpdatePollTimer(c).payments[t] = {}
  BY <1>1, <1>5 DEF UpdatePollTimer, Books, Replaced
<1> QED BY <1>2, <1>7, <1>8, UpdateOK

\* A transaction without a recorded payment can be recorded.
LEMMA AddPaymentOK ==
  ASSUME NEW b \in GoodBooks, NEW t \in Txs, NEW A, b.payments[t] = {}
  PROVE  AddPayment(b, t, A) \in TimedBooks
<1> DEFINE got == Received(t, A)
           sums == [a \in Addresses |-> IF a \in got THEN b.totals[a] + Pays[t][a] ELSE b.totals[a]]
           more == IF Unconfirmed(t, A) THEN b.unconfirmed \cup {t} ELSE b.unconfirmed
           now == Replaced(b.payments, t, got)
           NowTo(a) == {u \in Txs : a \in now[u]}
           c == Recording(b, more, sums, t, got)
<1>1. b \in Books /\ \A a \in Addresses : b.totals[a] = PaidTotal(a, PaidTo(b, a))
  BY DEF GoodBooks
<1>2. AddPayment(b, t, A) = UpdatePollTimer(c)
  BY DEF AddPayment, Recording
<1>3. got \in SUBSET Addresses /\ more \in SUBSET Txs
  BY <1>1, ReceivedType DEF Books
<1> HIDE DEF got, more
<1>4. ASSUME NEW a \in Addresses
      PROVE  sums[a] = PaidTotal(a, NowTo(a)) /\ sums[a] \in Nat
  <2>1. /\ NowTo(a) = IF a \in got THEN PaidTo(b, a) \cup {t} ELSE PaidTo(b, a)
        /\ t \notin PaidTo(b, a)
    BY <1>1 DEF PaidTo, Books, Replaced
  <2>2. PaidTo(b, a) \in SUBSET Txs
    BY DEF PaidTo
  <2> HIDE DEF NowTo, c
  <2>3. PaidTotal(a, PaidTo(b, a)) \in Nat /\ Pays[t][a] \in Nat
    BY <2>2, TotalOK, AddingOK
  <2>4. b.totals[a] = PaidTotal(a, PaidTo(b, a))
    BY <1>1
  <2>5. CASE a \in got
    <3>1. PaidTotal(a, NowTo(a)) = PaidTotal(a, PaidTo(b, a)) + Pays[t][a]
      BY <2>1, <2>2, <2>5, TotalOK
    <3>2. sums[a] = b.totals[a] + Pays[t][a]
      BY <2>5
    <3> HIDE DEF sums
    <3> QED BY <2>3, <2>4, <3>1, <3>2
  <2>6. CASE a \notin got
    <3>1. NowTo(a) = PaidTo(b, a) /\ sums[a] = b.totals[a]
      BY <2>1, <2>6
    <3> QED BY <2>3, <2>4, <3>1
  <2> QED BY <2>5, <2>6
<1>5. sums \in [Addresses -> Nat]
  BY <1>4
<1> HIDE DEF sums, c
<1>6. c \in Books /\ c.totals = sums /\ c.payments = now
  BY <1>1, <1>3, <1>5, BookExcept DEF c
<1>7. \A a \in Addresses : PaidTo(c, a) = NowTo(a)
  BY <1>6 DEF PaidTo
<1> HIDE DEF NowTo
<1>8. c \in GoodBooks
  BY <1>4, <1>6, <1>7 DEF GoodBooks
<1> QED BY <1>2, <1>8, UpdateOK

LEMMA RecordPaymentOK ==
  ASSUME NEW b \in TimedBooks, NEW t \in Txs
  PROVE  RecordPayment(b, t) \in TimedBooks
<1>1. RemovePayment(b, t) \in GoodBooks /\ RemovePayment(b, t).payments[t] = {}
  BY RemovePaymentOK DEF TimedBooks
<1>2. AddPayment(RemovePayment(b, t), t, RequestAddresses) \in TimedBooks
  BY <1>1, AddPaymentOK
<1> QED BY <1>2 DEF RecordPayment

\* Taking away several payments, one after the other.
LEMMA RemoveAllOK ==
  ASSUME NEW b \in TimedBooks, NEW S \in SUBSET Txs
  PROVE  FoldSet(LAMBDA u, c : RemovePayment(c, u), b, S) \in TimedBooks
<1> DEFINE Eq(h) == h = [s \in SUBSET S |-> IF s = {} THEN b ELSE RemovePayment(h[s \ {Picked(s)}], Picked(s))]
           it == CHOOSE h : Eq(h)
           F == [p \in Txs \X TimedBooks |-> RemovePayment(p[2], p[1])]
<1>1. FoldSet(LAMBDA u, c : RemovePayment(c, u), b, S) = it[S]
  BY DEF FoldSet, MapThenFoldSet, Picked
<1>2. /\ F \in [Txs \X TimedBooks -> TimedBooks]
      /\ \A u \in Txs : \A c \in TimedBooks : F[<<u, c>>] = RemovePayment(c, u)
  <2>1. \A u \in Txs : \A c \in TimedBooks : RemovePayment(c, u) \in TimedBooks
    BY RemovePaymentOK DEF TimedBooks
  <2> QED BY <2>1
<1> HIDE DEF F
<1>3. Eq(it)
  <2>1. PICK w \in [SUBSET S -> TimedBooks] : FoldsTo(F, b, S, w)
    <3> HIDE DEF it, Eq
    <3> QED BY <1>2, FoldSolution
  <2>2. ASSUME NEW s \in SUBSET S
        PROVE  w[s] = IF s = {} THEN b ELSE RemovePayment(w[s \ {Picked(s)}], Picked(s))
    <3>1. s # {} => Picked(s) \in Txs /\ w[s \ {Picked(s)}] \in TimedBooks
      BY PickedOK
    <3> QED BY <1>2, <2>1, <3>1 DEF FoldsTo
  <2>3. Eq(w)
    BY <2>2
  <2> HIDE DEF Eq
  <2> QED BY <2>3
<1> HIDE DEF it
<1>4. it[{}] = b
  BY <1>3
<1>5. ASSUME NEW s \in SUBSET S, s # {}, it[s \ {Picked(s)}] \in TimedBooks
      PROVE  it[s] = F[<<Picked(s), it[s \ {Picked(s)}]>>]
  <2>1. Picked(s) \in Txs
    BY <1>5, PickedOK
  <2> QED BY <1>2, <1>3, <1>5, <2>1
<1> HIDE DEF Eq
<1>6. FollowsIn(TimedBooks, F, b, S, it)
  BY <1>2, <1>4, <1>5 DEF FollowsIn
<1>7. it[S] \in TimedBooks
  BY <1>6, FoldStays
<1> QED BY <1>1, <1>7

LEMMA ChangedOK ==
  ASSUME NEW b \in GoodBooks, NEW t \in Txs
  PROVE  Changed(b, t) \in TimedBooks
<1> DEFINE c == RecordPayment(RemovePayment(b, t), t)
           related == {u \in Txs \ {t} : c.payments[u] \cap c.payments[t] # {}}
           S == {u \in related : ~CountsAsPayment(u)}
<1>1. c \in TimedBooks /\ S \in SUBSET Txs
  BY RemovePaymentOK, RecordPaymentOK
<1>2. Changed(b, t) = FoldSet(LAMBDA u, d : RemovePayment(d, u), c, S)
  BY DEF Changed, RecheckPayments
<1> HIDE DEF c, S
<1>3. FoldSet(LAMBDA u, d : RemovePayment(d, u), c, S) \in TimedBooks
  BY <1>1, RemoveAllOK, Zenon
<1> QED BY <1>2, <1>3, Zenon

\* Recording what the wallet has, one transaction after the other.
LEMMA RecordAllOK ==
  ASSUME book \in TimedBooks
  PROVE  RecordAll \in TimedBooks
<1> DEFINE S == Present
           Eq(h) == h = [s \in SUBSET S |-> IF s = {} THEN book ELSE RecordPayment(h[s \ {Picked(s)}], Picked(s))]
           it == CHOOSE h : Eq(h)
           F == [p \in Txs \X TimedBooks |-> RecordPayment(p[2], p[1])]
<1>0. S \in SUBSET Txs
  BY DEF Present
<1>1. RecordAll = it[S]
  BY DEF RecordAll, FoldSet, MapThenFoldSet, Picked
<1> HIDE DEF S
<1>2. /\ F \in [Txs \X TimedBooks -> TimedBooks]
      /\ \A u \in Txs : \A c \in TimedBooks : F[<<u, c>>] = RecordPayment(c, u)
  BY RecordPaymentOK
<1> HIDE DEF F
<1>3. Eq(it)
  <2>1. PICK w \in [SUBSET S -> TimedBooks] : FoldsTo(F, book, S, w)
    <3> HIDE DEF it, Eq
    <3> QED BY <1>0, <1>2, FoldSolution
  <2>2. ASSUME NEW s \in SUBSET S
        PROVE  w[s] = IF s = {} THEN book ELSE RecordPayment(w[s \ {Picked(s)}], Picked(s))
    <3>1. s # {} => Picked(s) \in Txs /\ w[s \ {Picked(s)}] \in TimedBooks
      BY <1>0, PickedOK
    <3> QED BY <1>2, <2>1, <3>1 DEF FoldsTo
  <2>3. Eq(w)
    BY <2>2
  <2> HIDE DEF Eq
  <2> QED BY <2>3
<1> HIDE DEF it
<1>4. it[{}] = book
  BY <1>3
<1>5. ASSUME NEW s \in SUBSET S, s # {}, it[s \ {Picked(s)}] \in TimedBooks
      PROVE  it[s] = F[<<Picked(s), it[s \ {Picked(s)}]>>]
  <2>1. Picked(s) \in Txs
    BY <1>0, <1>5, PickedOK
  <2> QED BY <1>2, <1>3, <1>5, <2>1
<1> HIDE DEF Eq
<1>6. FollowsIn(TimedBooks, F, book, S, it)
  BY <1>2, <1>4, <1>5 DEF FollowsIn
<1>7. it[S] \in TimedBooks
  BY <1>0, <1>6, FoldStays
<1> QED BY <1>1, <1>7

\* The book of a scan has the sums of its findings, and the replay keeps them.
LEMMA ScannedBookOK ==
  ASSUME book \in GoodBooks, scan.payments \in [Txs -> SUBSET Addresses], scan.unconfirmed \in SUBSET Txs
  PROVE  ScannedBook \in TimedBooks
<1> DEFINE Total(a) == PaidTotal(a, {t \in Txs : a \in scan.payments[t]})
           scanned == [book EXCEPT !.payments = scan.payments, !.unconfirmed = scan.unconfirmed,
                                   !.totals = [a \in Addresses |-> Total(a)], !.steady = FALSE]
           Replay(t, b) == IF scan.updates[t] = "changed" THEN Changed(b, t) ELSE RemovePayment(b, t)
           S == {t \in Txs : scan.updates[t] # "none"}
           Eq(h) == h = [s \in SUBSET S |-> IF s = {} THEN scanned ELSE Replay(Picked(s), h[s \ {Picked(s)}])]
           it == CHOOSE h : Eq(h)
           F == [p \in Txs \X GoodBooks |-> Replay(p[1], p[2])]
<1>0. S \in SUBSET Txs
  OBVIOUS
<1>1. ScannedBook = UpdatePollTimer(it[S])
  BY DEF ScannedBook, FoldSet, MapThenFoldSet, Picked, PaidTotal
<1>2. scanned \in GoodBooks
  <2> DEFINE sums == [a \in Addresses |-> Total(a)]
             b1 == [book EXCEPT !.payments = scan.payments]
             b2 == [b1 EXCEPT !.unconfirmed = scan.unconfirmed]
             b3 == [b2 EXCEPT !.totals = sums]
             b4 == [b3 EXCEPT !.steady = FALSE]
  <2>1. sums \in [Addresses -> Nat]
    <3>1. \A a \in Addresses : {t \in Txs : a \in scan.payments[t]} \in SUBSET Txs
      OBVIOUS
    <3> QED BY <3>1, TotalOK
  <2>2. scanned = b4
    OBVIOUS
  <2>3. b1 \in Books /\ b1.payments = scan.payments
    BY DEF GoodBooks, Books
  <2> HIDE DEF b1
  <2>4. b2 \in Books /\ b2.payments = scan.payments
    BY <2>3 DEF Books
  <2> HIDE DEF b2
  <2>5. b3 \in Books /\ b3.payments = scan.payments /\ b3.totals = sums
    <3> HIDE DEF sums
    <3> QED BY <2>1, <2>4 DEF Books
  <2> HIDE DEF b3
  <2>6. b4 \in Books /\ b4.payments = scan.payments /\ b4.totals = sums
    <3> HIDE DEF sums
    <3> QED BY <2>5 DEF Books
  <2> HIDE DEF b4
  <2>7. ASSUME NEW a \in Addresses PROVE b4.totals[a] = PaidTotal(a, PaidTo(b4, a))
    <3>1. sums[a] = Total(a)
      OBVIOUS
    <3>2. PaidTo(b4, a) = {t \in Txs : a \in scan.payments[t]}
      BY <2>6 DEF PaidTo
    <3> QED BY <2>6, <3>1, <3>2
  <2>8. b4 \in GoodBooks
    <3> HIDE DEF sums, scanned
    <3> QED BY <2>6, <2>7 DEF GoodBooks
  <2> QED BY <2>2, <2>8
<1> HIDE DEF scanned, S
<1>3. /\ F \in [Txs \X GoodBooks -> GoodBooks]
      /\ \A u \in Txs : \A c \in GoodBooks : F[<<u, c>>] = Replay(u, c)
  <2>1. \A u \in Txs : \A c \in GoodBooks : Replay(u, c) \in GoodBooks
    BY ChangedOK, RemovePaymentOK DEF TimedBooks
  <2> HIDE DEF Replay
  <2> QED BY <2>1
<1> HIDE DEF F, Replay
<1>4. Eq(it)
  <2>1. PICK w \in [SUBSET S -> GoodBooks] : FoldsTo(F, scanned, S, w)
    <3> HIDE DEF it, Eq
    <3> QED BY <1>0, <1>2, <1>3, FoldSolution
  <2>2. ASSUME NEW s \in SUBSET S
        PROVE  w[s] = IF s = {} THEN scanned ELSE Replay(Picked(s), w[s \ {Picked(s)}])
    <3>1. s # {} => Picked(s) \in Txs /\ w[s \ {Picked(s)}] \in GoodBooks
      BY <1>0, PickedOK
    <3> QED BY <1>3, <2>1, <3>1 DEF FoldsTo
  <2>3. Eq(w)
    BY <2>2
  <2> HIDE DEF Eq
  <2> QED BY <2>3
<1> HIDE DEF it
<1>5. it[{}] = scanned
  BY <1>4
<1>6. ASSUME NEW s \in SUBSET S, s # {}, it[s \ {Picked(s)}] \in GoodBooks
      PROVE  it[s] = F[<<Picked(s), it[s \ {Picked(s)}]>>]
  <2>1. Picked(s) \in Txs
    BY <1>0, <1>6, PickedOK
  <2> QED BY <1>3, <1>4, <1>6, <2>1
<1> HIDE DEF Eq
<1>7. FollowsIn(GoodBooks, F, scanned, S, it)
  BY <1>3, <1>5, <1>6 DEF FollowsIn
<1>8. it[S] \in GoodBooks
  BY <1>0, <1>2, <1>7, FoldStays
<1> QED BY <1>1, <1>8, UpdateOK

----------------------------------------------------------------------------
(* The book and the poll *)

\* A poll drops payments and confirms others; the book stays good.
LEMMA PollDoneOK ==
  ASSUME book \in TimedBooks, poll \in Polls, PollDone
  PROVE  book' \in TimedBooks
<1> DEFINE b == FoldSet(LAMBDA t, c : RemovePayment(c, t), book, poll.inactive)
           d == [b EXCEPT !.unconfirmed = @ \ poll.confirmed]
<1>1. poll.inactive \in SUBSET Txs
  BY DEF Polls
<1>2. b \in TimedBooks
  <2>1. b = FoldSet(LAMBDA u, c : RemovePayment(c, u), book, poll.inactive)
    OBVIOUS
  <2> HIDE DEF b
  <2> QED BY <1>1, <2>1, RemoveAllOK
<1>3. book' = IF PollOutdated THEN book ELSE UpdatePollTimer(d)
  BY DEF PollDone
<1> HIDE DEF b
<1>4. d \in GoodBooks
  <2>1. b \in Books /\ \A a \in Addresses : b.totals[a] = PaidTotal(a, PaidTo(b, a))
    BY <1>2 DEF TimedBooks, GoodBooks
  <2>2. d \in Books /\ d.totals = b.totals /\ d.payments = b.payments
    BY <2>1 DEF Books
  <2> HIDE DEF d
  <2>3. \A a \in Addresses : PaidTo(d, a) = PaidTo(b, a)
    BY <2>2 DEF PaidTo
  <2> QED BY <2>1, <2>2, <2>3 DEF GoodBooks
<1> HIDE DEF d
<1> QED BY <1>3, <1>4, UpdateOK

LEMMA RefreshedBookOK ==
  ASSUME NEW s, NEW rs, NEW b \in TimedBooks
  PROVE  RefreshedBook(s, rs, b) \in TimedBooks
  BY EmptyBookOK DEF RefreshedBook

\* The fields of the book that are set by themselves.
LEMMA FlagsOK ==
  ASSUME NEW b \in GoodBooks
  PROVE  /\ [b EXCEPT !.timer = FALSE] \in GoodBooks
         /\ [b EXCEPT !.steady = TRUE] \in GoodBooks
         /\ Timed(b) => Timed([b EXCEPT !.steady = TRUE])
<1> DEFINE c == [b EXCEPT !.timer = FALSE]
           d == [b EXCEPT !.steady = TRUE]
<1>1. b \in Books /\ \A a \in Addresses : b.totals[a] = PaidTotal(a, PaidTo(b, a))
  BY DEF GoodBooks
<1>2. c \in Books /\ c.totals = b.totals /\ c.payments = b.payments
  BY <1>1 DEF Books
<1>3. d \in Books /\ d.totals = b.totals /\ d.payments = b.payments
  BY <1>1 DEF Books
<1>4. Timed(b) => Timed(d)
  BY <1>1 DEF Timed, Books
<1> HIDE DEF c, d
<1>5. \A a \in Addresses : PaidTo(c, a) = PaidTo(b, a) /\ PaidTo(d, a) = PaidTo(b, a)
  BY <1>2, <1>3 DEF PaidTo
<1>6. c \in GoodBooks /\ d \in GoodBooks
  BY <1>1, <1>2, <1>3, <1>5 DEF GoodBooks
<1> QED BY <1>4, <1>6 DEF c, d

\* BookInv with the values of the next state.
LEMMA BookNext ==
  ASSUME poll' \in Polls, stage' # "stopped" => book' \in TimedBooks, stage' = "stopped" => book' \in GoodBooks
  PROVE  BookInv'
<1>1. book' \in GoodBooks
  BY DEF TimedBooks
<1>2. GoodBooks' = GoodBooks /\ TimedBooks' = TimedBooks /\ Polls' = Polls
  BY DEF GoodBooks, TimedBooks, Polls, Timed, PaidTo, Books
<1> QED BY <1>1, <1>2 DEF BookInv

LEMMA BookStep ==
  ASSUME ReceiveTypes, BookInv, ReceiveNext \/ UNCHANGED receiveVars
  PROVE  BookInv'
<1>0. /\ book \in GoodBooks /\ (stage # "stopped" => book \in TimedBooks) /\ poll \in Polls
      /\ scan.payments \in [Txs -> SUBSET Addresses] /\ scan.unconfirmed \in SUBSET Txs
  BY DEF BookInv, ReceiveTypes, Scans
<1>1. ASSUME UNCHANGED <<book, stage>>, poll' \in Polls PROVE BookInv'
  BY <1>0, <1>1, BookNext
<1>2. ASSUME stage' # "stopped", book' \in TimedBooks, poll' \in Polls PROVE BookInv'
  BY <1>2, BookNext
<1>3. CASE UNCHANGED receiveVars
  BY <1>0, <1>1, <1>3 DEF receiveVars
<1>4. CASE Worker \/ Throws
  <2>1. CASE ScanStart \/ ScanEnd \/ ScanThrows \/ \E t \in Txs : ScanRead(t)
    BY <1>0, <1>1, <2>1 DEF ScanStart, ScanEnd, ScanThrows, ScanRead
  <2>2. CASE PollEnd \/ PollThrows
    <3>1. poll' \in Polls
      BY <1>0, <2>2 DEF PollEnd, PollThrows, Polls
    <3> QED BY <1>1, <2>2, <3>1 DEF PollEnd, PollThrows
  <2>3. ASSUME NEW t \in Txs, PollRead(t) PROVE BookInv'
    <3>1. poll' \in Polls
      BY <1>0, <2>3 DEF PollRead, Polls
    <3> QED BY <1>1, <2>3, <3>1 DEF PollRead
  <2> QED BY <1>4, <2>1, <2>2, <2>3 DEF Worker, Throws
<1>5. CASE PollTimeout
  <2>1. /\ stage = "running" /\ stage' = stage /\ book' = [book EXCEPT !.steady = TRUE]
        /\ poll' = [IdlePoll EXCEPT !.state = "queued", !.todo = book.unconfirmed]
    BY <1>5 DEF PollTimeout
  <2>2. book.unconfirmed \in SUBSET Txs /\ book \in TimedBooks
    BY <1>0, <2>1 DEF GoodBooks, Books
  <2>3. poll' \in Polls
    BY <2>1, <2>2 DEF IdlePoll, Polls
  <2>4. book' \in TimedBooks
    BY <2>1, <2>2, FlagsOK DEF TimedBooks
  <2> QED BY <1>2, <2>1, <2>3, <2>4
<1>6. CASE Gui
  <2>1. CASE SubscribeToWalletSignals
    <3>1. stage' = "running" /\ stage = "constructing" /\ book' = book /\ poll' = poll
      BY <2>1 DEF SubscribeToWalletSignals
    <3> QED BY <1>0, <1>2, <3>1
  <2>2. ASSUME TransactionChanged \/ TransactionDeleted PROVE BookInv'
    <3> DEFINE t == Head(queue).tx
    <3>1. /\ \/ Handle("changed") /\ book' = Changed(book, t)
             \/ Handle("deleted") /\ book' = RemovePayment(book, t)
          /\ poll' = poll /\ stage' = stage
      BY <2>2 DEF TransactionChanged, TransactionDeleted
    <3>2. stage = "running"
      BY <3>1 DEF Handle
    <3>3. t \in Txs
      <4>1. \A kind : Handle(kind) => Head(queue) \in Notification \cup Outcome /\ Head(queue).kind = kind
        BY HandleOK
      <4>2. Head(queue) \in Notification \cup Outcome /\ Head(queue).kind \in {"changed", "deleted"}
        BY <3>1, <4>1
      <4> QED BY <4>2 DEF Notification, Outcome
    <3> HIDE DEF t
    <3>4. book' \in TimedBooks
      BY <1>0, <3>1, <3>3, ChangedOK, RemovePaymentOK
    <3> QED BY <1>0, <1>2, <3>1, <3>2, <3>4
  <2>3. CASE ApplyScan
    <3>1. book' = ScannedBook /\ stage' = stage /\ stage = "running" /\ poll' = poll
      BY <2>3 DEF ApplyScan, Handle
    <3> QED BY <1>0, <1>2, <3>1, ScannedBookOK
  <2>4. CASE RepeatScan
    <3>1. /\ book' = RefreshedBook(IdleScan, requests, book) /\ stage' = stage /\ stage = "running"
          /\ poll' = poll
      BY <2>4 DEF RepeatScan, Handle
    <3> QED BY <1>0, <1>2, <3>1, RefreshedBookOK
  <2>5. CASE ScanFailed
    BY <1>0, <1>1, <2>5 DEF ScanFailed
  <2>6. CASE PollDone
    <3>1. stage' = stage /\ stage = "running" /\ poll' = IdlePoll
      BY <2>6 DEF PollDone, Handle
    <3> QED BY <1>0, <1>2, <2>6, <3>1, PollDoneOK, IdleTypes
  <2>7. CASE PollFailed
    BY <1>0, <1>1, <2>7, IdleTypes DEF PollFailed
  <2> QED BY <1>6, <2>1, <2>2, <2>3, <2>4, <2>5, <2>6, <2>7 DEF Gui
<1>7. CASE RequestOperations
  <2>1. ASSUME NEW renew \in BOOLEAN, EnsureReceivingAddress(renew) PROVE BookInv'
    <3>1. stage = "running" /\ stage' = stage /\ poll' = poll /\ (book' = RecordAll \/ book' = book)
      BY <2>1 DEF EnsureReceivingAddress
    <3>2. book' \in TimedBooks
      BY <1>0, <3>1, RecordAllOK
    <3> QED BY <1>0, <1>2, <3>1, <3>2
  <2>2. CASE CommitRequest
    <3>1. stage = "running" /\ stage' = stage /\ poll' = poll /\ book' = RecordAll
      BY <2>2 DEF CommitRequest
    <3>2. book' \in TimedBooks
      BY <1>0, <3>1, RecordAllOK
    <3> QED BY <1>0, <1>2, <3>1, <3>2
  <2>3. ASSUME SyncNote \/ \E r \in Ids : RemoveRequest(r) PROVE BookInv'
    <3>1. PICK rs : book' = RefreshedBook(scan, rs, book) /\ stage = "running" /\ stage' = stage /\ poll' = poll
      BY <2>3 DEF SyncNote, RemoveRequest
    <3> QED BY <1>0, <1>2, <3>1, RefreshedBookOK
  <2>4. CASE \/ \E a \in Addresses : ChooseAddress(a)
             \/ \E r \in Ids : UseAsTemplate(r)
             \/ \E r \in Ids, terms \in Terms : UpdateRequest(r, terms)
    BY <1>0, <1>1, <2>4 DEF ChooseAddress, UseAsTemplate, UpdateRequest
  <2>5. CASE BeginModelShutdown
    <3>1. stage' = "stopped" /\ book' = [book EXCEPT !.timer = FALSE] /\ poll' = IdlePoll
      BY <2>5 DEF BeginModelShutdown
    <3>2. book' \in GoodBooks
      BY <1>0, <3>1, FlagsOK
    <3> QED BY <3>1, <3>2, BookNext, IdleTypes
  <2>6. CASE Reopen
    <3>1. stage' = "constructing" /\ book' = EmptyBook /\ poll' = poll
      BY <2>6 DEF Reopen
    <3> QED BY <1>0, <1>2, <3>1, EmptyBookOK
  <2> QED BY <1>7, <2>1, <2>2, <2>3, <2>4, <2>5, <2>6 DEF RequestOperations
<1>8. CASE Wallet
  BY <1>0, <1>1, <1>8 DEF Wallet, WalletChanges
<1> QED BY <1>3, <1>4, <1>5, <1>6, <1>7, <1>8 DEF ReceiveNext

LEMMA TypesFollow == ReceiveTypes /\ BookInv => RequestsTypeOK
<1> SUFFICES ASSUME ReceiveTypes, BookInv PROVE RequestsTypeOK
  OBVIOUS
<1>1. /\ book \in Books
      /\ \A a \in Addresses :
           book.totals[a] = MapThenSumSet(LAMBDA t : Pays[t][a], {t \in Txs : a \in book.payments[t]})
  BY DEF BookInv, GoodBooks, PaidTotal, PaidTo
<1>2. stage = "running" => book.timer = (book.unconfirmed # {})
  BY DEF BookInv, TimedBooks, Timed
<1>3. scan.state \in {"idle", "queued", "reading", "done"} /\ poll.state \in {"idle", "queued", "done"}
  BY DEF ReceiveTypes, BookInv, Scans, Polls
<1>4. {requests, stored} \subseteq [Ids -> [address : Addresses, terms : Terms, paid : BOOLEAN] \cup {NoRequest}]
  BY DEF ReceiveTypes, Requested
<1> QED BY <1>1, <1>2, <1>3, <1>4 DEF RequestsTypeOK, ReceiveTypes

\* The requests of a wallet: a request that was paid is locked once nothing is
\* under way, what it asks for is never edited after the wallet knows a payment
\* to it, and its total is the sum of its recorded payments, for any number of
\* requests, addresses and transactions and in whatever order the notifications,
\* scans, polls and operations of the user come.
THEOREM PaidRequestsStayFixed == ReceiveSpec => PaidRequestsAreFixed
<1>1. ReceiveInit => BookInv
  BY EmptyBookOK, IdleTypes DEF ReceiveInit, BookInv, TimedBooks
<1>2. ReceiveInv /\ BookInv /\ [ReceiveNext]_receiveVars => BookInv'
  BY BookStep DEF ReceiveInv
<1>3. ReceiveSpec => []BookInv
  BY <1>1, <1>2, ReceiveInvariant, PTL DEF ReceiveSpec
<1>4. ReceiveInv /\ BookInv => RequestsTypeOK /\ PaidRequestIsLocked
  BY TypesFollow, LockFollows DEF ReceiveInv
<1>5. ReceiveInv /\ [ReceiveNext]_receiveVars
      => [\A r \in Saved :
            requests'[r] # NoRequest /\ stage' = stage /\ requests'[r].terms # requests[r].terms
              => failed \/ Paying(r) \subseteq missed]_receiveVars
  BY TermsStep
<1>6. ReceiveSpec => PaidTermsFixed
  BY <1>5, ReceiveInvariant, PTL DEF ReceiveSpec, PaidTermsFixed
<1> QED BY <1>3, <1>4, <1>6, ReceiveInvariant, PTL DEF PaidRequestsAreFixed

=============================================================================
