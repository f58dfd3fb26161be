-------------------------- MODULE WalletController --------------------------
(***************************************************************************)
(* WalletQmlController (qml/walletqmlcontroller.cpp): opening, creating,    *)
(* importing, migrating and closing wallets, the wallets other users of    *)
(* the node load and unload meanwhile, and the drain at shutdown; with the  *)
(* wallet selector's load states (qml/models/walletlistmodel.cpp) and the   *)
(* part of WalletQmlModel that ends a wallet model's life.                 *)
(*                                                                         *)
(* Actors: the GUI thread (user operations and the events posted to it),   *)
(* the command executor, one executor per retiring wallet model, the       *)
(* executor that clears the notifications at shutdown, and the node, where  *)
(* RPC clients load and unload wallets too.  Executors are used as         *)
(* SerialExecutor describes them.  A loaded wallet is an index into insts; *)
(* a wallet's file stays locked while anyone holds a handle to it.         *)
(***************************************************************************)
EXTENDS Integers, Sequences, FiniteSets, SequencesExt

CONSTANTS Names,         \* wallet names
          OnDisk,        \* names that exist in the wallet directory at start
          Legacy,        \* those of them in the legacy format
          AtStart,       \* those of them the node has loaded at start
          RpcNames,      \* names RPC clients load or create
          Kinds,         \* command kinds the user issues
          MaxWallets,    \* bound on the wallets ever loaded
          MaxCommands,   \* bound on the commands ever submitted
          MaxSelections, \* bound on the user's other operations
          MaxShutdowns   \* 1 if the user quits, 0 if not

NoName == "none" \* in place of a wallet's name

ASSUME NamesAssumption ==
  /\ OnDisk \subseteq Names /\ Legacy \subseteq OnDisk /\ RpcNames \subseteq Names
  /\ AtStart \subseteq OnDisk \ Legacy /\ IsFiniteSet(AtStart)
  /\ NoName \notin Names
  /\ Kinds \subseteq {"load", "create", "signer", "watch", "import", "migrate"}

Empty == 1       \* the index of m_empty_wallet in models

VARIABLES
  insts,          \* the wallets ever loaded: name, and whether setup is done
  loaded,         \* those the node has loaded now
  unannounced,    \* those whose load handlers have not been called yet
  disk, legacy,   \* names in the wallet directory; those in legacy format
  pending,        \* WalletLoadNotifications::wallets
  consuming,      \* wallets consumeWalletNotifications is going through
  commands,       \* tasks of m_wallet_command_executor; the first one runs
  retained,       \* wallets in command results nobody will be given
  cmd,            \* the command executor: open, stopping, posted, drained
  cleanup,        \* the notification executor: none, cleaning, posted, drained
  gui,            \* events posted to the GUI thread
  models,         \* the WalletQmlModels ever constructed
  open,           \* m_wallets
  selected,       \* m_selected_wallet
  retiringNames,  \* m_retiring_wallet_names
  init,           \* no, listing (inside initialize) or done
  shuttingDown,   \* m_shutting_down and WalletLoadNotifications::stopping
  complete,       \* m_shutdown_complete
  walletLoaded,   \* m_is_wallet_loaded
  loadInProgress, \* m_wallet_load_in_progress
  migrating,      \* m_wallet_migration_in_progress
  deferred,       \* m_deferred_wallet_name
  list,           \* WalletListModel: open names, loading name, name in error
  used            \* how much of the two bounds on the user is used up

nodeVars == <<insts, loaded, unannounced, disk, legacy>>
notifyVars == <<pending, consuming>>
commandVars == <<commands, retained, cmd>>
modelVars == <<models, open, selected, retiringNames>>
phaseVars == <<init, shuttingDown, complete, cleanup>>
statusVars == <<loadInProgress, migrating, deferred>>
vars == <<nodeVars, notifyVars, commandVars, gui, modelVars, phaseVars,
          walletLoaded, statusVars, list, used>>

Instances == 1..Len(insts)
Open == ToSet(open)
Name(k) == insts[models[k].inst].name
OpenWithName(n) == {k \in Open : Name(k) = n}

Task(kind, n) == [kind |-> kind, name |-> n, inst |-> 0]
ModelEvent(type, k) == [type |-> type, model |-> k]
ResultEvent(task, outcome) == [type |-> "result", task |-> task, outcome |-> outcome]
PlainEvent(type) == [type |-> type]

Init ==
  /\ \E s \in SetToSeqs(AtStart) :
       insts = [i \in 1..Len(s) |-> [name |-> s[i], setUp |-> TRUE]]
  /\ loaded = Instances
  /\ unannounced = {}
  /\ disk = OnDisk /\ legacy = Legacy
  /\ pending = <<>> /\ consuming = <<>>
  /\ commands = <<>> /\ retained = {} /\ cmd = "open"
  /\ cleanup = "none"
  /\ gui = <<>>
  /\ models = <<[inst |-> 0, state |-> "open", remove |-> FALSE, subscribed |-> FALSE]>>
  /\ open = <<>> /\ selected = Empty /\ retiringNames = {}
  /\ init = "no" /\ shuttingDown = FALSE /\ complete = FALSE
  /\ walletLoaded = FALSE /\ loadInProgress = FALSE /\ migrating = FALSE
  /\ deferred = NoName
  /\ list = [open |-> {}, loading |-> NoName, error |-> NoName]
  /\ used = [commands |-> 0, selections |-> 0]

Initialized == init = "done" /\ ~shuttingDown
\* The GUI thread is between two events.
GuiIdle == consuming = <<>> /\ init # "listing"

----------------------------------------------------------------------------
(* The node (external), and the load handler that initialize registers. *)

ResultInsts ==
  {commands[i].inst : i \in DOMAIN commands}
    \cup {e.task.inst : e \in {f \in ToSet(gui) : f.type = "result"}}
    \cup retained

\* Somebody holds a handle to the wallet: its file is locked.
Held(i) ==
  \/ i \in loaded \cup unannounced \cup ToSet(pending) \cup ToSet(consuming) \cup ResultInsts
  \/ \E k \in DOMAIN models : models[k].inst = i /\ models[k].state \in {"open", "retiring"}

FileFree(n) == \A i \in Instances : insts[i].name = n => ~Held(i)

\* A wallet is added to the node's list; its handlers are called afterwards.
AddToNode(n, setUp) ==
  /\ Len(insts) < MaxWallets
  /\ FileFree(n)
  /\ insts' = Append(insts, [name |-> n, setUp |-> setUp])
  /\ loaded' = loaded \cup {Len(insts) + 1}
  /\ unannounced' = unannounced \cup {Len(insts) + 1}
  /\ disk' = disk \cup {n}
  /\ legacy' = legacy \ {n}

\* RemoveWallet: the wallet leaves the list and its unload handlers are
\* called, if it was still there.  A model that is shutting down ignores it.
UnloadEvents(i) ==
  IF i \in loaded /\ \E k \in Open : models[k].inst = i /\ models[k].subscribed
  THEN <<ModelEvent("unload", CHOOSE k \in Open : models[k].inst = i /\ models[k].subscribed)>>
  ELSE <<>>

RpcLoad(n) ==
  /\ n \notin legacy
  /\ AddToNode(n, TRUE)
  /\ UNCHANGED <<notifyVars, commandVars, gui, modelVars, phaseVars, walletLoaded,
                 statusVars, list, used>>

RpcUnload(i) ==
  /\ i \in loaded \ unannounced
  /\ loaded' = loaded \ {i}
  /\ gui' = gui \o UnloadEvents(i)
  /\ UNCHANGED <<insts, unannounced, disk, legacy, notifyVars, commandVars, modelVars,
                 phaseVars, walletLoaded, statusVars, list, used>>

AnnounceUnlessUnregistered(i) ==
  /\ i \in unannounced
  /\ unannounced' = unannounced \ {i}
  /\ IF init # "no"
     THEN pending' = Append(pending, i) /\ gui' = Append(gui, PlainEvent("consume"))
     ELSE UNCHANGED <<pending, gui>>
  /\ UNCHANGED <<insts, loaded, disk, legacy, consuming, commandVars, modelVars, phaseVars,
                 walletLoaded, statusVars, list, used>>

\* The handler, called by the thread that loaded the wallet.
Announce(i) ==
  /\ i \in unannounced
  /\ unannounced' = unannounced \ {i}
  /\ IF init # "no" /\ ~shuttingDown
     THEN pending' = Append(pending, i) /\ gui' = Append(gui, PlainEvent("consume"))
     ELSE UNCHANGED <<pending, gui>>
  /\ UNCHANGED <<insts, loaded, disk, legacy, consuming, commandVars, modelVars, phaseVars,
                 walletLoaded, statusVars, list, used>>

----------------------------------------------------------------------------
(* The selector's list: setWalletLoadState. *)

ListOpen(l, n) ==
  [open |-> l.open \cup {n},
   loading |-> IF l.loading = n THEN NoName ELSE l.loading,
   error |-> IF l.error = n THEN NoName ELSE l.error]

ListClosed(l, ns) ==
  [open |-> l.open \ ns,
   loading |-> IF l.loading \in ns THEN NoName ELSE l.loading,
   error |-> IF l.error \in ns THEN NoName ELSE l.error]

ListLoading(l, n) == [l EXCEPT !.loading = n, !.error = NoName]

ListError(l, n) == [l EXCEPT !.loading = NoName, !.error = n]

----------------------------------------------------------------------------
(* Wallet models come and go. *)

NewModel(i) ==
  [inst |-> i, state |-> "open", remove |-> FALSE, subscribed |-> i \in loaded]

AddWithoutLookup(i) ==
  LET n == insts[i].name
  IN /\ models' = Append(models, NewModel(i))
     /\ open' = Append(open, Len(models) + 1)
     /\ selected' = Len(models) + 1
     /\ walletLoaded' = TRUE
     /\ list' = ListOpen(list, n)

\* addOrSelectWalletModel, before shutdown: its shutdown branch is not
\* reached, since neither a result nor a notification is handled after it.
AddOrSelect(i) ==
  LET n == insts[i].name
  IN /\ IF OpenWithName(n) # {}
        THEN /\ selected' \in OpenWithName(n)
             /\ UNCHANGED <<models, open>>
        ELSE /\ models' = Append(models, NewModel(i))
             /\ open' = Append(open, Len(models) + 1)
             /\ selected' = Len(models) + 1
     /\ walletLoaded' = TRUE
     /\ list' = ListOpen(list, n)

KeepWallets == UNCHANGED <<models, open, selected, walletLoaded>>

NeverHeldBack(i) == FALSE
\* Whether a wallet about to be published is one a multi-step creation holds back.
HeldBack(i) == deferred = insts[i].name

\* retireWallet for the models ks; their own shutdown task releases the
\* wallet, removing it from the node if asked to.
Retire(ks, remove) ==
  /\ models' = [k \in DOMAIN models |->
                  IF k \in ks THEN [models[k] EXCEPT !.state = "retiring", !.remove = remove]
                  ELSE models[k]]
  /\ retiringNames' = retiringNames \cup {Name(k) : k \in ks \ {Empty}}

\* m_wallets after the model k is erased.
Without(k) == RemoveAt(open, CHOOSE i \in DOMAIN open : open[i] = k)

RemoveKeepingSelection(k, remove) ==
  LET rest == Without(k)
  IN /\ open' = rest
     /\ selected' = selected
     /\ walletLoaded' = (rest # <<>>)
     /\ list' = ListClosed(list, {Name(k)})
     /\ Retire({k}, remove)

\* removeWalletModel for a model in m_wallets.
RemoveModel(k, remove) ==
  LET rest == Without(k)
  IN /\ open' = rest
     /\ selected' = IF selected # k THEN selected
                    ELSE IF rest # <<>> THEN Head(rest) ELSE Empty
     /\ walletLoaded' = (rest # <<>>)
     /\ list' = ListClosed(list, {Name(k)})
     /\ Retire({k}, remove)

\* The executor of a retiring model runs its last task and drains.
ReleaseModel(k) ==
  LET i == models[k].inst
  IN /\ models[k].state = "retiring"
     /\ models' = [models EXCEPT ![k].state = "released"]
     /\ loaded' = IF models[k].remove THEN loaded \ {i} ELSE loaded
     /\ gui' = gui \o (IF models[k].remove THEN UnloadEvents(i) ELSE <<>>)
                   \o <<ModelEvent("drained", k)>>
     /\ UNCHANGED <<insts, unannounced, disk, legacy, notifyVars, commandVars, open, selected,
                    retiringNames, phaseVars, walletLoaded, statusVars, list, used>>

----------------------------------------------------------------------------
(* initialize: the handler is registered first, then the wallets listed.   *)

RegisterHandler ==
  /\ GuiIdle /\ init = "no" /\ ~shuttingDown
  /\ init' = "listing"
  /\ UNCHANGED <<nodeVars, notifyVars, commandVars, gui, modelVars, shuttingDown, complete,
                 cleanup, walletLoaded, statusVars, list, used>>

\* The node's wallets, in the order they were loaded.
InLoadOrder(S) ==
  {ws \in [1..Cardinality(S) -> S] :
     ToSet(ws) = S /\ \A i, j \in DOMAIN ws : i < j => ws[i] < ws[j]}

FrontWalletWithoutCheck(ws) == Len(models) + 1
\* The wallet initialize selects among the ones it lists.
FrontWallet(ws) == IF ws = <<>> THEN Empty ELSE Len(models) + 1

ListWallets ==
  /\ init = "listing"
  /\ init' = "done"
  /\ \E ws \in InLoadOrder(loaded) :
       /\ models' = models \o [j \in 1..Len(ws) |-> NewModel(ws[j])]
       /\ open' = [j \in 1..Len(ws) |-> Len(models) + j]
       /\ selected' = FrontWallet(ws)
       /\ walletLoaded' = (ws # <<>>)
       /\ list' = [list EXCEPT !.open = {insts[i].name : i \in loaded}]
  /\ UNCHANGED <<nodeVars, notifyVars, commandVars, gui, retiringNames, shuttingDown, complete,
                 cleanup, statusVars, used>>

----------------------------------------------------------------------------
(* User operations. *)

UserMay == GuiIdle /\ used.selections < MaxSelections
CountSelection == used' = [used EXCEPT !.selections = @ + 1]
CommandMay(kind) == GuiIdle /\ Initialized /\ kind \in Kinds /\ used.commands < MaxCommands

Submit(task) ==
  /\ commands' = Append(commands, task)
  /\ used' = [used EXCEPT !.commands = @ + 1]
  /\ UNCHANGED <<retained, cmd>>

ClearLoadStatus == loadInProgress' = FALSE
ClearMigrationStatus == migrating' = FALSE

\* setSelectedWallet of a wallet that is still closing, or is open.
SelectClosing(n) ==
  /\ UserMay /\ n \in retiringNames
  /\ list' = ListError(list, n)
  /\ CountSelection
  /\ UNCHANGED <<nodeVars, notifyVars, commandVars, gui, modelVars, phaseVars, walletLoaded, statusVars>>

SelectOpen(n) ==
  /\ UserMay /\ Initialized
  /\ n \notin retiringNames /\ OpenWithName(n) # {}
  /\ ClearLoadStatus
  /\ selected' \in OpenWithName(n)
  /\ CountSelection
  /\ UNCHANGED <<nodeVars, notifyVars, commandVars, gui, models, open, retiringNames, phaseVars,
                 walletLoaded, migrating, deferred, list>>

\* startWalletLoad, for a wallet the directory lists.
StartLoad(n) ==
  /\ CommandMay("load")
  /\ n \notin retiringNames /\ OpenWithName(n) = {}
  /\ n \in disk \ legacy
  /\ loadInProgress' = TRUE /\ migrating' = FALSE
  /\ list' = ListLoading(list, n)
  /\ Submit(Task("load", n))
  /\ UNCHANGED <<nodeVars, notifyVars, gui, modelVars, phaseVars, walletLoaded, deferred>>

\* clearWalletLoadStatus and clearWalletMigrationStatus as QML calls them,
\* and the operations that end after them: selecting a wallet that needs
\* migration or is not there, importing from a missing path.
ClearStatus ==
  /\ UserMay
  /\ \/ loadInProgress /\ ClearLoadStatus /\ migrating' \in {migrating, FALSE}
     \/ migrating /\ ClearMigrationStatus /\ UNCHANGED loadInProgress
  /\ CountSelection
  /\ UNCHANGED <<nodeVars, notifyVars, commandVars, gui, modelVars, phaseVars, walletLoaded,
                 deferred, list>>

NameAvailable(n) == n \notin disk /\ OpenWithName(n) = {}

\* createExternalSignerWallet does not look at m_wallet_load_in_progress.
MayCreate(kind) == loadInProgress => kind = "signer"

\* createSingleSigWallet, createExternalSignerWallet and createWatchOnlyWallet.
Create(kind, n) ==
  /\ CommandMay(kind) /\ kind \in {"create", "signer", "watch"}
  /\ MayCreate(kind)
  /\ NameAvailable(n)
  /\ deferred' = IF kind = "watch" THEN n ELSE deferred
  /\ loadInProgress' = TRUE /\ migrating' = FALSE
  /\ Submit(Task(kind, n))
  /\ UNCHANGED <<nodeVars, notifyVars, gui, modelVars, phaseVars, walletLoaded, list>>

\* importWallet of a backup file whose name suggests n.
Import(n) ==
  /\ CommandMay("import")
  /\ loadInProgress' = TRUE /\ migrating' = FALSE
  /\ Submit(Task("import", n))
  /\ UNCHANGED <<nodeVars, notifyVars, gui, modelVars, phaseVars, walletLoaded, deferred, list>>

Migrate(n) ==
  /\ CommandMay("migrate")
  /\ n \in disk
  /\ loadInProgress' = FALSE /\ migrating' = TRUE
  /\ Submit(Task("migrate", n))
  /\ UNCHANGED <<nodeVars, notifyVars, gui, modelVars, phaseVars, walletLoaded, deferred, list>>

CloseWallet(n) ==
  /\ UserMay /\ Initialized
  /\ ClearLoadStatus /\ ClearMigrationStatus
  /\ \E k \in OpenWithName(n) : RemoveModel(k, TRUE)
  /\ CountSelection
  /\ UNCHANGED <<nodeVars, notifyVars, commandVars, gui, phaseVars, deferred>>

BeginShutdown ==
  /\ GuiIdle /\ ~shuttingDown /\ MaxShutdowns > 0
  /\ shuttingDown' = TRUE
  /\ open' = <<>> /\ selected' = Empty
  /\ walletLoaded' = FALSE
  /\ list' = ListClosed(list, {Name(k) : k \in Open})
  /\ Retire(Open \cup {Empty}, FALSE)
  /\ cmd' = "stopping"
  /\ cleanup' = "cleaning"
  /\ UNCHANGED <<nodeVars, notifyVars, commands, retained, gui, init, complete, statusVars, used>>

----------------------------------------------------------------------------
(* The command executor. *)

\* What the node needs for the command to succeed.
CanSucceed(task) ==
  CASE task.kind = "load" -> task.name \in disk \ legacy
    [] task.kind = "migrate" -> task.name \in legacy
    [] OTHER -> task.name \notin disk

\* The result of the running command is posted unless shutdown() was called;
\* then the worker keeps it until the executor drains.
FinishCommand(task, outcome, events) ==
  /\ commands' = Tail(commands)
  /\ IF shuttingDown
     THEN gui' = gui \o events /\ retained' = retained \cup ({task.inst} \ {0})
     ELSE gui' = gui \o events \o <<ResultEvent(task, outcome)>> /\ UNCHANGED retained

\* An error or an exception; only creations tell them apart.
CommandFails(outcome) ==
  /\ commands # <<>> /\ Head(commands).inst = 0
  /\ outcome = "exception" => Head(commands).kind \in {"create", "signer", "watch"}
  /\ FinishCommand(Head(commands), outcome, <<>>)
  /\ UNCHANGED <<nodeVars, notifyVars, cmd, modelVars, phaseVars, walletLoaded, statusVars, list, used>>

CommandLoads ==
  /\ commands # <<>> /\ Head(commands).inst = 0
  /\ CanSucceed(Head(commands))
  /\ AddToNode(Head(commands).name, Head(commands).kind # "watch")
  /\ commands' = <<[Head(commands) EXCEPT !.inst = Len(insts) + 1]>> \o Tail(commands)
  /\ UNCHANGED <<notifyVars, retained, cmd, gui, modelVars, phaseVars, walletLoaded, statusVars,
                 list, used>>

\* The loader returns, after the handlers; a watch-only wallet is set up.
CommandReturns ==
  LET task == Head(commands)
  IN /\ commands # <<>> /\ task.inst # 0 /\ task.inst \notin unannounced
     /\ insts' = [insts EXCEPT ![task.inst].setUp = TRUE]
     /\ FinishCommand(task, "wallet", <<>>)
     /\ UNCHANGED <<loaded, unannounced, disk, legacy, notifyVars, cmd, modelVars, phaseVars,
                    walletLoaded, statusVars, list, used>>

\* The descriptors of a watch-only wallet cannot be imported: it is removed.
SetupFails ==
  LET task == Head(commands)
  IN /\ commands # <<>> /\ task.kind = "watch" /\ task.inst # 0 /\ task.inst \notin unannounced
     /\ loaded' = loaded \ {task.inst}
     /\ FinishCommand(task, "error", UnloadEvents(task.inst))
     /\ UNCHANGED <<insts, unannounced, disk, legacy, notifyVars, cmd, modelVars, phaseVars,
                    walletLoaded, statusVars, list, used>>

\* After the last command the stop event drops what the worker retained.
CommandsDrain ==
  /\ cmd = "stopping" /\ commands = <<>>
  /\ cmd' = "posted"
  /\ retained' = {}
  /\ gui' = Append(gui, PlainEvent("commandsDrained"))
  /\ UNCHANGED <<nodeVars, notifyVars, commands, modelVars, phaseVars, walletLoaded, statusVars,
                 list, used>>

\* The task of m_notification_cleanup_executor.
CleanUpNotifications ==
  /\ cleanup = "cleaning"
  /\ cleanup' = "posted"
  /\ pending' = <<>>
  /\ gui' = Append(gui, PlainEvent("cleanupDrained"))
  /\ UNCHANGED <<nodeVars, consuming, commandVars, modelVars, init, shuttingDown, complete,
                 walletLoaded, statusVars, list, used>>

----------------------------------------------------------------------------
(* Events of the GUI thread. *)

Event(type) ==
  /\ GuiIdle /\ gui # <<>> /\ Head(gui).type = type
  /\ gui' = Tail(gui)

HandleConsumeFirst ==
  /\ Event("consume")
  /\ IF shuttingDown \/ pending = <<>> THEN UNCHANGED notifyVars
     ELSE consuming' = <<Head(pending)>> /\ pending' = <<>>
  /\ UNCHANGED <<nodeVars, commandVars, modelVars, phaseVars, walletLoaded, statusVars, list, used>>

\* The notification list is emptied at once; later events find nothing.
HandleConsume ==
  /\ Event("consume")
  /\ IF shuttingDown THEN UNCHANGED notifyVars
     ELSE consuming' = pending /\ pending' = <<>>
  /\ UNCHANGED <<nodeVars, commandVars, modelVars, phaseVars, walletLoaded, statusVars, list, used>>

\* handleLoadWallet for the next of the wallets taken.
ConsumeNext ==
  /\ consuming # <<>>
  /\ consuming' = Tail(consuming)
  /\ IF HeldBack(Head(consuming)) THEN KeepWallets /\ UNCHANGED list
     ELSE AddOrSelect(Head(consuming))
  /\ UNCHANGED <<nodeVars, pending, commandVars, gui, retiringNames, phaseVars, statusVars, used>>

\* Which name is still held back after a creation's result was handled.
ResultDeferred(task, outcome) ==
  IF task.kind \notin {"create", "signer", "watch"} THEN deferred
  ELSE IF outcome = "exception" \/ deferred = task.name THEN NoName
  ELSE deferred

ResetOnSuccessOnly(task, outcome) ==
  IF task.kind = "migrate" \/ outcome # "wallet" THEN loadInProgress ELSE FALSE
ResultInProgress(task, outcome) == IF task.kind = "migrate" THEN loadInProgress ELSE FALSE

\* The callbacks of a command: result, error and exception.
HandleResult ==
  /\ Event("result")
  /\ ~shuttingDown
  /\ LET task == Head(gui).task
         outcome == Head(gui).outcome
     IN /\ loadInProgress' = ResultInProgress(task, outcome)
        /\ migrating' = IF task.kind = "migrate" THEN FALSE ELSE migrating
        /\ deferred' = ResultDeferred(task, outcome)
        /\ \/ /\ outcome = "wallet"
              /\ IF task.kind = "migrate" /\ HeldBack(task.inst)
                 THEN KeepWallets /\ UNCHANGED list
                 ELSE AddOrSelect(task.inst)
           \/ /\ outcome # "wallet"
              /\ KeepWallets
              /\ list' = IF task.kind = "load" THEN ListError(list, task.name) ELSE list
  /\ UNCHANGED <<nodeVars, notifyVars, commandVars, retiringNames, phaseVars, used>>

\* The executor was stopped after it posted the result.
DropResult ==
  /\ Event("result")
  /\ shuttingDown
  /\ retained' = IF cmd = "stopping" THEN retained \cup ({Head(gui).task.inst} \ {0}) ELSE retained
  /\ UNCHANGED <<nodeVars, notifyVars, commands, cmd, modelVars, phaseVars, walletLoaded,
                 statusVars, list, used>>

\* The bridge of the model: walletUnloaded is emitted, to a queued connection.
HandleUnload ==
  /\ GuiIdle /\ gui # <<>> /\ Head(gui).type = "unload"
  /\ gui' = IF models[Head(gui).model].state = "open"
            THEN Append(Tail(gui), ModelEvent("remove", Head(gui).model))
            ELSE Tail(gui)
  /\ UNCHANGED <<nodeVars, notifyVars, commandVars, modelVars, phaseVars, walletLoaded,
                 statusVars, list, used>>

HandleRemove ==
  /\ Event("remove")
  /\ IF Head(gui).model \in Open THEN RemoveModel(Head(gui).model, FALSE)
     ELSE KeepWallets /\ UNCHANGED <<retiringNames, list>>
  /\ UNCHANGED <<nodeVars, notifyVars, commandVars, phaseVars, statusVars, used>>

CheckBeforeRemoval(ms, c, n) ==
  /\ shuttingDown /\ c = "drained" /\ n = "drained"
  /\ \A k \in DOMAIN models : models[k].state \in {"open", "gone"}

\* checkShutdownFinished, with the state as the caller leaves it.
CheckShutdownFinished(ms, c, n) ==
  /\ shuttingDown /\ c = "drained" /\ n = "drained"
  /\ \A k \in DOMAIN ms : ms[k].state \in {"open", "gone"}

FreeClosingName(k) == IF k = Empty THEN retiringNames ELSE retiringNames \ {Name(k)}

\* shutdownFinished of a retiring model.
HandleModelDrained ==
  /\ Event("drained")
  /\ LET k == Head(gui).model
     IN /\ models' = [models EXCEPT ![k].state = "gone"]
        /\ retiringNames' = FreeClosingName(k)
  /\ complete' = (complete \/ CheckShutdownFinished(models', cmd, cleanup))
  /\ UNCHANGED <<nodeVars, notifyVars, commandVars, open, selected, init, shuttingDown, cleanup,
                 walletLoaded, statusVars, list, used>>

HandleCommandsDrained ==
  /\ Event("commandsDrained")
  /\ cmd' = "drained"
  /\ complete' = (complete \/ CheckShutdownFinished(models, "drained", cleanup))
  /\ UNCHANGED <<nodeVars, notifyVars, commands, retained, modelVars, init, shuttingDown, cleanup,
                 walletLoaded, statusVars, list, used>>

HandleCleanupDrained ==
  /\ Event("cleanupDrained")
  /\ cleanup' = "drained"
  /\ complete' = (complete \/ CheckShutdownFinished(models, cmd, "drained"))
  /\ UNCHANGED <<nodeVars, notifyVars, commandVars, modelVars, init, shuttingDown,
                 walletLoaded, statusVars, list, used>>

----------------------------------------------------------------------------

User ==
  \/ \E n \in Names : SelectClosing(n) \/ SelectOpen(n) \/ StartLoad(n) \/ CloseWallet(n)
  \/ \E n \in Names : Import(n) \/ Migrate(n) \/ \E kind \in Kinds : Create(kind, n)
  \/ ClearStatus
  \/ BeginShutdown

GuiStep ==
  \/ RegisterHandler \/ ListWallets
  \/ HandleConsume \/ ConsumeNext \/ HandleResult \/ DropResult
  \/ HandleUnload \/ HandleRemove \/ HandleModelDrained
  \/ HandleCommandsDrained \/ HandleCleanupDrained

CommandStep ==
  \/ \E outcome \in {"error", "exception"} : CommandFails(outcome)
  \/ CommandLoads \/ CommandReturns \/ SetupFails \/ CommandsDrain

Rpc ==
  \/ \E n \in RpcNames : RpcLoad(n)
  \/ \E i \in Instances : RpcUnload(i)

Next ==
  \/ User
  \/ GuiStep
  \/ CommandStep
  \/ CleanUpNotifications
  \/ \E i \in Instances : Announce(i)
  \/ \E k \in DOMAIN models : ReleaseModel(k)
  \/ Rpc

Spec == Init /\ [][Next]_vars

\* The GUI event loop runs, the node's calls return and every thread is
\* scheduled; neither the user nor an RPC client has to do anything.
FairSpec ==
  /\ Spec
  /\ WF_vars(GuiStep) /\ WF_vars(CommandStep) /\ WF_vars(CleanUpNotifications)
  /\ WF_vars(\E i \in Instances : Announce(i))
  /\ WF_vars(\E k \in DOMAIN models : ReleaseModel(k))

----------------------------------------------------------------------------
(* Properties *)

\* Every variable stays in the set of values the code can give it.
TypeOK ==
  /\ \A i \in Instances : insts[i] \in [name : Names, setUp : BOOLEAN]
  /\ loaded \subseteq Instances /\ unannounced \subseteq Instances
  /\ disk \subseteq Names /\ legacy \subseteq disk
  /\ ToSet(pending) \cup ToSet(consuming) \subseteq Instances
  /\ \A i \in DOMAIN commands :
       commands[i] \in [kind : Kinds, name : Names, inst : {0} \cup Instances]
  /\ retained \subseteq Instances
  /\ cmd \in {"open", "stopping", "posted", "drained"}
  /\ cleanup \in {"none", "cleaning", "posted", "drained"}
  /\ \A k \in DOMAIN models :
       models[k] \in [inst : {0} \cup Instances, state : {"open", "retiring", "released", "gone"},
                      remove : BOOLEAN, subscribed : BOOLEAN]
  /\ Open \subseteq DOMAIN models \ {Empty} /\ selected \in DOMAIN models
  /\ retiringNames \subseteq Names
  /\ init \in {"no", "listing", "done"} /\ shuttingDown \in BOOLEAN /\ complete \in BOOLEAN
  /\ walletLoaded \in BOOLEAN /\ loadInProgress \in BOOLEAN /\ migrating \in BOOLEAN
  /\ deferred \in Names \cup {NoName}
  /\ list.open \subseteq Names /\ {list.loading, list.error} \subseteq Names \cup {NoName}

\* Views never see a selected wallet that is no longer open, whatever closes
\* it, and isWalletLoaded says whether any wallet is open.
SelectedIsOpen ==
  /\ selected = Empty \/ selected \in Open
  /\ walletLoaded <=> open # <<>>
  /\ open # <<>> => selected # Empty

\* No wallet has two open models, though its load is announced by the node,
\* listed by initialize and returned by the command that loaded it.
OneModelPerName ==
  \A j, k \in Open : Name(j) = Name(k) => j = k

\* No wallet the node has loaded is overlooked: it is shown, being announced,
\* on its way to the GUI thread, or being closed.
\* It fails where an RPC client may create a wallet under the
\* name that is held back: handleLoadWallet drops its notification,
\* the GUI's own creation fails because the wallet exists, and no result brings
\* it either.  So RpcNames \subseteq OnDisk where this is checked and proved.
LoadedWalletTracked ==
  Initialized =>
    \A i \in loaded :
      \/ i \in unannounced \cup ToSet(pending) \cup ToSet(consuming) \cup ResultInsts
      \/ \E k \in DOMAIN models :
           models[k].inst = i /\ (models[k].state = "open" \/ models[k].state = "retiring")

\* An open wallet that the node has unloaded is being closed
\* (initializedControllerHandlesExternalWalletUnload).
UnloadedWalletCloses ==
  \A k \in Open :
    models[k].inst \notin loaded =>
      \E i \in DOMAIN gui : gui[i] \in {ModelEvent("unload", k), ModelEvent("remove", k)}

\* While its name is held back, a watch-only wallet that is still being set
\* up is not shown.
HeldBackNotShown ==
  \A k \in Open : insts[models[k].inst].setUp \/ deferred # Name(k)

\* Whatever the user, the worker and RPC clients do to wallets at the same time,
\* the controller's models are the wallets of the node: each once, none
\* overlooked, and the selected one among them.
WalletsAreTracked ==
  /\ TypeOK
  /\ SelectedIsOpen
  /\ OneModelPerName
  /\ LoadedWalletTracked
  /\ HeldBackNotShown

\* walletsDrained means it: no model, command, result or notification holds a
\* wallet any more when the node is allowed to go down.
DrainedHoldsNoWallet ==
  complete =>
    /\ commands = <<>> /\ retained = {}
    /\ pending = <<>> /\ consuming = <<>>
    /\ \A k \in DOMAIN models : models[k].state = "gone"

\* Shutdown ends, also with commands queued and wallets closing.
ShutdownCompletes == shuttingDown ~> complete

\* A load, creation or import comes back to the user.
LoadComesBack == loadInProgress ~> (~loadInProgress \/ shuttingDown)

\* Neither the user's load nor the application's exit waits for ever.
WalletWorkEnds == ShutdownCompletes /\ LoadComesBack

=============================================================================
