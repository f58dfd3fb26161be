# A TLA+ verification of the Bitcoin Core QML GUI

This directory specifies the logic of `bitcoin-core/gui-qml`: the
C++ code under `qml/` that lets a Qt Quick user interface use a Bitcoin Core
node and its wallets without ever blocking the GUI thread. The specifications
are model-checked with TLC on small instances. The safety of the executor that
everything else rests on, of starting and stopping the node, of the wallets
that are open, of sending, of editing settings and of the pause shown is
proved with TLAPS for every value of the constants. `PROJECT.json` maps every
definition to the lines it models, and lists the runs, their properties, the
hazards and the theorems.

Paths below are relative to the repository root.

## 1. The system

One process holds the GUI thread, the node's own threads, and a number of
worker threads. The rule of the code base is that nothing which can block (a
call of `interfaces::Node` or `interfaces::Wallet`, a file write) runs on the
GUI thread. Work is handed to a `BackendExecutor`, results come back as queued
events, and the node's callbacks, which come on any thread, are turned into
queued events too. What is hard is everything that can happen between a
submission and its result.

### Components, their state and operations

| Component | Code | State | Operations |
| --- | --- | --- | --- |
| BackendExecutor | `qml/backendexecutor.*`, `qml/asyncjoin.h` | task ids, tasks retained by the worker, completions on the GUI side, stopping, global registry, joins | submit, run, complete, release, shutdown, destroy, shutdownAll, join |
| QmlInitExecutor | `qml/initexecutor.*` | request flags, the block clock subscription, whether the node threw | initialize, interrupt, shutdown and their results |
| QmlShutdownCoordinator | `qml/shutdowncoordinator.*` | participants before and after the interruption, pending counter | request, participant finished, drain |
| NodeModel | `qml/models/nodemodel.*` | readiness, shutdown and fatal-error flags, shown peers, warnings and pause, mailbox of notifications with two generation counters, pending snapshot and command | notifications, snapshots, setPause, polling for a stop of the node, runtime dialogs, sync progress, mempool polling |
| WalletQmlController, WalletListModel | `qml/walletqmlcontroller.*`, `qml/models/walletlistmodel.*` | open and retiring wallet models, selected wallet, command queue, pending load notifications, progress flags, held-back name | load, create, import, migrate, select, close, external load and unload, shutdown |
| WalletQmlModel | `qml/models/walletqmlmodel.*` | one wallet: payment requests and received payments, fee estimates, current transaction, security state | requests, send flow, PSBT, fee bumping, encryption, shutdown |
| OptionsQmlModel, CoreSettingsModel | `qml/models/options_model.*`, `qml/models/core_settings_model.*`, `qml/core_settings.*` | shown values, revision, pending commands, error, validation | setters, data directory selection, path validation, reload, shutdown |
| TransactionActivityModel and filters | `qml/models/transactionactivity*`, `activityfilterproxymodel.*` | rows of transactions and requests | reload, incremental update, filter |
| RPC console | `qml/models/rpcconsolemodel.*`, `rpccommandexecutor.*` | history, running command | execute, cancel, clear |
| Peers, bans, traffic | `qml/models/peer*`, `banlistmodel.*`, `networktraffictower.*` | polled tables | refresh, disconnect, ban |
| Block clock | `qml/models/blockclock*`, `qml/components/blockclockdial.cpp` | history of blocks of the period, the dial's timers | block connected and disconnected, next period, animation |
| Debug log | `qml/models/debuglogmodel.*` | tail of a file, its offset and half line, the read in flight | follow, load more, filter |
| Onboarding and migration | `qml/onboarding_*`, `qml/models/onboardingoptionsmodel.*`, `qml/legacy_settings_migration.*`, `qml/datadir.*` | draft settings | validate, commit, migrate |
| Amounts, units, URIs, addresses | `qml/bitcoinamount.*`, `qml/bitcoinunits.*`, `qml/models/bitcoinuri*` | none | parse, format |
| Tray, window, images, files | `qml/models/desktop*`, `qml/*provider.*` | platform state | platform calls |
| QML pages | `qml/pages`, `qml/components`, `qml/controls` | presentation | calls of the models |

External, and modelled only as far as the code above uses them: the Qt event
loop and `QThread`, and Bitcoin Core's `interfaces::Node`/`interfaces::Wallet`
(a submodule that is not part of the repository).

### Interaction

* `run()` (`qml/bitcoin.cpp`) wires the application. NodeModel asks
  QmlInitExecutor to initialize the node; a request to quit, from the user or
  from the node, goes to QmlShutdownCoordinator, which drains the options and
  settings models, has the node interrupted, drains NodeModel, the wallets and
  the RPC console, and has the node shut down. `run()` returns when
  QmlInitExecutor announces the end.
* Every model that talks to the node owns a BackendExecutor and counts as
  drained when that executor is.
* Node notifications enter through handlers registered with
  `interfaces::Node`/`interfaces::Wallet`, are put into a mailbox or a list
  under a mutex, and post one queued event.
* Settings are shared: OptionsQmlModel and the wallet code save the same
  `settings.json` from different threads.

### What is hard here

Completions that arrive after a newer notification, edit or request; a
shutdown between any two of submit, run, complete and release; an object that
dies inside its own callback; the order of the steps that take the node down,
with exceptions at each of them; wallets that another RPC client loads or
unloads while the GUI does the same; wake-ups that must not be lost; a save
that fails after it changed memory. Each is listed in `PROJECT.json`
("hazards") at its line with the properties that would catch it.

## 2. Modules

| Module | Models | Kind |
| --- | --- | --- |
| `BackendExecutor` | executors, their threads and event queues, joins, the final drain | specification |
| `SerialExecutor` | what users of an executor rely on | abstract specification |
| `ExecutorProofs` | `BackendExecutor`: types and safety, refinement of `SerialExecutor`; `NodeStatus`: the pause shown | proofs |
| `Lifecycle` | QmlInitExecutor, QmlShutdownCoordinator, NodeModel's shutdown logic, `run()` | composition |
| `Onboarding` | the wizard before the node starts: previews, disk checks, prune recommendation, preparation | specification |
| `RuntimeDialogs` | message boxes and questions of the node's threads | specification |
| `StartupSettings` | what a start reads, migrates and writes, over several starts with failures and crashes | specification |
| `NodeStatus` | NodeModel's status, warnings and pause command | specification |
| `NodeSync`, `MempoolPolling` | NodeModel's tips and completion of the synchronization; the polled mempool figures | specifications |
| `WalletController` | WalletQmlController, WalletListModel, life and death of wallet models | specification |
| `ReceiveRequests` | payment requests and received payments of WalletQmlModel | specification |
| `FeeEstimates` | the send form, coin selection and fee previews | specification |
| `Spending` | prepare, review, sign, send, PSBT, fee bump, unlocking, encryption, signing messages | specification |
| `Activity` | the activity list, its reads on the executor and its filter | specification |
| `WalletFigures` | activities and flow of a transaction, amounts in every unit | functions |
| `OptionsModel` | OptionsQmlModel, CoreSettingsModel, PersistSettings | specification |
| `DebugLog` | the log viewer with its reader thread | specification |
| `RpcConsole`, `RpcParser` | the console; the parser of a command line and what it hides | specifications |
| `BlockClock`, `ClockDial` | the history of blocks; the dial's timers, painting and segments | specifications |
| `Traffic`, `Peers` | the traffic worker and its graph; the peer list and the details that point into it | specifications |
| `MC*` | the instances that TLC runs | model checking |
| `StartupProofs` | safety of `Lifecycle`, and of `RuntimeDialogs` and `Onboarding` as parts of `MCStartup` | proofs |
| `WalletControllerProofs` | safety of `WalletController` and of `ReceiveRequests` | proofs |
| `SpendingProofs`, `OptionsModelProofs` | safety of the module they are named after | proofs |
| `WalletPagesProofs` | the parts of `MCWalletPages`: what is proved of `Spending`, the activity list, the send form | proofs |
| `NodePagesProofs` | the parts of `MCNodePages`: `Peers`, `ClockDial`, `NodeSync`, `MempoolPolling`, `BlockClock` | proofs |
| `ConsoleSettingsProofs` | the parts of `MCNodePages`: `RpcParser`, `RpcConsole`, `StartupSettings` | proofs |

A module with `MC` runs one specification, except three that hold several which
share no state: `MCStartup`, `MCWalletPages` and `MCNodePages`. A behaviour of
those is a behaviour of one of their parts, named by `part`; a property says
what it says of its part. In `MCWalletPages` and `MCNodePages` the parts are
instances over the same variables `v1`, `v2` and so on, which keeps the states
as small as each part needs.

Many properties are conjunctions of named parts (`LifecycleIsSafe`,
`WalletsAreTracked`, `EditsAreKept`, ...): the type invariant and several
invariants of one component, each with its own comment and, where it can be
broken by one slip, its own mutant.

### BackendExecutor

An executor has an `owner` (unborn, alive or destroyed), a worker thread with an
`inbox` (run, release and stop events in posting order), a set of `retained`
tasks and a set of completions on the GUI side; the GUI thread has one queue
for all executors. `Submit`, `Shutdown`, `Destroy` and `ShutdownAll` are calls
on the GUI thread, also from inside a completion callback (`active` is the
callback being executed); `RunTask`, `ReleaseTask`, `StopWorker` are the
worker's events; `HandleCompleted` is the GUI slot, which drops what shutdown
has orphaned. The end of a thread goes through `ThreadFinished`,
`HandleFinished`, an asynchronous join (`asyncjoin.h`) and `HandleJoined`, and
`NotifyIfDrained` calls the waiters of `shutdownAll` when no executor and no
join is left. Data is a task id; a receiver may die at any time
(`DestroyReceiver`).

`SerialExecutor` has four variables per executor (phase and three counters).
`ImplementsSerialExecutor` is the refinement with the mapping in the last lines
of `BackendExecutor`; the other modules use executors as `SerialExecutor`
describes them and do not repeat their threads.

### Lifecycle

Two executors (initialization/shutdown, and interruption), the coordinator's two
phases, NodeModel's request flags and stop polling, the node (`base`, `up`,
`down` and so on) and the exit of `run()`. A task of the initialization executor
is split where another thread can come between: `StartInitialize`,
`AppInitMainReturns`, `CheckSubscribe`, `Subscribe`, `ReportInitialize`. Any call
of the node may throw (`InitializeThrows`, and a failing result of the other
tasks), which becomes a runaway exception. Participants may announce twice and at the wrong time
(`ParticipantFinished`).

### NodeStatus

The mailbox of `NodeModel::Notifications` with `status_generation` and
`network_generation`, at most one delivery in flight, one status snapshot in
flight with one more wanted, and the pause command with its newest wish. A
snapshot reads counts and activity in separate steps, and the command's own
notification comes after its change, so each race in the comments of the code is a path
of the model.

### WalletController

A loaded wallet is an index of `insts`; RPC clients load and unload wallets at
any time; `Announce` is the node calling the load handler on its own thread. A
load reaches the GUI up to three ways (listed by `initialize`, announced, returned by
the command) and `AddOrSelect` must make one model of it. Commands run on one
executor (`CommandLoads`, `CommandReturns`, `SetupFails`, `CommandFails`).
Closing moves a model to `retiring`; its executor releases the wallet
(`ReleaseModel`) and its drained signal removes it (`HandleModelDrained`).
`BeginShutdown` retires everything and starts the cleanup of notifications;
`CheckShutdownFinished` is the one place that decides that all is over.

Two models of one wallet name can retire at once: closed, loaded again over
RPC, and closed again before the first model drained. They share one entry of
`m_retiring_wallet_names` (`qml/walletqmlcontroller.cpp:375`), so the first to
drain frees the name while the second still holds its wallet, and a load
submitted then is refused by the node rather than by the controller. The model
has this (`FreeClosingName`); no property forbids it, because a failed load is
reported and nothing is lost.

### OptionsModel

A setter shows the value, bumps the revision and submits a command that saves
(change in memory, write the file, undo in memory if that fails) and reads
everything back. `AppliedSnapshot` shows only the newest command's snapshot.
Validation of the signer path keeps one request in flight and restarts when
the path changed. `WalletSaves` is the wallet code writing the same file.

### ReceiveRequests

`scan` is the reconciliation on the executor, which lists the wallet's
transactions first and looks each one up later; `queue` is the GUI thread's
queue with transaction notifications and results in posting order; `book` is
what is recorded: payments, running totals, unconfirmed ids and the poll timer.
The payment revision is compared by a poll with the one it started from and
read by nobody else, so the model keeps the answer of that comparison
(`book.steady`). A transaction is in the mempool, confirmed, inactive
(conflicted, abandoned, replaced or out of the mempool) or absent; it leaves
the mempool with or without a notification.

What the model excuses by name: `missed`, changes made before the model
subscribed (finding 3), and `failed`, a scan that ended in an exception. After
such a failure (`qml/models/walletqmlmodel.cpp:1648`) edits are allowed although
nothing was reconciled, a repetition that was requested is forgotten, and the
notifications collected so far stay in `m_receive_reconciliation_updates`; a
later scan replays them, so a transaction noted there as deleted and added
again in between is taken out of the totals. `commitPaymentRequest` is called
by no page and is not modelled. The private note, serialization and the draft
objects of the page carry no property here.

### Onboarding and RuntimeDialogs

The wizard keeps at most one preview and one disk check in flight and numbers
the requests (`Invalidate`). A stale answer restarts the newest request. The
constructor's status task, the previews, the checks and the final preparation
share one executor, and each of them can fail or throw. `BeginShutdown` closes
the executor unless a preparation is on, whose end closes it. Directories are
a fresh one on a large disk, a fresh one on a small disk and an existing
profile with its own prune setting.

A node thread that shows a modal box or asks a question blocks until the GUI
thread's call returns. That call runs a nested event loop, which handles
further calls, so `loops` is a stack while `dialogs` is a queue. Until
initialization ends, warnings and non-modal messages are recorded and not
shown; `InitializeResult` turns them into one dialog or into the startup error.

### StartupSettings

The disk holds the GUI's own settings (data directory, reset flag), the stores of
older versions and one settings file per directory. `Start` resolves the
directory, `Choose` and `ConfirmDirectory` are the wizard's result, and the
writes come one by one (`EnsureDataDir`, `MigrateCoreSettings`,
`WriteSettingsFile`, `SaveSelection`, `PrepareReads`, `PrepareWrites`), with
`WriteFails`, `SaveFails` and, between any two of them, `Interrupt`. One core
setting stands for all. `settled` and `owed` are history: the directory of the
last completed onboarding, and the old value that must stay in force.

### NodeSync and MempoolPolling

A mailbox holds the newest block and header notification; one queued event
empties it. The result of `initialize` brings tips that may be older, and the
node reports an initial download while it loads a chain that is caught up. The
mempool timer lives on a worker thread: the GUI starts and stops it by queued
events, before the node is up as well. Once shutdown was asked for
(`RequestShutdown`) or the node failed, figures that arrive are ignored.

### FeeEstimates and Spending

Every edit of the form drops the previews, takes a new request id and restarts
the timer; the request carries a copy of the form (`Form`), against which the
property compares what is shown. The wallet's fee rates and coin selection
are external: a preview's fee depends on target, recipients and inputs, and
can fail. Coins are spent, locked and listed anew while the coin picker is open; each
new list reports its selection, and the page reschedules the estimates
(`UpdateCoins`).

`Spending` has the current transaction and PSBT of the wallet model, the review
page with its two popups (modelled from the QML that decides what a click
sends), the external signer, bumping, encryption and message signing. An
operation that needs the keys is split where the wallet works, so RPC clients
lock, unlock and unload in between; `unlocker` says who unlocked.

### Activity and WalletFigures

Work gathers in `pending`; one read runs at a time over a copy of the records;
its result counts unless a notification came meanwhile, and it reads records,
statuses and the tip in separate steps. The flag `lost` marks a read that
threw, after which the code does not retry. `WalletFigures` has no steps: its
initial states are all bounded inputs, and the properties compare the
translated functions with an independent sum or the identity. `MaxInt64` stands for
the greatest qint64 and is small, so that texts reach the clamp and the overflow of
`displayToSats`.

### DebugLog, RpcConsole, RpcParser

The log file is modelled by bytes, because offsets, half lines and blocks of
the tail read are where it can go wrong: bytes of a line, of a warning, and the
end of a line; rotation starts a new epoch, which the anchor bytes detect.

The console's rows carry the number of the command they belong to. The parser
is typed into one character at a time from the alphabet that its states tell
apart. Lines that leave brackets open are outside of `SecretsAreHidden`: the end
of the line closes only one of them, so an argument inside can stay visible
(`qml/models/rpccommandexecutor.cpp`, as the comment at the property says).

### BlockClock, ClockDial, Traffic, Peers

The worker registers for notifications, reads the ancestors of the tip and
installs them together with what was notified meanwhile (`Reconciled`), while
blocks of a small tree with a fork are connected and disconnected. The dial is
checked with its timers on a small circle, and its segments with four blocks on
a larger one. The traffic worker's averages are compared with averages taken
anew; a page's activation is numbered, and a snapshot of an earlier one is
ignored. A details object keeps a row and a pointer (`version`) that every
refresh of the list has to renew; the timer refreshes, and a page does after it
disconnected or banned a peer. The dial's delay of the connecting animation is set
only while a page creates the dial, as the QML does: a later change would stop the
animation without a repaint.

## 3. Runs

All bounds are constants of the configuration files. Values of data that the
properties do not tell apart are two or three.

| Run | Instance | Shows |
| --- | --- | --- |
| `executor` | 1 executor with 3 tasks, 2 receivers, 1 other thread, 1 waiter | order, nothing after shutdown, a drained executor ran everything, the final drain waits and comes, refinement |
| `startup` | wizard: 4 directories (fresh on a large and on a small disk, fresh with a prune setting, an old profile), 3 edits; node: 2 participants before, 3 after; dialogs: 3 calls of 2 threads | the wizard finishes with what it checked and always ends; the node goes down once, when quiet, never after it threw; shutdown ends; a stop is noticed; no dialog is lost |
| `node` | 3 events among changes and pause calls, failing snapshots | a stale snapshot never hides a notification; everything settles |
| `wallet_commands` | 2 names, 3 wallets, 2 commands (load, import, create with held-back setup) | selection, one model per wallet, no wallet overlooked |
| `wallet_shutdown` | 1 name, 2 wallets, 2 commands, shutdown | the drain is complete and comes; loads come back |
| `options_commands` | 3 settings, 3 operations, failing saves | newest edit visible, settled on what was saved, failures shown, validation ends |
| `receive_requests` | 2 transactions, 2 addresses, 2 wallet changes or faults, 2 operations | paid requests are locked and fixed; totals settle |
| `wallet_pages` | send form: 2 coins, 3 edits; spending: 3 kinds of wallet, 2 transactions, 1 RPC call; activity: 2 transactions, 2 events, 2 blocks; all transactions with up to 2 inputs and outputs, amounts up to 300 of at most 350 | fee and maximum belong to the form; only approved and signed transactions are committed; the GUI relocks; the list follows the wallet; figures add up and read back |
| `node_pages` | chain of 4; 2 mempool changes; log of 7 bytes with 1 rotation; lines of 9 characters; console with limits 2 and 3; 3 starts; 4 blocks, 2 reorganizations; 3 samples, 3 commands; 4 peers, 4 refreshes; dials of 2 and 7 units | each page at rest shows what the node has; secrets are hidden; choices survive restarts |
| `wallet_unload_race`, `options_file_race`, `receive_scan_gap` | smallest that shows it | the findings of section 5 |

Why these bounds are enough for the questions asked: a race in this code is
between one thing in flight and one or two that overtake it. Three tasks are
the least in which an executor has one task running, one completed and one
queued; the executor and a foreign thread give every order of "last executor
gone" and "last join done" (several executors are covered by the proofs); two
retirable instances of one wallet name give a wallet that closes while its
successor opens; two transactions to one address give
`recheckReceiveRequestPayments` something to find; three starts are an old
version's settings, an interrupted onboarding and the start after it; a log of
seven bytes holds lines across two blocks, a half line and a line past the limit;
nine characters hold a sensitive command nested in another with a quoted
argument. Each property is violated in its run by a plausible slip of the code
(`PROJECT.json`, "mutants"; conjunctions have several), so the bounds do let the
case happen.

In `wallet_commands`, RPC clients load only the name that is open at the start:
a client that loads the name a watch-only wallet is being created under has its
wallet dropped from the notifications (section 5, last part). Of the three
creations the run takes the one with held-back setup, which has every step of
the other two; with all five kinds in `Kinds` the same properties hold.

Deadlock is not checked: every instance ends by design when its bounds are
used up or the program has left `run()`. That everything which must happen
does happen is stated as liveness instead.

### Fairness

Weak fairness, and only for: the GUI thread handling its queue (Qt delivers
posted events), the executor threads running their tasks (they have their own
threads), the ends of threads and joins, timers that are running, and the node
sending the notifications it owes and returning from calls. Nothing is assumed
of the user or of RPC clients. In `Lifecycle` the participants are assumed to drain,
which `WalletController` and `BackendExecutor` show of themselves
(`WalletWorkEnds`, `ExecutorsDrain`). In `ReceiveRequests` and for the wizard one
condition on all steps of the program is enough, because no thread can go on
for long without the others; the wizard's includes `PrepareNode`, which QML calls
as soon as the user finished. `wallet_pages` and `node_pages` check safety only: their
properties say what is shown when nothing is under way, and where something
could hang (`PendingEstimateIsOnItsWay`, `DetailsAreOfTransaction`,
`TimerFollowsPolling`, `DialIsAlive`) that the step which goes on is under way.

## 4. Proofs

Every theorem is of a specification without fairness, for all values of the
constants that the named assumptions of its module allow. The assumptions are
about the constants only: sets of names and kinds that do not overlap, bounds
that are natural numbers, sizes, finite sets of participants and of wallets at the
start. Two theorems have a hypothesis of their own, given with them. Each
invariant below was checked by TLC on the instance of a run before it was
proved, and each is written as a conjunction of named parts with a comment.

### The executor

For arbitrary sets of executors, threads, receivers and waiters and any
`MaxTasks`:

* `TypeCorrect`: `Spec => []TypeOK`.
* `SafetyInvariant`: the inductive invariant. The properties are not inductive as they stand: that a drained executor ran
  everything depends on where its stop event is in the inbox. The invariant
  says, for every executor, five things:
  * what has run is 1, 2, 3 and so on, and the inbox holds, in order, exactly
    the ids submitted since (`QueueInv`);
  * the stop event is the last one of the inbox, and a thread that is ending, or
    an executor that is drained, is quiescent: stopping, with an empty inbox and
    nothing retained (`StopInv`);
  * a quit on its way to the GUI thread is the only one and its thread still
    runs; a join on its way is of a thread that ended (`EndInv`);
  * a completion the GUI side still holds belongs to a task the worker holds
    and whose release is not on its way, and there is none once the executor
    is stopping (`CompletionInv`);
  * queued completions are of tasks that ran, in order, and above everything
    delivered so far (`DeliveryInv`).
* From it: `RunsInOrder`, `DrainLosesNothing`, `DeliversInOrder`,
  `WorkerKeepsUndelivered` (the GUI thread never holds the last reference to a
  result it has not delivered) and the action property `NothingAfterShutdown`.
* `Refinement` (`ExecutorProofs`): `Spec => Serial!Spec`. Initial
  states map to initial states; under the invariant each action maps to one of
  `Open`, `Accept`, `Run`, `Notify`, `Stop`, `Drain` or to a stutter.

### Starting and stopping the node

`LifecycleSafety` (`Spec => []LifecycleIsSafe`) and `FatalErrorStays`, for any
finite sets of participants before and after the interruption. `LifecycleIsSafe`
is not inductive: that the node is taken down when nobody uses it rests on what
happened on two other threads before. `SafetyInv` has five parts. Each task of the
initialization executor is queued at most once, `initialize` first, and the
state of the node tells which has run (`TaskInv`). A failed node is the only
one with an exception, and from `appShutdown` on there is no subscription
(`WorkerInv`). A result still on its way to the GUI thread says what remains true
of the node when it arrives (`ResultInv`). The coordinator's counter is the number of
participants of the phase that have not drained, although they may announce
themselves twice and too early (`CoordinatorInv`, an argument about
cardinalities). And the GUI calls the node ready only before NodeModel drains
(`ReadyInv`).

### The dialogs and the wizard

`NoDialogIsLost` (`StartupSpec => []DialogsAreKept`) and `SetupFinishesChecked`
(`StartupSpec => []FinishedSelectionIsChecked`, both in `StartupProofs`), for any
threads, kinds of calls, directories and sizes, and any number of calls and
edits. `StartupSpec` is `MCSpec`, which the run checks, without its fairness.

For the dialogs, `BoxesInv` says where a call can be. The GUI's queue holds each
call once, and only calls that were made (`IdsAreCalls`, `Distinct`); a thread
that waits has its call either there or in a nested loop, never in both
(`WaitsAreHeld`), and a loop's dialog is shown, queued or answered
(`LoopsHaveDialogs`). A dialog waits in the queue only behind one that is shown
(`FirstIsShown`). The initialization has one result, and the startup error is empty until
it is handled, so that setting the error forgets no earlier one
(`InitializationEndsOnce`). A warning that has left the queue is then, until a
shutdown, with the kept ones, in the startup error or in a dialog
(`WarningsAreKept`). The hard step is `initializeResult`, which turns the kept
warnings into one dialog or one error.

For the wizard, `WizardInv` says what a request on its way is worth: one that
carries the newest id is about the selected directory, and for a disk check about
the path last previewed (`RequestsAreCurrent`). The constructor's request is the
exception: it finds the directory itself, changes the selection when it is
answered, and its failure is not compared with the newest id. Until its answer it
is the only request there is (`StatusIsAlone`), so the selection changes under
no other request. When preview and check are settled they are of the
selection (`PreviewIsOfSelection`, `StorageIsOfSelection`), and a finished
wizard stays so (`FinishedIsSettled`). Without an edit by the user, the
recommendation is the one for the directory last previewed and checked
(`RecommendationFits`). `SizesAssumption` says that sizes are natural numbers and
the default directory is one of the directories; nothing relates the sizes to
each other, as on regtest the whole chain is assumed to be smaller than the
smallest pruned one. `CallsAssumption` is about a bound of the model.

### The pause shown

`PauseStaysCurrent` (`StatusSpec => []NodeStatusIsCurrent`, in `ExecutorProofs`). A value read from the node
travels in the mailbox, in a snapshot or in the answer of a command, and each
can be overtaken. `PauseInv` says of each: it is the node's value unless a
change has not been notified yet or, for the last two, the generation they carry is no longer
`network_generation`. The comparison in the code is therefore enough, for any
number of changes, snapshots and calls of `setPause`, failing or not.

### Wallets

`ShownWalletsAreRight`, `DrainIsClean` and `NoWalletIsOverlooked`
(`WalletControllerProofs`), for any names, wallets, RPC clients and commands. The
invariant `WalletInv` follows a wallet through the hands that hold it. An event
posted to the GUI thread promises something about the model it is for and
about the node (`EventInv`); which models, lists and commands there may be depends on the phase of the
shutdown (`PhaseInv`); and the lock of the wallet's file keeps a second wallet
of one name away as long as anyone holds the first (`HeldInv`). The last is what
makes `AddOrSelect` right: two announcements of one name are of one wallet.
`NoWalletIsOverlooked` adds `TrackingInv`: every wallet that is loaded is shown,
announced, returned by a command, or closing. It needs the hypothesis
`RpcNames \subseteq OnDisk`: RPC clients load only wallets that exist. Without it
the theorem is false, as section 5 says.

### Sending

`SpendingIsApproved` and `UnlockIsUndone` (`SpendingProofs`), for any number of
transactions put up for review, RPC calls and any mix of the three kinds of wallet
(`Kinds \subseteq WalletKinds` only says that there is no fourth). What the
code checks when the user clicks is not enough by itself. That a transaction
without a PSBT is signed follows from the kind of wallet that prepared it and
from what its external signer has done since (`SignedInv`). That the user asked for it depends on which objects the
confirmations that are still open belong to (`AskedInv`). For the second theorem,
an unlocked wallet of which the GUI is the unlocker has an operation under way that
will lock it (`LockInv`). `WalletPagesProofs` carries both to `MCWalletPages`
(`OnlyApprovedIsCommitted`, `UnlockedIsLockedAgain`): the part `sends` is an
instance of the same module over other variables, and no other part moves them.

### Settings

`EditsStayKept` (`Spec => []EditsAreKept`) and `FailuresAreShown`
(`Spec => FailureIsShown`), for any settings and any number of edits, selections,
validations and saves by the wallet code. `OptionsInv` follows the commands. Those
that are not answered have the newest revisions, without a gap (`CountInv`); tasks and answers are
in the order of submission, with no data directory selection behind a command
(`OrderInv`); the answer of the newest command has the values that are saved
(`QueueInv`); the last edit of a setting that the worker has not saved has
the value shown (`SaveInv`); the running node has what is saved, except of the one
setting that is being written (`WorkerInv`). That an error is not cleared by the answer of a directory
selection follows from the order: the selection can only be under way before
the first command of a group (`FailureInv`).

### Payment requests

`PaidRequestsStayFixed` (`ReceiveSpec => PaidRequestsAreFixed`, at the end of
`WalletControllerProofs`), for any finite sets of transactions and addresses, what
they pay, and any number of requests and operations. It joins an invariant (a paid
request is locked once nothing is under way, a total is the sum of its recorded
payments) and an action property (no step edits what a paid request asks for).

That a request is locked in the end does not follow from what is locked now: a
payment may be known to the wallet and to nobody else. `LockInvariant` says of each
payment to a saved request where the knowledge of it is: in a notification that is
queued, or in the scan, which will still read it, has seen it, keeps a notification
of it for later, is to be repeated, or has failed with the failure on its way.
`QueueInv` makes that enough: the scan has one result in the queue, and a
notification that a transaction is gone, when it is there again, has one behind it
that says so.

The totals are sums over sets of transactions, which `BookInv` follows through every
change of the books: each address's total is the sum of the payments recorded
for it, and the poll timer runs exactly while a payment is unconfirmed.
A sum is a fold over a finite set. What a fold computes would be shown by induction
on the set; the proof takes a smallest set for which the claim fails instead
(`MinimalSubset`, from the well-foundedness of strict inclusion), which gives that
the fold exists, is unique and adds one element at a time (`FoldExists`,
`FoldUnique`, `TotalOK`).

### The pages of a wallet

`WalletPagesProofs` has, besides the two theorems about sending:

* `ActivityFollows` (`Spec => []ActivityFollowsWallet`). A read of the wallet takes four
  steps on the executor, and the wallet moves between them. `RecordsInv` says of
  each transaction that its record is right for a tip not older than the last one
  read, or that a notification, the retry list or the read under way will see
  to it; `ReadInv` says the same of what the read has collected so far, per stage.
  `DetailInv` says that details that are loading are asked for by pending work, or by a
  read that has not been overtaken; `RowsInv`, that rows and balance follow the
  records unless a rebuild is scheduled. `TxidsAssumption` says that a transaction is none
  of the words the model uses for the other things to do.
* `FeeIsOfTheForm` (`Spec => []FeeFollowsForm`). A preview shown is of the form as it
  stands because every edit drops the previews and raises the request's id, so a late
  answer carries an id that is no longer the newest (`SubmittedInv`); a pending estimate is
  waited for by the timer or submitted (`PendingInv`); the amount filled in as the maximum is
  the one of the preview selected (`MaximumInv`), and the preview's amounts and
  fee add up to its inputs (`PreviewOK`). Rows have ids of their own, also beside rows
  that are being removed (`RowsOK`). `CoinsAssumption` (a wallet has
  finitely many coins) and `AmountsAssumption` (amounts are natural numbers and dust is
  not zero, as a valid recipient has an amount above zero) are needed for the sums.
* `NoHiddenCoinIsSelected` (`Spec => []SelectedCoinsAreListed`), from the same invariant and
  what `cancelSelection` restores.

### The pages about the node

`NodePagesProofs` and `ConsoleSettingsProofs` prove eight of the eleven properties
of `MCNodePages`, each `Spec => []P` with the inductive invariant of its part. The
other parts leave its variables alone, so a step of `Next` is a step of the part or
a stutter. The constants are arbitrary but for the assumptions of `MCNodePages`:
numbers that are natural, a period that is not zero, choices that are none of the
words for "no choice", and for the block clock a tree of blocks with one genesis block
whose ids grow from parents to children. A fork, a block older than its parent and
any number of reorganizations are allowed.

* `DetailsPointAtTheirPeer`: the property is inductive, because each change of the
  list and the pointers that follow it are one step on the GUI thread.
* `DialKeepsAlive`: the dial remembers whether its presentation was active
  (`DialInv`), so the change that shows it is the one that repaints it, and an arc
  that should move is moving, waiting for its delay, or at its target.
* `SynchronizationIsShown`: what is not in the mailbox has been shown, and what is
  there is the newest (`MailboxInv`, `ShownInv`). The initialization's result
  was read earlier than it is applied: it may not undo a later notification, and the
  initial download it reports is ended by the notification of the newest block
  (`DownloadInv`).
* `PollingIsFollowed`: the last event queued to the worker that is not a fetch is a
  start exactly if polling is wanted; without such an event the timer runs
  exactly if polling is wanted (`Told`).
* `ActiveChainIsShown`: for each block, the last notification on its way, or the last
  one kept while the chain was read, says whether it is active (`NoticesInv`,
  `PendingInv`); of the others the cache, or the chain being read, knows (`KnownInv`). The
  chain of a block is the smallest set that holds it and the parents of its
  members (`Ancestors`), which needs no recursion, so that a block has one ancestor
  more than its parent is a lemma.
* `SecretsStayHidden`: for a line of any length, `nDepthInsideSensitive` is the number
  of frames from the outermost sensitive one to the innermost (`FramesOK`), and
  each position of a secret is in a filtered range or in the one now open
  (`RangesOK`). The parser has no recursion: it is a machine that reads one character
  at a time, so its invariant carries the argument. That reading `back()` of no
  frame is undefined in the code is an outcome of the model, not excluded.
* `CommandsRunOneByOne`: at most one command is queued, running or answered, and it is
  the last one submitted (`BusyInv`), so its answer goes below its request
  (`RowsInv`), also after rows were dropped at the top.
* `RestartsKeepChoices`: where the last completed onboarding wrote its directory
  (`SettledInv`), that memory never holds less than the file it was read from
  (`MemoryInv`), and where a value of an older version is until a settings file has it
  (`OwedInv`).

### What is only model-checked

* Liveness under fairness, which the prover does not reach: `ExecutorsDrain` (with
  `FinalDrainWaitsForThreads`, which it contains), `ExitIsOrderly`, `NodeStopNoticed`,
  `SetupEnds`, `StatusSettles`, `WalletWorkEnds`, `ValidationEnds`, `TotalsSettle`.
* `ActivityAddsUp` and `AmountsRoundTrip` of `WalletFigures`: sums over the inputs and
  outputs of a transaction and conversions digit by digit, which are inductions over
  sequences and numbers.
* `LogIsCurrent`: the tail of the log is read block by block backwards and cut into lines
  by a recursive function over bytes.
* `TrafficIsCurrent` and `SegmentsCountBlocks`: averages over windows of samples, and
  segments merged and dropped along a sequence of blocks, both computed by folds over
  sequences.

## 5. Findings

1. `wallet_unload_race`: a wallet unloaded between its load notification and the
   construction of its model stays open in the GUI for good.
2. `options_file_race`: a save that is refused because its file could not be
   written can be on disk nevertheless, when the wallet code wrote the same
   settings in between.
3. `receive_scan_gap`: a payment between the scan which the constructor of
   WalletQmlModel starts and the subscription at its end is not noticed; its
   request stays open for editing until something else refreshes it.

Met while modelling, and excepted by name in the properties concerned:

* One name is held back at a time (`qml/walletqmlcontroller.cpp:505`): a second
  watch-only creation overwrites it once the status was cleared, and the first
  wallet is then published before its setup is done. A wallet that an RPC client
  creates under the held-back name is not shown (line 1109): with a name in
  `RpcNames` that is not in `OnDisk`, TLC finds `LoadedWalletTracked` violated,
  which is why the run and the theorem take RPC clients that load existing wallets.
* An exception while options are read brings no snapshot
  (`qml/models/options_model.cpp:299`); one during a scan of requests leaves
  them editable (`walletqmlmodel.cpp:1648`); one during a read of the activity
  list is not retried.
* A tail read of the log drops a line of exactly `kMaxLogLineBytes` that starts
  at a block boundary, which an appended read keeps
  (`qml/models/debuglogmodel.cpp:588`).
* Decimals in SAT are read as digits: 1.5 becomes 15
  (`qml/bitcoinamount.cpp`, `fromDisplay`). In front of a second decimal point
  `sanitize` keeps more decimals than the unit has, and `displayToSats` reads them
  as whole units: 1.2345.6 bits becomes 2445 sats. A whole part that does not fit
  a qint64 reads as zero, a sum that does not fit overflows. The validator of the
  amount field (`qml/components/BitcoinAmountInputField.qml:76`) lets none of these
  texts through.
* A clock set back by more than a period empties the dial, because blocks below
  the retention start are not read again (`qml/models/blockclockhistory.cpp:95`).
* After samples are evicted, averages at the old end differ between the extended
  and the rebuilt history (`qml/models/networktraffictower.cpp:171`).
* Details of a disconnected peer keep a pointer into replaced data until
  `deleteLater` (`qml/models/peerdetailsmodel.h:55`).
* A migrated value that only memory holds is lost when the start is interrupted
  before `settings.json` is written (`qml/onboarding_settings.cpp:557`).

## 6. Not modelled, and the plan

Left out: QML presentation (except what the send review decides), drawing,
formatting of texts, images and platform calls (no state that a property could
be about), the tray and window behaviour (driven by the platform), the test
bridge, and Bitcoin Core itself. Within the modelled components: the address
book, the list of bans and the page for PSBT files (synchronous calls whose
result is shown), the remaining-time estimate, the individual core settings with
their labels and validation of values (one setting stands for each way of
saving), URIs and addresses (parsed by libraries), CSV export, and the
destructor of QmlInitExecutor.

The safety properties that no theorem states are those listed at the end of
section 4. A proof of `TrafficIsCurrent` or `SegmentsCountBlocks` would need lemmas
about folds over sequences like the ones that `WalletControllerProofs` has for
finite sets.
