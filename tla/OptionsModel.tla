----------------------------- MODULE OptionsModel -----------------------------
(***************************************************************************)
(* How OptionsQmlModel (qml/models/options_model.cpp) edits settings.  A   *)
(* setter shows the new value at once and gives the executor a command     *)
(* that saves it and then reads every setting back.  Only the answer of    *)
(* the newest command is shown; a save that fails takes the value back     *)
(* from the settings in memory (PersistSettings, qml/core_settings.cpp).   *)
(*                                                                         *)
(* A value is 0 or 1 and an edit is to the other one.  The executor is     *)
(* used as BackendExecutor specifies it: tasks run one at a time in the    *)
(* order of submission, their callbacks come in that order, shutdown runs  *)
(* what was accepted and delivers nothing more.                            *)
(***************************************************************************)
EXTENDS Integers, Sequences

CONSTANTS
  CoreKeys,       \* settings of this class: dbcache, par, maxmempool, signer
  SessionKeys,    \* settings of CoreSettingsModel: listen, natpmp, prune, proxy, ...
  GuiKeys,        \* settings kept in QSettings: display unit, URLs, money font
  LiveKeys,       \* settings the running node is told of: natpmp and signer
  ExplicitDataDir,\* was the data directory given by -datadir?
  MaxOperations,  \* bound on edits, selections and validations of the user
  MaxWalletSaves, \* bound on saves by the wallet code
  MayThrow        \* may a task end in an exception?

Keys == CoreKeys \cup SessionKeys \cup GuiKeys

\* The list of wallets to load, which the wallet code saves in the same file.
WalletKey == "wallet"

ASSUME KeysAssumption ==
  /\ CoreKeys \cap SessionKeys = {} /\ (CoreKeys \cup SessionKeys) \cap GuiKeys = {}
  /\ WalletKey \notin Keys /\ "load" \notin Keys
  /\ LiveKeys \subseteq CoreKeys \cup SessionKeys
ASSUME BoundsAssumption ==
  /\ {MaxOperations, MaxWalletSaves} \subseteq Nat
  /\ {MayThrow, ExplicitDataDir} \subseteq BOOLEAN

VARIABLES
  saved,   \* rw_settings and QSettings in memory
  file,    \* the same, as the files on disk have it
  live,    \* what the running node was told of LiveKeys
  wallet,  \* external: how often the wallet code saved
  gui,     \* shown values and the flags of the model
  dir,     \* data directory: saved in QSettings, shown, m_validation_pending
  signer,  \* the signer path validation
  tasks,   \* accepted by the executor and not finished; the first one runs
  worker,  \* how far the running task is
  done,    \* results on their way to the GUI thread
  outcome  \* history: how the last save of each setting ended

vars == <<saved, file, live, wallet, gui, dir, signer, tasks, worker, done, outcome>>
stores == <<saved, file, live>>

Dirs == {"default", "explicit", "other"}
ActiveDir == IF ExplicitDataDir THEN "explicit" ELSE "default"
Paths == {"good", "bad"}

Task(kind, what, value, rev) == [kind |-> kind, what |-> what, value |-> value, rev |-> rev]
IdleWorker == [step |-> "idle", before |-> 0, error |-> FALSE]

\* The constructor's command only reads.
Init ==
  /\ saved = [k \in Keys \cup {WalletKey} |-> 0]
  /\ file = saved
  /\ live = [k \in LiveKeys |-> 0]
  /\ wallet = 0
  /\ gui = [shown |-> [k \in Keys |-> 0], ready |-> FALSE, stopping |-> FALSE,
            pending |-> 1, rev |-> 1, error |-> FALSE, used |-> 0,
            failed |-> FALSE, threw |-> FALSE]
  /\ dir = [saved |-> "default", shown |-> ActiveDir, pending |-> FALSE]
  /\ signer = [requested |-> "good", rev |-> 0, pending |-> FALSE, inFlight |-> FALSE,
               validated |-> "none", error |-> "none", threw |-> FALSE]
  /\ tasks = <<Task("command", "load", 0, 1)>>
  /\ worker = IdleWorker
  /\ done = <<>>
  /\ outcome = [k \in Keys |-> "none"]

----------------------------------------------------------------------------
(* Edits *)

\* canEditCoreSetting: nothing is edited before the first snapshot, at shutdown
\* or during a data directory selection.
CanEdit == gui.ready /\ ~gui.stopping /\ ~dir.pending

RanCommandUncounted(g) ==
  [g EXCEPT !.pending = 1, !.error = FALSE, !.failed = FALSE, !.rev = @ + 1]

\* runCommand on the GUI thread: the first command of a group clears the error.
RanCommand(g) ==
  [g EXCEPT !.pending = @ + 1, !.error = IF g.pending = 0 THEN FALSE ELSE @,
            !.failed = IF g.pending = 0 THEN FALSE ELSE @, !.rev = @ + 1]

\* What every setter does: the value is shown at once, its command submitted.
Edit(k) ==
  /\ gui.used < MaxOperations
  /\ gui' = RanCommand([gui EXCEPT !.shown[k] = 1 - @, !.used = @ + 1])
  /\ tasks' = Append(tasks, Task("command", k, gui'.shown[k], gui'.rev))
  /\ UNCHANGED <<stores, wallet, dir, signer, worker, done, outcome>>

SetCore(k) == CanEdit /\ Edit(k)

\* The statuses CoreSettingsModel consults know nothing of the data directory
\* selection.
SetSession(k) == gui.ready /\ ~gui.stopping /\ Edit(k)

SetGui(k) == CanEdit /\ Edit(k)

----------------------------------------------------------------------------
(* A command on the worker: save, tell the node, read everything *)

Running(kind) == tasks # <<>> /\ Head(tasks).kind = kind
Now == Head(tasks)

\* The constructor's command and a signer path the file system refuses go
\* straight to reading.
NothingToSave(refused) ==
  /\ Running("command") /\ worker.step = "idle"
  /\ IF refused THEN Now.what \in CoreKeys \cap LiveKeys ELSE Now.what = "load"
  /\ worker' = [worker EXCEPT !.step = "read", !.error = refused]
  /\ outcome' = IF refused THEN [outcome EXCEPT ![Now.what] = "failed"] ELSE outcome
  /\ UNCHANGED <<stores, wallet, gui, dir, signer, tasks, done>>

\* PersistSettings: the change in memory ...
ChangeInMemory ==
  /\ Running("command") /\ worker.step = "idle"
  /\ Now.what \in CoreKeys \cup SessionKeys
  /\ saved' = [saved EXCEPT ![Now.what] = Now.value]
  /\ worker' = [worker EXCEPT !.step = "changed", !.before = saved[Now.what]]
  /\ UNCHANGED <<file, live, wallet, gui, dir, signer, tasks, done, outcome>>

\* WriteSettingsFile writes all of rw_settings.
SettingsFile(memory) == [k \in DOMAIN file |-> IF k \in GuiKeys THEN file[k] ELSE memory[k]]

\* ... then on disk, and the running node is told ...
WriteFile ==
  /\ Running("command") /\ worker.step = "changed"
  /\ file' = SettingsFile(saved)
  /\ live' = [k \in LiveKeys |-> IF k = Now.what THEN Now.value ELSE live[k]]
  /\ worker' = [worker EXCEPT !.step = "read"]
  /\ outcome' = [outcome EXCEPT ![Now.what] = "saved"]
  /\ UNCHANGED <<saved, wallet, gui, dir, signer, tasks, done>>

\* ... or the write fails and the change in memory is undone if it is still there.
RolledBack ==
  IF saved[Now.what] = Now.value
  THEN [saved EXCEPT ![Now.what] = worker.before] ELSE saved

WriteFails ==
  /\ Running("command") /\ worker.step = "changed"
  /\ saved' = RolledBack
  /\ worker' = [worker EXCEPT !.step = "read", !.error = TRUE]
  /\ outcome' = [outcome EXCEPT ![Now.what] = "failed"]
  /\ UNCHANGED <<file, live, wallet, gui, dir, signer, tasks, done>>

\* SaveGuiSetting: a failed sync puts the previous value back.
SaveGuiSetting(ok) ==
  /\ Running("command") /\ worker.step = "idle"
  /\ Now.what \in GuiKeys
  /\ saved' = IF ok THEN [saved EXCEPT ![Now.what] = Now.value] ELSE saved
  /\ file' = IF ok THEN [file EXCEPT ![Now.what] = Now.value] ELSE file
  /\ worker' = [worker EXCEPT !.step = "read", !.error = ~ok]
  /\ outcome' = [outcome EXCEPT ![Now.what] = IF ok THEN "saved" ELSE "failed"]
  /\ UNCHANGED <<live, wallet, gui, dir, signer, tasks, done>>

\* The data directory a snapshot shows
SnapshotDir == IF ExplicitDataDir \/ dir.saved = "default" THEN ActiveDir ELSE dir.saved

\* A finished task leaves the worker; its result is posted unless the executor
\* has been shut down.
Finish(result) ==
  /\ tasks' = Tail(tasks)
  /\ worker' = IdleWorker
  /\ done' = IF gui.stopping THEN <<>> ELSE Append(done, result)

Result(threw) ==
  [task |-> Now, error |-> worker.error, threw |-> threw,
   shown |-> [k \in Keys |-> saved[k]], dir |-> SnapshotDir]

\* readSnapshot, or an exception in it
ReadSnapshot(threw) ==
  /\ Running("command") /\ worker.step = "read"
  /\ threw => MayThrow
  /\ Finish(Result(threw))
  /\ UNCHANGED <<stores, wallet, gui, dir, signer, outcome>>

----------------------------------------------------------------------------
(* The answer of a command on the GUI thread *)

Answer == Head(done)
Answered(kind) == done # <<>> /\ Answer.task.kind = kind

AppliedAnySnapshot(g) == [g EXCEPT !.shown = Answer.shown, !.ready = TRUE]

AppliedUnlessFailed(g) ==
  IF Answer.task.rev = g.rev /\ ~Answer.error
  THEN [g EXCEPT !.shown = Answer.shown, !.ready = TRUE] ELSE g

\* applySnapshot, for the newest command only
AppliedSnapshot(g) ==
  IF Answer.task.rev = g.rev THEN [g EXCEPT !.shown = Answer.shown, !.ready = TRUE] ELSE g

EndedWithLastError(g) ==
  [g EXCEPT !.pending = @ - 1, !.error = Answer.error,
            !.failed = @ \/ Answer.error]

\* An error stays until the next group of commands; failed is its history.
Ended(g) ==
  [g EXCEPT !.pending = @ - 1, !.error = @ \/ Answer.error,
            !.failed = @ \/ Answer.error]

CommandCompleted ==
  /\ Answered("command") /\ ~Answer.threw
  /\ gui' = Ended([AppliedSnapshot(gui) EXCEPT !.threw = FALSE])
  /\ dir' = IF Answer.task.rev = gui.rev THEN [dir EXCEPT !.shown = Answer.dir] ELSE dir
  /\ done' = Tail(done)
  /\ UNCHANGED <<stores, wallet, signer, tasks, worker, outcome>>

\* The exception callback shows no snapshot.
CommandThrew ==
  /\ Answered("command") /\ Answer.threw
  /\ gui' = [gui EXCEPT !.pending = @ - 1, !.error = TRUE, !.failed = TRUE, !.threw = TRUE]
  /\ done' = Tail(done)
  /\ UNCHANGED <<stores, wallet, dir, signer, tasks, worker, outcome>>

----------------------------------------------------------------------------
(* Data directory selection: a task of its own *)

MaySelectDir == gui.ready /\ ~gui.stopping /\ gui.pending = 0 /\ ~dir.pending

\* selectCustomDataDir clears the error, useDefaultDataDir does not.
SelectDir(d) ==
  /\ gui.used < MaxOperations
  /\ MaySelectDir
  /\ dir' = [dir EXCEPT !.pending = TRUE]
  /\ gui' = [gui EXCEPT !.used = @ + 1, !.error = IF d = "default" THEN @ ELSE FALSE]
  /\ tasks' = Append(tasks, Task("dir", d, 0, 0))
  /\ UNCHANGED <<stores, wallet, signer, worker, done, outcome>>

\* PersistGuiDataDirSelection and PersistDefaultDataDirSelection save or fail;
\* an exception comes from creating the directory, before the save.
PersistDir(ok, threw) ==
  /\ Running("dir")
  /\ threw => MayThrow /\ ~ok
  /\ dir' = IF ok THEN [dir EXCEPT !.saved = Now.what] ELSE dir
  /\ Finish([Result(threw) EXCEPT !.error = ~ok])
  /\ UNCHANGED <<stores, wallet, gui, signer, outcome>>

\* The callbacks of selectCustomDataDir and useDefaultDataDir
DirSelected ==
  /\ Answered("dir")
  /\ dir' = [dir EXCEPT !.pending = FALSE,
                        !.shown = IF Answer.error THEN @ ELSE Answer.task.what]
  /\ gui' = [gui EXCEPT !.error = Answer.error]
  /\ done' = Tail(done)
  /\ UNCHANGED <<stores, wallet, signer, tasks, worker, outcome>>

----------------------------------------------------------------------------
(* Signer path validation: one task at a time, the newest path wins *)

SubmitValidation(s) == Append(tasks, Task("validate", s.requested, 0, s.rev))

RequestValidation(p) ==
  /\ ~gui.stopping
  /\ gui.used < MaxOperations
  /\ signer' = [signer EXCEPT !.requested = p, !.rev = @ + 1, !.pending = TRUE,
                              !.inFlight = TRUE, !.error = "none", !.threw = FALSE]
  /\ gui' = [gui EXCEPT !.used = @ + 1]
  /\ tasks' = IF signer.inFlight THEN tasks ELSE SubmitValidation(signer')
  /\ UNCHANGED <<stores, wallet, dir, worker, done, outcome>>

\* SignerPathError
ValidatePath(threw) ==
  /\ Running("validate")
  /\ threw => MayThrow
  /\ Finish([Result(threw) EXCEPT !.error = (Now.what = "bad")])
  /\ UNCHANGED <<stores, wallet, gui, dir, signer, outcome>>

OutdatedNever == FALSE

Outdated == Answer.task.rev # signer.rev

ValidatedDroppingOutdated ==
  /\ Answered("validate")
  /\ done' = Tail(done)
  /\ signer' = IF Outdated THEN signer
               ELSE [signer EXCEPT !.inFlight = FALSE, !.pending = FALSE,
                                   !.validated = Answer.task.what]
  /\ UNCHANGED <<stores, wallet, gui, dir, worker, outcome, tasks>>

\* An outdated answer starts the next validation, any other one is shown.
Validated ==
  /\ Answered("validate")
  /\ done' = Tail(done)
  /\ IF Outdated
     THEN tasks' = SubmitValidation(signer) /\ UNCHANGED signer
     ELSE /\ signer' =
               [signer EXCEPT !.inFlight = FALSE, !.pending = FALSE,
                              !.validated = IF Answer.threw THEN @ ELSE Answer.task.what,
                              !.error = CASE Answer.threw -> "unable"
                                          [] Answer.error /\ ~Answer.threw -> "bad"
                                          [] OTHER -> "none",
                              !.threw = Answer.threw]
          /\ UNCHANGED tasks
  /\ UNCHANGED <<stores, wallet, gui, dir, worker, outcome>>

\* externalSignerPathValidationError
ValidationError(p) == IF p = signer.validated THEN signer.error ELSE "none"

----------------------------------------------------------------------------
(* Shutdown and the wallet code *)

BeginShutdownDroppingTasks ==
  /\ ~gui.stopping
  /\ gui' = [gui EXCEPT !.stopping = TRUE]
  /\ done' = <<>>
  /\ tasks' = IF tasks = <<>> THEN tasks ELSE <<Now>>
  /\ UNCHANGED <<stores, wallet, dir, signer, worker, outcome>>

\* beginShutdown: accepted tasks still run, nothing more is delivered.
BeginShutdown ==
  /\ ~gui.stopping
  /\ gui' = [gui EXCEPT !.stopping = TRUE]
  /\ done' = <<>>
  /\ UNCHANGED <<stores, wallet, dir, signer, tasks, worker, outcome>>

\* Wallet code on a thread of its own changes the list of wallets and saves.
WalletSaves ==
  /\ wallet < MaxWalletSaves
  /\ wallet' = wallet + 1
  /\ saved' = [saved EXCEPT ![WalletKey] = 1]
  /\ file' = SettingsFile(saved')
  /\ UNCHANGED <<live, gui, dir, signer, tasks, worker, done, outcome>>

WorkerStep ==
  \/ \E refused \in BOOLEAN : NothingToSave(refused)
  \/ ChangeInMemory
  \/ WriteFile
  \/ WriteFails
  \/ \E ok \in BOOLEAN : SaveGuiSetting(ok)
  \/ \E threw \in BOOLEAN : ReadSnapshot(threw)
  \/ \E ok, threw \in BOOLEAN : PersistDir(ok, threw)
  \/ \E threw \in BOOLEAN : ValidatePath(threw)

Deliver == CommandCompleted \/ CommandThrew \/ DirSelected \/ Validated

Next ==
  \/ \E k \in CoreKeys : SetCore(k)
  \/ \E k \in SessionKeys : SetSession(k)
  \/ \E k \in GuiKeys : SetGui(k)
  \/ \E d \in {"default", "other"} : SelectDir(d)
  \/ \E p \in Paths : RequestValidation(p)
  \/ BeginShutdown
  \/ WalletSaves
  \/ WorkerStep
  \/ Deliver

Spec == Init /\ [][Next]_vars

\* The worker's thread runs and the GUI thread's event loop delivers.
FairSpec == Spec /\ WF_vars(WorkerStep) /\ WF_vars(Deliver)

----------------------------------------------------------------------------
(* Properties *)

\* The commands that the worker has not finished or the GUI thread not answered.
Unanswered ==
  {t \in {done[i].task : i \in DOMAIN done} \cup {tasks[i] : i \in DOMAIN tasks} :
     t.kind = "command"}

\* Those that edit the setting k.
EditsOf(k) == {t \in Unanswered : t.what = k}

\* Every variable has its type, and m_pending_commands counts the commands
\* that runCommand accepted and that have not been answered: they are the
\* newest ones.
TypeOK ==
  /\ saved \in [Keys \cup {WalletKey} -> {0, 1}]
  /\ file \in [Keys \cup {WalletKey} -> {0, 1}]
  /\ live \in [LiveKeys -> {0, 1}]
  /\ gui.shown \in [Keys -> {0, 1}]
  /\ dir.saved \in Dirs /\ dir.shown \in Dirs
  /\ worker.step \in {"idle", "changed", "read"}
  /\ outcome \in [Keys -> {"none", "saved", "failed"}]
  /\ gui.pending \in Nat /\ gui.rev \in Nat
  /\ ~gui.stopping =>
       {t.rev : t \in Unanswered} = (gui.rev - gui.pending + 1)..gui.rev

\* The answer of an older command never puts an older value over the user's
\* newest edit: while commands for a setting are on their way, the value of
\* the newest one is shown (the revision check in runCommand).
NewestEditIsShown ==
  \A k \in Keys : ~gui.stopping /\ EditsOf(k) # {} =>
    \E t \in EditsOf(k) :
      /\ \A u \in EditsOf(k) : u.rev <= t.rev
      /\ gui.shown[k] = t.value

\* When nothing is on its way, what the user sees is what was saved, edits
\* whose save failed included, and the running node was told the same --
\* unless the newest answer was an exception, which brings no snapshot.
SettledShowsSaved ==
  gui.ready /\ ~gui.stopping /\ gui.pending = 0 /\ ~gui.threw =>
    /\ \A k \in Keys : gui.shown[k] = saved[k]
    /\ \A k \in LiveKeys : live[k] = saved[k]

\* A save reported as refused does not come back with the next start: between
\* commands, the settings in memory are those on disk (test_async_options.cpp,
\* failedWriteRestoresCacheAndPersistentState).
RefusedSaveNotOnDisk ==
  worker.step # "changed" => \A k \in Keys : file[k] = saved[k]

\* An edit that was saved, and after which none for the same setting waits, is
\* the value shown, during shutdown too: accepted edits are not lost.
AcceptedEditsAreSaved ==
  tasks = <<>> =>
    \A k \in Keys : outcome[k] = "saved" => saved[k] = gui.shown[k]

\* The validation that ended is about the path asked for last, with its own
\* answer; validations that were overtaken leave no trace.
ValidationIsForNewestPath ==
  ~signer.pending /\ signer.rev > 0 /\ ~signer.threw =>
    /\ signer.validated = signer.requested
    /\ ValidationError(signer.requested) = IF signer.requested = "bad" THEN "bad" ELSE "none"

\* What the user sees of a setting follows the newest edit, however answers,
\* failures, exceptions and shutdown interleave, and what was accepted is saved.
EditsAreKept ==
  /\ TypeOK
  /\ NewestEditIsShown
  /\ SettledShowsSaved
  /\ AcceptedEditsAreSaved
  /\ ValidationIsForNewestPath

\* A failure is not forgotten: when the last command of a group is answered
\* and one of the group failed, the error is shown, whatever was delivered in
\* between.
FailureIsShown ==
  [][gui.pending > 0 /\ gui'.pending = 0 /\ gui'.failed => gui'.error]_vars

\* A requested validation ends, however many requests overtake it, unless the
\* application shuts down.
ValidationEnds == signer.pending ~> (~signer.pending \/ gui.stopping)

=============================================================================
