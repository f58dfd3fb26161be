----------------------------- MODULE Onboarding -----------------------------
(***************************************************************************)
(* The wizard shown before the node starts                                 *)
(* (qml/models/onboardingoptionsmodel.cpp, qml/onboarding_storage.cpp).    *)
(* Every selection of a data directory is previewed and its disk checked   *)
(* on the model's BackendExecutor, at most one of each at a time; results  *)
(* carry request ids.  A fresh directory on a small disk gets pruning      *)
(* recommended.  At the end the selection is applied on the same executor. *)
(***************************************************************************)
EXTENDS Integers, Sequences

CONSTANTS Dirs,         \* records [name, existing, preset, gb]: its profile, its prune setting, its disk
          DefaultDir,
          Blockchain, Chainstate, \* assumed sizes, in GB
          PruneTarget,  \* DEFAULT_PRUNE_TARGET_GB
          PruneSizes,   \* sizes the user may choose
          MaxSelections \* bound on selections and prune edits

VARIABLES selected,     \* m_data_dir
          preview,      \* [id, pending, inFlight, error, existing, preset, of]
          storage,      \* [id, pending, inFlight, path, valid, gb, of]
          prune,        \* [value, size, touched, auto, user]
          setup,        \* [phase, stopping, preparing, shutdown, edits, outcome, applied, prepared, shutdownDone, posted]
          setupExecutor \* [state, tasks, results]

setupVars == <<selected, preview, storage, prune, setup, setupExecutor>>

Nowhere == [name |-> "nowhere", existing |-> FALSE, preset |-> FALSE, gb |-> 0]

Init ==
  /\ selected = DefaultDir
  /\ preview = [id |-> 1, pending |-> TRUE, inFlight |-> TRUE, error |-> FALSE,
                existing |-> FALSE, preset |-> FALSE, of |-> Nowhere]
  /\ storage = [id |-> 0, pending |-> FALSE, inFlight |-> FALSE, path |-> Nowhere, valid |-> FALSE,
                failed |-> FALSE, gb |-> 0, of |-> Nowhere]
  /\ prune = [value |-> FALSE, size |-> PruneTarget, touched |-> FALSE, auto |-> FALSE, user |-> FALSE]
  /\ setup = [phase |-> "choosing", stopping |-> FALSE, preparing |-> FALSE, shutdown |-> FALSE, edits |-> 0,
              outcome |-> "none", applied |-> Nowhere, prepared |-> "none", shutdownDone |-> FALSE, posted |-> {}]
  /\ setupExecutor = [state |-> "open", tasks |-> <<[kind |-> "status", id |-> 1, dir |-> DefaultDir]>>, results |-> << >>]

----------------------------------------------------------------------------
(* What a directory needs and what is recommended *)

FullRequired == Blockchain + Chainstate
MinimumRequired(existing) == IF existing THEN 1 ELSE PruneTarget + Chainstate
SelectedRequired(existing, p) ==
  IF existing THEN MinimumRequired(TRUE)
  ELSE IF p.value /\ p.size <= Blockchain THEN p.size + Chainstate ELSE FullRequired
ShouldRecommendPrune(existing, gb) == ~existing /\ gb < FullRequired + 10

ChangePruneRecommendation(p, value, size, touched) ==
  [p EXCEPT !.value = value, !.size = IF value THEN size ELSE @, !.touched = touched]

\* applyAutomaticPruneRecommendation: not for a profile that exists, nor over
\* a configured value or an edit of the user.
ApplyAutomaticPruneRecommendation(s) ==
  IF ~s.valid \/ preview.existing \/ preview.preset \/ (prune.touched /\ ~prune.auto) THEN prune
  ELSE LET should == ShouldRecommendPrune(preview.existing, s.gb)
       IN [ChangePruneRecommendation(prune, should, PruneTarget, should) EXCEPT !.auto = should]

----------------------------------------------------------------------------
(* Requests *)

StartPreview(tasks, id, dir) ==
  IF setup.stopping THEN tasks ELSE Append(tasks, [kind |-> "preview", id |-> id, dir |-> dir])
StartStorageCheck(tasks, id, dir) == Append(tasks, [kind |-> "storage", id |-> id, dir |-> dir])

KeepRequest(record) == record
Invalidate(record) == [record EXCEPT !.id = @ + 1]

\* selectCustomDataDir, useDefaultDataDir, setDataDir and refreshPreview.
SelectDataDir(dir) ==
  /\ setup.phase = "choosing" /\ ~setup.stopping /\ setup.edits < MaxSelections
  /\ selected' = dir
  /\ preview' = [Invalidate(preview) EXCEPT !.pending = TRUE, !.inFlight = TRUE]
  /\ storage' = Invalidate(storage)
  /\ setup' = [setup EXCEPT !.edits = @ + 1]
  /\ setupExecutor' = IF preview.inFlight THEN setupExecutor
                      ELSE [setupExecutor EXCEPT !.tasks = StartPreview(@, preview.id + 1, dir)]
  /\ UNCHANGED prune

\* changePrune and changePruneSizeGB; an edit ends an automatic recommendation.
EditPrune(value, size) ==
  /\ setup.phase = "choosing" /\ ~setup.stopping /\ setup.edits < MaxSelections
  /\ <<value, size>> # <<prune.value, prune.size>>
  /\ prune' = [value |-> value, size |-> size, touched |-> TRUE, auto |-> FALSE, user |-> TRUE]
  /\ setup' = [setup EXCEPT !.edits = @ + 1]
  /\ UNCHANGED <<selected, preview, storage, setupExecutor>>

\* The worker: every task may fail or throw; the status finds some directory.
RunTask(kind, dir, outcome) ==
  /\ setupExecutor.tasks # << >> /\ Head(setupExecutor.tasks).kind = kind
  /\ setupExecutor' = [setupExecutor EXCEPT !.tasks = Tail(@),
        !.results = Append(@, [kind |-> kind, id |-> Head(setupExecutor.tasks).id, dir |-> dir, outcome |-> outcome])]
  /\ UNCHANGED <<selected, preview, storage, prune>>

TaskDir == Head(setupExecutor.tasks).dir
ResolveStatus(outcome, dir) == RunTask("status", dir, outcome) /\ UNCHANGED setup
ReadPreview(outcome) == RunTask("preview", TaskDir, outcome) /\ UNCHANGED setup
CheckStorageSpace(outcome) == RunTask("storage", TaskDir, outcome) /\ UNCHANGED setup
ApplyAndPrepare(outcome) ==
  /\ RunTask("prepare", TaskDir, outcome)
  /\ setup' = [setup EXCEPT !.applied = TaskDir]

Delivered == [setupExecutor EXCEPT !.results = Tail(@)]
Receives(kind) == setupExecutor.state = "open" /\ setupExecutor.results # << >> /\ Head(setupExecutor.results).kind = kind

\* The constructor's answer.  An exception is not checked for its request id.
OnStatus ==
  LET result == Head(setupExecutor.results)
      current == result.id = preview.id
      dir == IF current /\ result.outcome = "ok" THEN result.dir ELSE selected
      again == result.outcome # "throw" /\ (~current \/ result.outcome = "ok")
  IN /\ Receives("status")
     /\ selected' = dir
     /\ setupExecutor' = IF again THEN [Delivered EXCEPT !.tasks = StartPreview(@, preview.id, dir)] ELSE Delivered
     /\ preview' = IF again THEN [preview EXCEPT !.inFlight = ~setup.stopping]
                   ELSE [preview EXCEPT !.inFlight = FALSE, !.pending = FALSE, !.error = TRUE]
     /\ UNCHANGED <<storage, prune, setup>>

RequestStorageCheck(s) == [s EXCEPT !.id = @ + 1, !.path = selected, !.pending = TRUE, !.inFlight = TRUE]

\* applyPreview of the newest request; an older one is followed by the newest.
OnPreview ==
  LET result == Head(setupExecutor.results)
      read == result.dir
      recommended == IF read.existing /\ prune.auto
                     THEN [ChangePruneRecommendation(prune, read.preset, PruneTarget, FALSE) EXCEPT !.auto = FALSE]
                     ELSE prune
  IN /\ Receives("preview")
     /\ CASE result.id # preview.id ->
               /\ setupExecutor' = [Delivered EXCEPT !.tasks = StartPreview(@, preview.id, selected)]
               /\ preview' = [preview EXCEPT !.inFlight = ~setup.stopping]
               /\ UNCHANGED <<storage, prune>>
          [] result.id = preview.id /\ result.outcome # "ok" ->
               /\ preview' = [preview EXCEPT !.inFlight = FALSE, !.pending = FALSE, !.error = TRUE]
               /\ setupExecutor' = Delivered
               /\ UNCHANGED <<storage, prune>>
          [] OTHER ->
               /\ preview' = [preview EXCEPT !.inFlight = FALSE, !.pending = FALSE, !.error = FALSE,
                                             !.existing = read.existing, !.preset = read.preset, !.of = read]
               /\ prune' = IF recommended.touched THEN recommended
                           ELSE [recommended EXCEPT !.value = read.preset, !.size = PruneTarget]
               /\ storage' = RequestStorageCheck(storage)
               /\ setupExecutor' = IF storage.inFlight THEN Delivered
                                   ELSE [Delivered EXCEPT !.tasks = StartStorageCheck(@, storage.id + 1, selected)]
     /\ UNCHANGED <<selected, setup>>

\* applyStorageCheckResult: a stale result restarts the check of the path last
\* requested, unless a preview that will request one is pending.
OnStorage ==
  LET result == Head(setupExecutor.results)
      restarts == ~preview.pending /\ ~setup.stopping
      applied == [storage EXCEPT !.inFlight = FALSE, !.pending = FALSE, !.valid = result.outcome = "ok",
                                 !.failed = result.outcome # "ok",
                                 !.gb = IF result.outcome = "ok" THEN result.dir.gb ELSE 0, !.of = result.dir]
  IN /\ Receives("storage")
     /\ IF result.id = storage.id
        THEN storage' = applied /\ prune' = ApplyAutomaticPruneRecommendation(applied) /\ setupExecutor' = Delivered
        ELSE /\ storage' = [storage EXCEPT !.inFlight = restarts]
             /\ setupExecutor' = IF restarts THEN [Delivered EXCEPT !.tasks = StartStorageCheck(@, storage.id, storage.path)]
                                 ELSE Delivered
             /\ UNCHANGED prune
     /\ UNCHANGED <<selected, preview, setup>>

----------------------------------------------------------------------------
(* The end of the wizard *)

CanFinish ==
  ~setup.preparing /\ ~setup.stopping /\ ~preview.pending /\ ~preview.error /\ ~storage.pending /\ ~storage.failed

Finish ==
  /\ setup.phase = "choosing" /\ CanFinish
  /\ setup' = [setup EXCEPT !.phase = "finished"]
  /\ UNCHANGED <<selected, preview, storage, prune, setupExecutor>>

PrepareNode ==
  /\ setup.phase = "finished"
  /\ IF setup.stopping
     THEN /\ setup' = [setup EXCEPT !.phase = "preparing", !.posted = @ \cup {"refused"}]
          /\ UNCHANGED <<preview, storage, setupExecutor>>
     ELSE /\ setup' = [setup EXCEPT !.phase = "preparing", !.preparing = TRUE, !.stopping = TRUE]
          /\ preview' = Invalidate(preview) /\ storage' = Invalidate(storage)
          /\ setupExecutor' = [setupExecutor EXCEPT !.tasks = Append(@, [kind |-> "prepare", id |-> 0, dir |-> selected])]
  /\ UNCHANGED <<selected, prune>>

\* finishNodePreparation: nodePrepared follows the drained executor.
OnPrepared ==
  /\ Receives("prepare")
  /\ setup' = [setup EXCEPT !.outcome = Head(setupExecutor.results).outcome]
  /\ setupExecutor' = [Delivered EXCEPT !.state = "closing"]
  /\ UNCHANGED <<selected, preview, storage, prune>>

ShutdownClosesAlways == TRUE
ShutdownClosesExecutor == ~setup.preparing

\* While a preparation runs its end is awaited.
BeginShutdown ==
  /\ ~setup.shutdown
  /\ preview' = Invalidate(preview) /\ storage' = Invalidate(storage)
  /\ setup' = [setup EXCEPT !.shutdown = TRUE, !.stopping = TRUE,
                            !.posted = IF setupExecutor.state = "drained" THEN @ \cup {"shutdownFinished"} ELSE @]
  /\ setupExecutor' = IF setupExecutor.state = "open" /\ ShutdownClosesExecutor
                      THEN [setupExecutor EXCEPT !.state = "closing"] ELSE setupExecutor
  /\ UNCHANGED <<selected, prune>>

\* A closing executor runs what it accepted and delivers nothing.
Drained ==
  /\ setupExecutor.state = "closing" /\ setupExecutor.tasks = << >>
  /\ setupExecutor' = [setupExecutor EXCEPT !.state = "drained", !.results = << >>]
  /\ setup' = [setup EXCEPT !.prepared = IF setup.outcome # "none" THEN setup.outcome ELSE @,
                            !.posted = IF setup.shutdown /\ setup.preparing /\ setup.outcome # "none"
                                       THEN @ \cup {"shutdownFinished"} ELSE @,
                            !.shutdownDone = setup.shutdown /\ ~setup.preparing]
  /\ UNCHANGED <<selected, preview, storage, prune>>
Posted ==
  /\ setup.posted # {}
  /\ setup' = [setup EXCEPT !.posted = {},
                            !.prepared = IF "refused" \in setup.posted THEN "fail" ELSE @,
                            !.shutdownDone = @ \/ "shutdownFinished" \in setup.posted]
  /\ UNCHANGED <<selected, preview, storage, prune, setupExecutor>>

SetupProgress ==
  \/ \E outcome \in {"ok", "fail", "throw"} :
       \/ \E dir \in Dirs : ResolveStatus(outcome, dir)
       \/ ReadPreview(outcome) \/ CheckStorageSpace(outcome) \/ ApplyAndPrepare(outcome)
  \/ OnStatus \/ OnPreview \/ OnStorage \/ OnPrepared \/ PrepareNode \/ Drained \/ Posted
SetupNext ==
  \/ SetupProgress \/ Finish \/ BeginShutdown
  \/ \E dir \in Dirs : SelectDataDir(dir)
  \/ \E value \in BOOLEAN, size \in PruneSizes : EditPrune(value, size)

----------------------------------------------------------------------------
(* Properties *)

\* When the wizard lets the user finish, the settings shown and the disk space
\* are those of the selected directory, and without an edit of the user the
\* prune setting is the one to recommend there: the one configured or the
\* profile's own, or one that fits on the disk if any does.  What is applied is what was checked.
FinishedSelectionIsChecked ==
  /\ CanFinish =>
       /\ preview.of = selected /\ storage.of = selected
       /\ ~prune.user =>
            prune.value = IF selected.existing \/ selected.preset THEN selected.preset
                          ELSE selected.gb < FullRequired + 10
       /\ ~prune.user /\ selected.gb >= MinimumRequired(selected.existing) =>
            selected.gb >= SelectedRequired(selected.existing, prune)
  /\ setup.applied # Nowhere => setup.applied = preview.of /\ setup.applied = storage.of

\* What keeps the wizard waiting ends: a preview, a disk check, the node's
\* preparation and a shutdown, whichever of them come together.
SetupEnds ==
  /\ (preview.pending ~> ~preview.pending \/ setup.stopping)
  /\ (storage.pending ~> ~storage.pending \/ preview.error \/ setup.stopping)
  /\ (setup.phase = "finished" ~> setup.prepared # "none")
  /\ (setup.shutdown ~> setup.shutdownDone)
=============================================================================
