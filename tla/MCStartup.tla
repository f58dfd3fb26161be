----------------------------- MODULE MCStartup -----------------------------
(***************************************************************************)
(* Start-up and shutdown for TLC: the wizard before the node starts, the   *)
(* life of the node, and the dialogs its threads ask for meanwhile.  The   *)
(* three share no state: in a behaviour one of them, named by part, moves  *)
(* and the others stay as they are before anything happened.               *)
(***************************************************************************)
EXTENDS Lifecycle

CONSTANTS Dirs, DefaultDir, Blockchain, Chainstate, PruneTarget, PruneSizes,
          MaxSelections,                        \* Onboarding
          Threads, InitThread, Styles, MaxCalls \* RuntimeDialogs

ASSUME SizesAssumption ==
  /\ {Blockchain, Chainstate, PruneTarget} \subseteq Nat
  /\ DefaultDir \in Dirs
  /\ \A dir \in Dirs : dir.existing \in BOOLEAN /\ dir.preset \in BOOLEAN /\ dir.gb \in Nat
ASSUME CallsAssumption == MaxCalls \in Nat

VARIABLES part,
          selected, preview, storage, prune, setup, setupExecutor,
          calls, waits, events, loops, active, dialogs, answers, startup

Wizard == INSTANCE Onboarding
Boxes == INSTANCE RuntimeDialogs

wizardVars == <<selected, preview, storage, prune, setup, setupExecutor>>
boxVars == <<calls, waits, events, loops, active, dialogs, answers, startup>>

MCInit == part \in {"wizard", "node", "boxes"} /\ Init /\ Wizard!Init /\ Boxes!Init

WizardStep == part = "wizard" /\ Wizard!SetupNext /\ UNCHANGED <<part, vars, boxVars>>
NodeStep == part = "node" /\ Next /\ UNCHANGED <<part, wizardVars, boxVars>>
BoxesStep == part = "boxes" /\ Boxes!DialogNext /\ UNCHANGED <<part, vars, wizardVars>>

MCNext == WizardStep \/ NodeStep \/ BoxesStep
StartupSpec == MCInit /\ [][MCNext]_<<part, vars, wizardVars, boxVars>>

\* The wizard's executor runs its tasks and the event loop delivers; QML goes
\* on to prepare the node when the user finished.
WizardProgress == part = "wizard" /\ Wizard!SetupProgress

MCSpec ==
  /\ StartupSpec
  /\ Fairness
  /\ WF_wizardVars(WizardProgress)

----------------------------------------------------------------------------
(* The instance: a fresh default directory on a large disk, a fresh one on a *)
(* small disk, one whose configuration prunes, and a profile that prunes.    *)

DefaultDirectory == [name |-> "default", existing |-> FALSE, preset |-> FALSE, gb |-> 20]
StartupDirs ==
  {DefaultDirectory, [name |-> "small", existing |-> FALSE, preset |-> FALSE, gb |-> 3],
   [name |-> "configured", existing |-> FALSE, preset |-> TRUE, gb |-> 3],
   [name |-> "old", existing |-> TRUE, preset |-> TRUE, gb |-> 1]}

\* What the node's threads ask for: warnings with and without waiting, an
\* error that waits and one that does not, and a question.
Asks(icon, modal, question) == [icon |-> icon, modal |-> modal, question |-> question, texts |-> {icon}]
StartupStyles ==
  {Asks("warning", TRUE, FALSE), Asks("warning", FALSE, FALSE), Asks("error", TRUE, FALSE),
   Asks("error", FALSE, FALSE), Asks("question", TRUE, TRUE)}

----------------------------------------------------------------------------
(* Properties *)

\* The wizard finishes only with what it checked of the selected directory
\* (OnboardingOptionsModel::canFinish, prepareNode).
FinishedSelectionIsChecked == part = "wizard" => Wizard!FinishedSelectionIsChecked
\* What keeps the wizard waiting ends (OnboardingOptionsModel).
SetupEnds == part = "wizard" => Wizard!SetupEnds
\* No dialog of the node's threads is lost (NodeModel::showRuntimeDialogOnGuiThread).
DialogsAreKept == part = "boxes" => Boxes!DialogsAreKept
=============================================================================
