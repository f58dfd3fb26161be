--------------------------- MODULE StartupSettings ---------------------------
(***************************************************************************)
(* What a start of the program reads and what onboarding leaves on disk    *)
(* (qml/onboarding_settings.cpp, qml/datadir.cpp,                          *)
(* qml/legacy_settings_migration.cpp, qml/bitcoin.cpp).  The disk holds    *)
(* the GUI's QSettings, the stores of older versions and one settings file *)
(* per data directory; a start may fail or crash between any two writes.   *)
(* One core setting stands for all of them.                                *)
(***************************************************************************)
EXTENDS Integers

CONSTANTS Customs,  \* custom data directories
          Values,   \* values of the core setting; "default" is one of them
          MaxStarts \* bound on starts of the program

VARIABLES disk,    \* [dirs, json, guiDir, guiReset, legacyDir, legacyReset, stores]
          program, \* [pc, starts, options, dir, source, rw, choice]
          owed,    \* the value of an old store that must stay in force, or "none"
          settled  \* the directory of the last completed onboarding, or "none"

startupVars == <<disk, program, owed, settled>>

Default == "default dir"
Dirs == Customs \cup {Default}
Stores == {"qml", "qt"} \* CoreSettingsStores, in this order
Empty == [onboarded |-> FALSE, setting |-> "unset"]
Off(starts) ==
  [pc |-> "off", starts |-> starts, options |-> "plain", dir |-> Default, source |-> "default", rw |-> Empty, choice |-> "untouched"]

OldValue(stores) == IF stores["qml"] # "unset" THEN stores["qml"] ELSE stores["qt"]

\* Any state older versions can leave.
Init ==
  /\ \E stores \in [Stores -> Values \cup {"unset"}], old \in Dirs \cup {"unset"}, reset \in BOOLEAN, dirs \in SUBSET Dirs :
       /\ disk = [dirs |-> dirs, json |-> [d \in Dirs |-> Empty], guiDir |-> "unset", guiReset |-> FALSE,
                  legacyDir |-> old, legacyReset |-> reset, stores |-> stores]
       /\ owed = IF OldValue(stores) \in {"unset", "default"} THEN "none" ELSE OldValue(stores)
  /\ program = Off(0)
  /\ settled = "none"

----------------------------------------------------------------------------
(* Reading *)

ReadGuiDataDir(d) ==
  CASE d.guiDir # "unset" -> [dir |-> d.guiDir, source |-> "gui"]
    [] d.guiDir = "unset" /\ d.legacyDir \notin {"unset", Default} -> [dir |-> d.legacyDir, source |-> "legacy"]
    [] OTHER -> [dir |-> Default, source |-> "default"]

ShouldShowDataDirChooser(d, dir, options) == dir \notin d.dirs \/ options = "choose" \/ d.guiReset \/ d.legacyReset

\* ResolveOnboardingStartupStatus; options is "plain", "choose", "reset" or a -datadir.
Resolve(d, options) ==
  LET read == CASE options \in Dirs   -> [dir |-> options, source |-> "explicit"]
                [] options = "reset"  -> [dir |-> Default, source |-> "default"]
                [] OTHER              -> ReadGuiDataDir(d)
  IN [dir |-> read.dir, source |-> read.source,
      shown |-> \/ options = "reset"
                \/ options \notin Dirs /\ ShouldShowDataDirChooser(d, read.dir, options)
                \/ ~d.json[read.dir].onboarded]

\* ShouldPersistGuiDataDirSelection and ShouldApplyDataDirBeforeConfig.
GuiOwned == program.options \notin Dirs /\ program.source \in {"gui", "legacy", "user"}
AppliedBeforeConfig == GuiOwned /\ program.dir # Default

\* WriteMigratedSetting for one store after the other.
LastStoreMigrated(rw, stores) ==
  IF rw.setting # "unset" \/ stores["qt"] \in {"unset", "default"} THEN rw ELSE [rw EXCEPT !.setting = stores["qt"]]
Migrated(rw, stores) ==
  LET write(settings, value) == IF settings.setting # "unset" \/ value \in {"unset", "default"} THEN settings
                                ELSE [settings EXCEPT !.setting = value]
  IN write(write(rw, stores["qml"]), stores["qt"])
NoStores == [s \in Stores |-> "unset"]
ClearLegacyGuiSettings(d) == [d EXCEPT !.stores = NoStores, !.legacyDir = "unset", !.legacyReset = FALSE]

----------------------------------------------------------------------------
(* A start *)

Goto(pc) == program' = [program EXCEPT !.pc = pc]
Exit == program' = Off(program.starts)

\* With -resetguisettings the settings are reset first (ResetGuiSettings); the
\* file of the default directory is emptied, unless that fails.
Start(options) ==
  LET emptied(written) == [ClearLegacyGuiSettings(disk) EXCEPT !.guiDir = "unset", !.guiReset = FALSE,
                             !.json[Default] = IF written THEN Empty ELSE @]
      startOn(d) == LET found == Resolve(d, options)
                    IN [program EXCEPT !.pc = IF found.shown THEN "wizard" ELSE "prepare", !.starts = @ + 1,
                                       !.options = options, !.dir = found.dir, !.source = found.source]
  IN /\ program.pc = "off" /\ program.starts < MaxStarts
     /\ IF options = "reset"
        THEN /\ owed' = "none" /\ settled' = "none"
             /\ \E written \in BOOLEAN :
                  /\ disk' = emptied(written)
                  /\ program' = IF written THEN startOn(disk') ELSE Off(program.starts + 1)
        ELSE program' = startOn(disk) /\ UNCHANGED <<disk, owed, settled>>

\* The user keeps the directory found or selects one, and may set the value.
Choose(dir, choice) ==
  /\ program.pc = "wizard"
  /\ program' = [program EXCEPT !.pc = "ensure", !.dir = dir, !.choice = choice,
                                !.source = IF dir = program.dir THEN @ ELSE "user"]
  /\ UNCHANGED <<disk, owed, settled>>
ConfirmDirectory(choice) ==
  /\ program.pc = "wizard"
  /\ program' = [program EXCEPT !.pc = "ensure", !.choice = choice, !.source = "user"]
  /\ UNCHANGED <<disk, owed, settled>>

----------------------------------------------------------------------------
(* ApplyToArgs, one action per write to disk *)

EnsureDataDir ==
  /\ program.pc = "ensure"
  /\ IF AppliedBeforeConfig THEN disk' = [disk EXCEPT !.dirs = @ \cup {program.dir}] ELSE UNCHANGED disk
  /\ Goto("migrate") /\ UNCHANGED <<owed, settled>>

\* The directory the arguments point to.
ActiveDir ==
  CASE program.options \in Dirs -> program.options
    [] AppliedBeforeConfig       -> program.dir
    [] OTHER                     -> Default

\* An old value gives way to one the settings file has.
Superseded(read) == IF owed = OldValue(disk.stores) /\ read.setting # "unset" THEN "none" ELSE owed

\* The settings file is read; the stores are migrated into memory and emptied.
MigrateCoreSettings ==
  LET read == disk.json[ActiveDir]
      migrated == Migrated(read, disk.stores)
  IN /\ program.pc = "migrate"
     /\ IF program.options = "reset"
        THEN disk' = ClearLegacyGuiSettings(disk) /\ program' = [program EXCEPT !.pc = "write", !.rw = Empty]
        ELSE disk' = [disk EXCEPT !.stores = NoStores] /\ program' = [program EXCEPT !.pc = "write", !.rw = migrated]
     /\ owed' = Superseded(read)
     /\ UNCHANGED settled

\* writeTouchedToArgs stores an override only where it differs from the default.
Written ==
  [onboarded |-> TRUE,
   setting |-> CASE program.choice = "untouched" -> program.rw.setting
                 [] program.choice = "default" -> "unset"
                 [] OTHER -> program.choice]
WriteSettingsFile ==
  /\ program.pc = "write"
  /\ disk' = [disk EXCEPT !.json[ActiveDir] = Written, !.dirs = @ \cup {ActiveDir}]
  /\ owed' = IF program.choice = "untouched" THEN owed ELSE "none"
  /\ Goto("save") /\ UNCHANGED settled
WriteFails ==
  /\ program.pc = "write"
  /\ Exit /\ owed' = "none" /\ UNCHANGED <<disk, settled>>

SaveKeepingOldStores(d, dir) == [d EXCEPT !.guiDir = IF dir = Default THEN "unset" ELSE dir, !.guiReset = FALSE]
SaveDataDirSelection(d, dir) ==
  ClearLegacyGuiSettings([d EXCEPT !.guiDir = IF dir = Default THEN "unset" ELSE dir, !.guiReset = FALSE])

\* Only a directory the GUI owns is saved; a failed save is undone.
SaveSelection ==
  /\ program.pc = "save"
  /\ IF GuiOwned
     THEN disk' = SaveDataDirSelection(disk, program.dir) /\ settled' = program.dir
     ELSE UNCHANGED <<disk, settled>>
  /\ Goto("prepare") /\ UNCHANGED owed
SaveFails ==
  /\ program.pc = "save" /\ GuiOwned
  /\ Exit /\ UNCHANGED <<disk, owed, settled>>

\* prepare_node: the file is read again, what old stores still hold is migrated.
PrepareReads ==
  LET migrated == Migrated(disk.json[ActiveDir], disk.stores)
  IN /\ program.pc = "prepare"
     /\ disk' = [disk EXCEPT !.stores = NoStores, !.dirs = @ \cup {ActiveDir}]
     /\ program' = [program EXCEPT !.pc = IF migrated = disk.json[ActiveDir] THEN "running" ELSE "rewrite", !.rw = migrated]
     /\ owed' = Superseded(disk.json[ActiveDir])
     /\ UNCHANGED settled
PrepareWrites ==
  /\ program.pc = "rewrite"
  /\ disk' = [disk EXCEPT !.json[ActiveDir] = program.rw]
  /\ Goto("running") /\ UNCHANGED <<owed, settled>>

\* A crash, a closed window, a failed read or the end of the session: memory is gone.
Interrupt ==
  /\ program.pc # "off"
  /\ Exit
  /\ owed' = IF program.pc \in {"write", "rewrite"} THEN "none" ELSE owed
  /\ UNCHANGED <<disk, settled>>

StartupNext ==
  \/ \E options \in Dirs \cup {"plain", "choose", "reset"} : Start(options)
  \/ \E dir \in Dirs, choice \in Values \cup {"untouched"} : Choose(dir, choice)
  \/ \E choice \in Values \cup {"untouched"} : ConfirmDirectory(choice)
  \/ EnsureDataDir \/ MigrateCoreSettings \/ WriteSettingsFile \/ WriteFails \/ SaveSelection \/ SaveFails
  \/ PrepareReads \/ PrepareWrites \/ Interrupt

----------------------------------------------------------------------------
(* Properties *)

\* A completed onboarding stays in force: whatever later starts choose, fail or
\* crash at, an ordinary start finds its directory and shows no wizard, until
\* another is completed or the settings are reset.
OnboardingIsRemembered ==
  settled # "none" => LET found == Resolve(disk, "plain") IN found.dir = settled /\ ~found.shown

\* A value of an older version reaches a settings file or stays where it was,
\* unless the user replaces it, a file has its own, or a start is interrupted
\* while only memory holds it.
OldValueIsKept ==
  owed # "none" =>
    \/ OldValue(disk.stores) = owed
    \/ program.pc \in {"write", "rewrite"} /\ program.rw.setting = owed
    \/ \E d \in Dirs : disk.json[d].setting = owed

\* The user's choices survive restarts, upgrades, failed writes and crashes.
ChoicesSurviveRestarts == OnboardingIsRemembered /\ OldValueIsKept
=============================================================================
