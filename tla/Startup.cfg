\* Start-up, shutdown and fatal errors in every interleaving; the wizard with
\* three selections or edits; three calls of the node's threads.
SPECIFICATION MCSpec
CONSTANTS
  Before = {options, settings}
  After = {nodeModelP, wallets, rpcConsole}
  NodeModel = nodeModelP
  Dirs <- StartupDirs
  DefaultDir <- DefaultDirectory
  Blockchain = 3
  Chainstate = 1
  PruneTarget = 1
  PruneSizes = {1, 3}
  MaxSelections = 3
  Threads = {"init", "other"}
  InitThread = "init"
  Styles <- StartupStyles
  MaxCalls = 3
INVARIANTS
  LifecycleIsSafe
  FinishedSelectionIsChecked
  DialogsAreKept
PROPERTIES
  ExitIsOrderly
  NodeStopNoticed
  SetupEnds
CHECK_DEADLOCK FALSE
