\* The user opens, creates and closes wallets while RPC clients load and unload them.
SPECIFICATION Spec
CONSTANTS
  Names = {"a", "b"}
  OnDisk = {"a"}
  Legacy = {}
  AtStart = {"a"}
  \* a subset of OnDisk: see LoadedWalletTracked
  RpcNames = {"a"}
  Kinds = {"load", "import", "watch"}
  MaxWallets = 3
  MaxCommands = 2
  MaxSelections = 1
  MaxShutdowns = 0
INVARIANTS
  WalletsAreTracked
CHECK_DEADLOCK FALSE
