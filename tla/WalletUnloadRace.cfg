SPECIFICATION Spec
CONSTANTS
  Names = {"a", "b"}
  OnDisk = {"a"}
  Legacy = {}
  AtStart = {}
  RpcNames = {"a"}
  Kinds = {"load"}
  MaxWallets = 2
  MaxCommands = 0
  MaxSelections = 2
  MaxShutdowns = 0
INVARIANT UnloadedWalletCloses
CHECK_DEADLOCK FALSE
