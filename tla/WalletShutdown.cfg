\* Shutdown at any point of loading, migrating, announcing and closing.
SPECIFICATION FairSpec
CONSTANTS
  Names = {"b"}
  OnDisk = {"b"}
  Legacy = {"b"}
  AtStart = {}
  RpcNames = {"b"}
  Kinds = {"load", "migrate"}
  MaxWallets = 2
  MaxCommands = 2
  MaxSelections = 1
  MaxShutdowns = 1
INVARIANTS
  DrainedHoldsNoWallet
PROPERTIES
  WalletWorkEnds
CHECK_DEADLOCK FALSE
