\* A save fails after the wallet code wrote the same file.
SPECIFICATION Spec
CONSTANTS
  CoreKeys = {"dbcache"}
  SessionKeys = {}
  GuiKeys = {}
  LiveKeys = {}
  ExplicitDataDir = FALSE
  MaxOperations = 1
  MaxWalletSaves = 1
  MayThrow = FALSE
INVARIANTS
  RefusedSaveNotOnDisk
CHECK_DEADLOCK FALSE
