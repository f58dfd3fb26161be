\* Edits of three kinds of settings whose saves may fail, against signer path
\* validations, a data directory selection, saves by the wallet code and
\* shutdown.
SPECIFICATION FairSpec
CONSTANTS
  CoreKeys = {"signer"}
  SessionKeys = {"natpmp"}
  GuiKeys = {"unit"}
  LiveKeys = {"natpmp", "signer"}
  ExplicitDataDir = FALSE
  MaxOperations = 3
  MaxWalletSaves = 1
  MayThrow = TRUE
INVARIANTS
  EditsAreKept
PROPERTIES
  FailureIsShown
  ValidationEnds
CHECK_DEADLOCK FALSE
