\* A payment that arrives between the scan of the constructor and the
\* subscription to the wallet.
SPECIFICATION ReceiveSpec
CONSTANTS
  Txs = {"t1"}
  Addresses = {"a1"}
  Pays <- MCPays
  InitialAddress = "a1"
  MaxRequests = 1
  MaxChanges = 1
  MaxOperations = 0
INVARIANT
  ScanReflectsPayments
CHECK_DEADLOCK FALSE
