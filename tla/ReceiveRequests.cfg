\* Two transactions, one of which pays two addresses, against scans, polls,
\* edits, new and removed requests, failures and reopening.
SPECIFICATION FairReceiveSpec
CONSTANTS
  Txs = {"t1", "t2"}
  Addresses = {"a1", "a2"}
  Pays <- MCPays
  InitialAddress = "a1"
  MaxRequests = 2
  MaxChanges = 2
  MaxOperations = 2
PROPERTIES
  PaidRequestsAreFixed
  TotalsSettle
CHECK_DEADLOCK FALSE
