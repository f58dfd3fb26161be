\* Peers, warnings and network activity change, by themselves and by the user's
\* pause button, while snapshots and commands run or fail.
SPECIFICATION FairStatusSpec
CONSTANTS
  Kinds = {"active", "peers", "warning"}
  MaxEvents = 3
  MayFail = TRUE
INVARIANTS
  NodeStatusIsCurrent
PROPERTIES
  StatusSettles
CHECK_DEADLOCK FALSE
