\* The pages about the node and the settings of three starts.
SPECIFICATION Spec
CONSTANTS
  MaxHeight = 4
  Delta = 1
  MaxChanges = 2
  MaxQueue = 2
  MaxLogBytes = 7
  MaxEpoch = 1
  MaxLine = 4
  Block = 3
  MaxDelta = 4
  LoadStep = 1
  MaxLimit = 2
  MaxChars = 9
  Commands = {"a", "b"}
  Wallets = {"none", "w"}
  HistoryMax = 2
  MaxRows = 3
  MaxSubmits = 2
  Customs = {"d1"}
  Values = {"default", "v1", "v2"}
  MaxStarts = 3
  Blocks <- MCBlocks
  Period = 2
  MaxTime = 4
  MaxReorgs = 2
  MaxSamples = 3
  Windows = {1, 2}
  DefaultWindow = 2
  Span = 1
  MaxTrafficBytes = 1
  MaxCommands = 3
  MaxPublished = 2
  MaxPeers = 4
  MaxRefreshes = 4
  DialAngles = 2
  SegmentAngles = 7
  Gap = 2
  MaxSegments = 4
INVARIANTS
  SyncIsCurrent
  TimerFollowsPolling
  LogIsCurrent
  SecretsAreHidden
  ConsoleIsSerial
  ChoicesSurviveRestarts
  DialShowsActiveChain
  TrafficIsCurrent
  DetailsFollowPeer
  DialIsAlive
  SegmentsCountBlocks
CHECK_DEADLOCK FALSE
