\* One executor with tasks and receivers, another joined thread, shutdown and
\* the final drain in every interleaving.
SPECIFICATION FairSpec
CONSTANTS
  Executors = {e1}
  OtherThreads = {t1}
  Receivers = {r1, r2}
  Waiters = {w1}
  MaxTasks = 3
INVARIANTS
  TypeOK
  DrainedExecutorRanEverything
  DeliveredInOrder
PROPERTIES
  NoDeliveryAfterShutdown
  ImplementsSerialExecutor
  ExecutorsDrain
CHECK_DEADLOCK FALSE
