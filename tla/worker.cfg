CONSTANTS
  main = main
  segment = segment
  t1 = t1
  t2 = t2
  t3 = t3
  none = none
  Task <- MCTask
  Caller <- MCCaller
  Owner = main
  NoTask = none
  CallersJoined = FALSE
SPECIFICATION Spec
INVARIANTS
  ListRepresentsQueue
  MemorySafe
  NoLeak
  RefInv
PROPERTIES
  ImplementsExecutorSafety
  ImplementsExecutor
  StopCompletes
