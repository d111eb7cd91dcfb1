CONSTANTS
  t1 = t1
  t2 = t2
  t3 = t3
  none = none
  Task <- MCTask
  NoTask = none
  Pitch <- MCPitch
  DefaultTone = 440
  MaxNotes = 2
  MaxSteps = 2
SPECIFICATION Spec
INVARIANTS
  IInv
  StoppedTaskIsSilent
  NoStuckTone
  StatusIsTruthful
  NothingRunsAfterUnload
PROPERTIES
  CallsReturn
  OffSettles
