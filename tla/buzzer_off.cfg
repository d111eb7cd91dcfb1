CONSTANTS
  t1 = t1
  t2 = t2
  t3 = t3
  none = none
  Task <- MCTwoTasks
  NoTask = none
  Pitch <- MCPitch
  DefaultTone = 440
  MaxNotes = 2
  MaxSteps = 2
SPECIFICATION SafeSpec
INVARIANTS
  OffSilences
