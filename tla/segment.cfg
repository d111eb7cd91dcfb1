CONSTANTS
  MaxDigit = 2
  MaxCommands = 3
SPECIFICATION Spec
INVARIANTS
  DownIsOff
PROPERTIES
  BeepEndsCountdown
  CountdownEnds
  IdleGoesOff
