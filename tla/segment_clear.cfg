CONSTANTS
  MaxDigit = 1
  MaxCommands = 2
SPECIFICATION SafeSpec
INVARIANTS
  ClearStaysOff
