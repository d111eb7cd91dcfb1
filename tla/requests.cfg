CONSTANTS
  Word <- MCWord
  Numeral <- MCNumeral
  ValueOf <- MCValueOf
  LongWord = {"LONG"}
  LastWord = {"ON"}
  MaxTokens = 4
SPECIFICATION Spec
INVARIANTS
  AcceptsTheManual
  ResponseIsTrue
  StatusIsTrue
