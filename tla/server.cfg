CONSTANTS
  a = a
  b = b
  c = c
  Connection <- MCThree
  Line <- MCLine
  MaxClients = 2
  MaxFds = 3
  MaxLines <- MCMaxLines
  Word <- MCWord
  Numeral <- MCNumeral
  ValueOf <- MCValueOf
  LongWord = {}
SPECIFICATION Spec
INVARIANTS
  IInv
  DescriptorsAreCurrent
  RequestsAnswered
PROPERTIES
  RequestsTaken
  QuitEnds
