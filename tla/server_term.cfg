CONSTANTS
  a = a
  b = b
  c = c
  Connection <- MCThree
  Line <- MCHelp
  MaxClients = 2
  MaxFds = 2
  MaxLines <- MCMaxLines
  Word <- MCWord
  Numeral <- MCNumeral
  ValueOf <- MCValueOf
  LongWord = {}
SPECIFICATION SafeSpec
INVARIANTS
  TermCleansUp
