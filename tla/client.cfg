CONSTANT
  MaxLines = 3
SPECIFICATION Spec
INVARIANTS
  LinesInOrder
  ResponsesShown
PROPERTIES
  HangupEnds
  LinesTaken
