CONSTANTS
  Producers = {p1}
  Size = 4
  Wrap = 8
  MaxBytes = 10
SPECIFICATION RingSpec
INVARIANT AnswersStayTrue
PROPERTY ImplementsStream
