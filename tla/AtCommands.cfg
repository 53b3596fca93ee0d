SPECIFICATION Spec
CONSTANTS
  Numbers = {0, 1}
  MaxData = 2
  MaxAsked = 3
  MaxUrcs = 1
  MaxLate = 1
INVARIANTS
  RightAnswer
  OneAnswerEach
\* no more commands
CHECK_DEADLOCK FALSE
