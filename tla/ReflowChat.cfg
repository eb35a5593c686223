CONSTANTS
  Anchor = {paragraph, section}
  Ask = {q1, q2}
  Nothing = nothing
  MaxThreads = 2
SPECIFICATION Spec
INVARIANTS QuestionInItsContext
CHECK_DEADLOCK FALSE
