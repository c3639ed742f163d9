SPECIFICATION Spec
CONSTANTS
  c1 = c1  c2 = c2
  Conversations = {c1, c2}
  Answers <- MCAnswers
  MaxTools = 2
  MaxMessages = 2
  MaxSearches = 2
  MaxItems = 4
SYMMETRY MCSymmetry
CHECK_DEADLOCK FALSE
INVARIANTS
  TypeOK
  NewestKept
  ReplayInOrder
  ReplayExact
