SPECIFICATION Spec
CONSTANTS
  c1 = c1  c2 = c2
  Conversations = {c1}
  Answers <- MCAnswers
  MaxTools = 2
  MaxMessages = 2
  MaxSearches = 2
  MaxItems = 4
CHECK_DEADLOCK FALSE
INVARIANTS
  MetadataOfItsOccurrence
