CONSTANTS
  q1 = q1
  q2 = q2
  Ask = {q1, q2}
  Edit = {e1, e2}
  Existing = {talk}
  NoOne = NoOne
  MaxIterations = 3
  StepLimit = 6
SPECIFICATION FairSpec
INVARIANTS
  TranscriptAlternates
  BooksAgree
  AnswerIsOnRecord
  DeletedIsGone
PROPERTIES
  RenameIsKept
  ImplementsConversations
  EveryRequestEnds
CHECK_DEADLOCK FALSE
