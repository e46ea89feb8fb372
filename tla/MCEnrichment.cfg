CONSTANTS
  w1 = w1
  w2 = w2
  NoUsage = NoUsage
  Workbook = {w1, w2}
  SheetNames <- Sheets2
  MapperReply <- MapperReplies
  SheetReply <- SheetReplies
  SummaryReply <- SummaryReplies
SPECIFICATION Spec
INVARIANTS
  SheetsAreOwn
PROPERTIES
  FailureIsContained
CHECK_DEADLOCK FALSE
