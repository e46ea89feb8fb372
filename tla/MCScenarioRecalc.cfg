CONSTANTS
  Cell <- MCCell
  Workbooks <- MCWorkbooks
  MaxOverrides = 3
  MaxDepth = 2
  MaxOpen = 4
SPECIFICATION FairSpec
INVARIANTS
  NoReentry
  MemoIsReference
  ChangesAreExact
  PrecomputeIsReference
  GraphIsDescribed
PROPERTIES
  RequestEnds
CHECK_DEADLOCK FALSE
