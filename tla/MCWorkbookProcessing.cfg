CONSTANTS
  p1 = p1
  p2 = p2
  Request = {upload, p1, p2}
  Background = {upload}
  NoRequest = NoRequest
SPECIFICATION FairSpec
INVARIANTS
  StoredIsSettled
  OnePipeline
  SuccessIsDurable
  CacheIsCurrent
PROPERTIES
  EveryRequestEnds
CHECK_DEADLOCK FALSE
