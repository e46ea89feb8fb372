CONSTANTS
  Turn = {t1, t2}
  Question = {q1}
  Override = {o1}
  Cell = {}
  Claim = {fig}
  Native = {}
  MAX_TOOL_TURNS = 2
  MAX_AUDIT_RETRIES = 1
  MaxToolCalls = 1
  NoTurn = NoTurn
  NoCell = NoCell
SPECIFICATION Spec
INVARIANTS
  TypeOK
  PassedIsGrounded
  CacheIsSound
  SpecialistBounded
  HistoryPairsUp
PROPERTIES
  ImplementsGroundedChat
SYMMETRY Symmetric
CHECK_DEADLOCK FALSE
