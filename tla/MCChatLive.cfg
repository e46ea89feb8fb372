CONSTANTS
  Turn = {t1, t2}
  Question = {q1}
  Override = {}
  Cell = {c1}
  Claim = {fig}
  Native = {}
  MAX_TOOL_TURNS = 1
  MAX_AUDIT_RETRIES = 1
  MaxToolCalls = 2
  NoTurn = NoTurn
  NoCell = NoCell
SPECIFICATION FairSpec
PROPERTIES
  EveryTurnEnds
CHECK_DEADLOCK FALSE
