CONSTANTS
  Turn = {t1, t2}
  Question = {q1, q2}
  Override = {o1}
  Cell = {c1}
  Claim = {fig}
  Native = {}
  MAX_TOOL_TURNS = 2
  MAX_AUDIT_RETRIES = 1
  MaxToolCalls = 1
  NoTurn = NoTurn
  NoCell = NoCell
SPECIFICATION Spec
INVARIANTS
  EvidenceIsOwn
CHECK_DEADLOCK FALSE
