CONSTANTS
  u1 = u1
  u2 = u2
  m1 = m1
  m2 = m2
  m3 = m3
  m4 = m4
  Upload = {u1, u2}
  Message = {m1, m2, m3, m4}
  Nothing = Nothing
SPECIFICATION Spec
INVARIANTS
  WorkbookIsNamed
  ConversationIsKept
SYMMETRY Symmetric
CHECK_DEADLOCK FALSE
