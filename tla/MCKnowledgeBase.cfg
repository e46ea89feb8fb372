CONSTANTS
  plain = plain
  xls = xls
  bad = bad
  p1 = p1
  p2 = p2
  p3 = p3
  u1 = u1
  u2 = u2
  Task = {p1, p2, p3}
  User = {u1, u2}
  Content = {plain, xls, bad}
  Chunks <- ChunksConst
  OtherFormat = {xls}
  Storable = {plain}
  Refused = {bad}
  BatchSize = 2
  Nothing = Nothing
SPECIFICATION Spec
INVARIANTS
  RowHasFile
  CountIsStored
  VectorIsOwn
  DeletedIsGone
SYMMETRY Symmetric
CHECK_DEADLOCK FALSE
