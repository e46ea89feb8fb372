CONSTANTS
  f1 = f1
  f2 = f2
  f3 = f3
  p1 = p1
  p2 = p2
  p3 = p3
  x = x
  y = y
  t1 = t1
  t2 = t2
  Task = {p1, p2, p3}
  Function = {f1, f2, f3}
  TagOf <- TagOfConst
  NameOf <- NameOfConst
  Arg = {x, y}
  Tenant = {t1, t2}
  User = {u}
  Nothing = Nothing
SPECIFICATION Spec
INVARIANTS
  RunsAgainOnlyAfterRaise
  RemovedIsGone
  NothingCrosses
SYMMETRY Symmetric
CHECK_DEADLOCK FALSE
