SPECIFICATION Spec
CONSTANTS
  Users = {u1, u2}
  Conns = {c1, c2}
  Owner <- MCOwner
  u1 = u1
  Msgs = {m1}
  Remarks = {}
  Flags = {"archived"}
  Pushes = {p1, p2}
  MaxTicks = 2
CHECK_DEADLOCK FALSE
INVARIANTS
    RowsAreRight
PROPERTIES
    ChangesArrive
