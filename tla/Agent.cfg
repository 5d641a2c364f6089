SPECIFICATION Spec
CONSTANTS
  Tokens = {t1, t2}
  ReadOnly = {t2}
  Requests = {r1}
  Bodies = {"x", "y"}
  Tasks = {k1, k2}
  MaxBlips = 3
  MaxLosses = 2
CHECK_DEADLOCK FALSE
INVARIANTS
    RepliesAreKept
PROPERTIES
    DeadCredentialIsSilent
    RepliesEnd
