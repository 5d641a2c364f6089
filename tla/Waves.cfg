SPECIFICATION Spec
CONSTANTS
  Users = {u1, u2}
  Conns = {u1, u2}
  u1 = u1
  u2 = u2
  UserOf <- MCUserOf
  Privates = {p1}
  Threads = {t1}
  Modes = {"document", "notepad", "frozen"}
  Titles = {"second"}
  MaxBlips = 3
  Dangling = FALSE
  LateLocks = FALSE
SYMMETRY Symmetric
CHECK_DEADLOCK FALSE
INVARIANTS
    CacheIsStorage
    
    WatchersAreServed
PROPERTIES
    RulesAreKept
