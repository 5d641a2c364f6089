SPECIFICATION Spec
CONSTANTS
  NameOrder <- MCNameOrder
  Passwords = {"p", "q"}
  Subjects = {s1}
  Browsers = {b1, b2}
  Requests = {r1, r2}
  MaxSlots = 1
  Capacity = 1
  MaxFlows = 1
  Budgets <- MCBudgets
CHECK_DEADLOCK FALSE
INVARIANTS
    WorkIsBounded
    SignInsAreEarned
PROPERTIES
    RequestsEnd
