CONSTANTS
    WideChars = {"W", "V"}
    Infinity = 1000
    MaxChars = 2
    Narrow = {"a", "b"}
    High = {"H", "G"}
    Low = {"L", "M"}
    MaxTextChars = 3
    Senders = {"s1", "s2"}
    Commands = {"RequestPlayback", "Search", "Submit"}
    Capacity = 100
    Rate = 20
    MinIdle = 3
    Crowd = 0
    CleanupInterval = 2
    MaxNow = 6
    MaxCalls = 3
    Ids = {1, 2, 3}
    Bodies <- MCBodies
    Limits = {1, 2}
    TextBudgets = {2, 3}
    People = {"u1", "u2"}
    Tabs = {"t1", "t2", "t3"}
    TabOf <- MCTabOf
    Home <- MCHome
    MaxChanges = 1
SPECIFICATION Spec
CHECK_DEADLOCK FALSE
INVARIANTS
    ComposeLaws
    TransformLaws
    DiffsAreRight
    LimiterIsExact
    PagesAreFaithful
PROPERTIES
    PresenceIsTrue
