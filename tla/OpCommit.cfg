CONSTANTS
    Doc <- MCDoc
    Change <- MCChange
    EmptyDoc <- MCEmptyDoc
    OtCompose <- MCCompose
    OtTransform <- MCTransform
    OtInvert <- MCInvert
    Valid <- MCValid
    TooLarge <- MCTooLarge
    Submits <- MCSubmits
    MaxHistory = 1
    MaxUnits = 2
    Letters = {"x"}
    Conns = {c1, c2}
    OpIds = {o1}
    NoId = NoId
    NotResident = NotResident
    Idle = Idle
    Capacity = 2
    MaxRevision = 2
SYMMETRY Symmetry
SPECIFICATION Spec
INVARIANTS
    LogIsReplay
    MemoryMatchesStorage
    OpAppliedOnce
    AckedIsDurable
    SubscriberIsCurrent
    HistoryServes
PROPERTIES
    StreamHasNoGaps
    CommitsAreAtomic
