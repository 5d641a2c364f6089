CONSTANTS
    Doc <- MCDoc
    Change <- MCDoc
    EmptyDoc <- MCEmpty
    EmptyChange <- MCEmpty
    OtCompose <- MCCompose
    OtTransform <- MCTransform
    Yield <- MCYield
    OtInvert <- MCInvert
    Valid <- MCValid
    Edits <- MCEdits
    Reaches <- MCReaches
    Typed <- MCTyped
    Copies <- MCCopies
    MaxHistory = 1
    NoChange = NoChange
    NoOp = 0
    Clients = {a, b}
    Removes <- MCRemoves
    Budgets <- MCBudgets
    EditsWhileGreeting = FALSE
SPECIFICATION Spec
CHECK_DEADLOCK FALSE
INVARIANTS
    ClientTracksServer
    SubmitsAreAnswered
    NoTypingVanishes

    
