CONSTANTS
    Sockets = {c1}
    Agents = {a1}
    Copies = {k1, k2, k3}
    None = None
    Refusals = TRUE
    Overflows = TRUE
    Panics = TRUE
SPECIFICATION ResidencySpec
INVARIANTS
    OneLiveCopy
    ResidentHasEveryReply
    UnwatchedIsNotResident
PROPERTIES
    EveryCommandEnds
