CONSTANTS
    Tokens = {t1, t2}
    Conns = {c1, c2}
    Requests = {r1}
    NoToken = NoToken
    MaxConns = 1
    Cancels = FALSE
SPECIFICATION Spec
CHECK_DEADLOCK FALSE
INVARIANTS
    EndedSessionClosesItsSockets
    CountsAreTrue
PROPERTIES
    SocketsEnd
