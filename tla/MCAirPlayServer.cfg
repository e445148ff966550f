SPECIFICATION Spec
CONSTANTS
    c1 = c1
    c2 = c2
    c3 = c3
    k1 = k1
    k2 = k2
    Conns = {c1, c2, c3}
    Cookies = {k1, k2}
    None = None
    Scripts <- MCScripts
    MaxSent = 4
    MaxLost = 1
    MaxPending = 1
    Reads = {5}
    BufferSize = 12
SYMMETRY Alike
INVARIANTS
    RequestsExact
    DeletedForgotten
    SocketsOwned
CHECK_DEADLOCK FALSE
