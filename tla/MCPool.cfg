CONSTANTS
    Users = {u1, u2, v}
    VmemUsers = {v}
    NofSessions = 2
    Conns = {c1, c2}
SPECIFICATION Spec
INVARIANTS SlotsExclusive  ConnsAccounted StreamsClosed NoStaleError
CHECK_DEADLOCK FALSE
SYMMETRY Symmetry
VIEW View
