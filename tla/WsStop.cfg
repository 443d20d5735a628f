\* Two upgrades at once for one slot, and StopListener at whatever point of Serve.
\* No symmetry, which is unsound for liveness.
CONSTANTS
    a1 = a1
    c1 = c1
    c2 = c2
    s1 = s1
    Conn = {c1, c2}
    Addr = {a1}
    AddrOf <- MCAddrOf
    MaxConnections = 1
    Stopper = {s1}
    Background = FALSE
    AppCancels = FALSE
    None = None
SPECIFICATION WsFairSpec
CHECK_DEADLOCK FALSE
INVARIANTS AdmissionLimit WsStopIsHeard
PROPERTIES StopTerminates
