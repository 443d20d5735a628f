\* Connections wait for their streams and end while the server is stopped.
CONSTANTS
    a1 = a1
    c1 = c1
    c2 = c2
    s1 = s1
    Conn = {c1, c2}
    Addr = {a1}
    AddrOf <- MCAddrOf
    MaxConnections = 1
    Stopper = {s1}
    Background = FALSE
    AppCancels = FALSE
    None = None
SPECIFICATION QuicSpec
CHECK_DEADLOCK FALSE
SYMMETRY MCSymmetry
INVARIANTS Accounting StopIsHeard DeadIsEnding
