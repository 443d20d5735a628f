\* A connection that ends while its session is created; nobody stops the server.
CONSTANTS
    a1 = a1
    c1 = c1
    c2 = c2
    s1 = s1
    Conn = {c1, c2}
    Addr = {a1}
    AddrOf <- MCAddrOf
    MaxConnections = 2
    Stopper = {}
    Background = FALSE
    AppCancels = FALSE
    None = None
SPECIFICATION QuicSpec
CHECK_DEADLOCK FALSE
SYMMETRY MCSymmetry
INVARIANTS RegistryLive
