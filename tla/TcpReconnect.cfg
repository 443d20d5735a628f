\* A client reconnects under StartListener.  No symmetry, which is unsound for
\* liveness.
CONSTANTS
    a1 = a1
    c1 = c1
    c2 = c2
    s1 = s1
    s2 = s2
    Conn = {c1, c2}
    Addr = {a1}
    AddrOf <- MCAddrOf
    MaxConnections = 2
    Stopper = {s1}
    Background = TRUE
    AppCancels = FALSE
    None = None
SPECIFICATION FairSpec
CHECK_DEADLOCK FALSE
INVARIANTS RegistryLive CloseOrder
PROPERTIES KeepsNewer StopTerminates EndedIsClosed
