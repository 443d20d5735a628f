\* Silent sessions are reaped.  No symmetry, which is unsound for liveness.
CONSTANTS
    a1 = a1
    c1 = c1
    c2 = c2
    s1 = s1
    Conn = {c1, c2}
    Addr = {a1}
    AddrOf <- MCAddrOf
    MaxConnections = 2
    Stopper = {}
    Background = FALSE
    AppCancels = FALSE
    Reaps = TRUE
    InboxSize = 1
    Datagrams = 2
    None = None
SPECIFICATION UdpFairSpec
CHECK_DEADLOCK FALSE
INVARIANTS OneSession OpenIsFound
PROPERTIES SilentIsReaped
