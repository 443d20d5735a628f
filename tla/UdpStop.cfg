\* StopListener while an address opens its first and its second session and the
\* reaper closes sessions.
CONSTANTS
    a1 = a1
    c1 = c1
    c2 = c2
    s1 = s1
    Conn = {c1, c2}
    Addr = {a1}
    AddrOf <- MCAddrOf
    MaxConnections = 1
    Stopper = {s1}
    Background = FALSE
    AppCancels = FALSE
    Reaps = TRUE
    InboxSize = 1
    Datagrams = 2
    None = None
SPECIFICATION UdpSpec
CHECK_DEADLOCK FALSE
SYMMETRY MCSymmetry
INVARIANTS UdpTypeOK StopIsHeard
