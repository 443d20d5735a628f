\* Two clients compete for one slot while StopListener is called twice and the
\* application ends its contexts.
CONSTANTS
    a1 = a1
    c1 = c1
    c2 = c2
    s1 = s1
    s2 = s2
    Conn = {c1, c2}
    Addr = {a1}
    AddrOf <- MCAddrOf
    MaxConnections = 1
    Stopper = {s1, s2}
    Background = FALSE
    AppCancels = TRUE
    None = None
SPECIFICATION Spec
CHECK_DEADLOCK FALSE
SYMMETRY MCSymmetry
INVARIANTS Accounting StopComplete StopIsHeard
PROPERTIES ImplementsAdmission NothingStartsAfterStop
