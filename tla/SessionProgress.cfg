\* No timeouts: only closing the session can end a wait.  Nobody has to receive.  One
\* sender, whose second message finds the queue full.  No symmetry, which is unsound
\* for liveness.
CONSTANTS
    s1 = s1
    s2 = s2
    s3 = s3
    Sender = {s1}
    Sends = 2
    QueueSize = 1
    MaxBatch = 2
    BufferSize = 0
    Timeouts = FALSE
    Transports = {"stream", "websocket", "udp"}
    Received = 2
SPECIFICATION FairSpec
CHECK_DEADLOCK FALSE
PROPERTIES GoroutinesEnd QueuedIsWritten
