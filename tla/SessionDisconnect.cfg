\* The client sends one message more than Data() and pumpData can hold, and leaves.
CONSTANTS
    s1 = s1
    s2 = s2
    s3 = s3
    Sender = {}
    Sends = 0
    QueueSize = 1
    MaxBatch = 1
    BufferSize = 1
    Timeouts = TRUE
    Transports = {"stream"}
    Received = 2
SPECIFICATION FairSpec
CHECK_DEADLOCK FALSE
PROPERTIES DisconnectNoticed
