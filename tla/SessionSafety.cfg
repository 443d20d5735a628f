\* Three senders, a queue of one and batches of two: senders have to wait, batches are
\* cut off in the middle of the queue, and the client sends more than Data() and a UDP
\* inbox hold together, on each of the three transports.
CONSTANTS
    s1 = s1
    s2 = s2
    s3 = s3
    Sender = {s1, s2, s3}
    Sends = 1
    QueueSize = 1
    MaxBatch = 2
    BufferSize = 1
    Timeouts = TRUE
    Transports = {"stream", "websocket", "udp"}
    Received = 3
SPECIFICATION Spec
CHECK_DEADLOCK FALSE
SYMMETRY MCSymmetry
INVARIANTS TypeOK NothingLost NoSendOnClosed InboundKept CloseIsUnderWay
PROPERTIES ImplementsFifo
