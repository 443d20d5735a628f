-------------------------------- MODULE Session --------------------------------
(***************************************************************************)
(* The data path of one session (listener/session.go) on any of the three  *)
(* transports (listener/stream.go, websocket.go, udp.go): any number of    *)
(* goroutines in SendToClient, the one writeLoop, and the reader, which is *)
(* either pumpData behind Data() or the application's own loop over        *)
(* Messages().                                                             *)
(*                                                                         *)
(* A channel operation is one step; a select with several ready cases      *)
(* takes any of them.  Outbound messages are <<sender, number>>; inbound   *)
(* ones are counted, for a single reader cannot reorder them.              *)
(***************************************************************************)
EXTENDS Integers, Sequences, FiniteSets

CONSTANTS
    Sender,        \* goroutines that call SendToClient
    Sends,         \* bound: calls each of them makes
    QueueSize,     \* capacity of session.out
    MaxBatch,      \* maxBatch
    BufferSize,    \* ServerConfig.BufferSize, before newSession raises it to 1
    Timeouts,      \* TRUE: ReadTimeout and WriteTimeout > 0
    Transports,    \* implementations of transport to check
    Received       \* bound: messages the client sends

ASSUME SendAssumption == Sends \in Nat /\ QueueSize \in Nat \ {0} /\ MaxBatch \in Nat \ {0}
ASSUME ReadAssumption == BufferSize \in Nat /\ Received \in Nat
ASSUME TimeoutAssumption == Timeouts \in BOOLEAN
ASSUME TransportAssumption == Transports \subseteq {"stream", "websocket", "udp"}

VARIABLES
    transport,  \* session.t
    ctx,        \* "live" or "done"
    once,       \* how far closeWith has got
    conn,       \* the connection: "open", "gone" (client left), "closed" (by us);
                \* udpTransport.done is closed when it is "closed"
    handler,    \* the goroutine of serveSession
    out,        \* session.out
    call,       \* call[s]: where sender s is in SendToClient
    sent,       \* sent[s]: calls it has begun
    accepted,   \* history: all messages ever queued, in order
    writer,     \* where writeLoop is
    batch,      \* its batch
    wire,       \* what it has written to the connection
    stalled,    \* the client has stopped reading
    arrived,    \* messages the client has sent
    pending,    \* those of them nobody has read from the connection or socket
    buffered,   \* complete messages in the bufio.Reader, or in udpTransport.in
    dropped,    \* datagrams deliver has dropped
    reader,     \* where the reader is
    via,        \* how the application reads: "none" yet, "Data" or "Messages"
    data,       \* messages in session.data
    dataClosed, \* session.data is closed
    taken       \* messages the application has received

closeVars == <<transport, ctx, once, conn, handler>>
sendVars  == <<out, call, sent, accepted>>
writeVars == <<writer, batch, wire, stalled>>
netVars   == <<arrived, pending, buffered, dropped>>
readVars  == <<reader, via, data, dataClosed, taken>>
vars      == <<closeVars, sendVars, writeVars, netVars, readVars>>

Message == Sender \X (1..Sends)
\* The capacity of session.data and of udpTransport.in.
DataSize == IF BufferSize < 1 THEN 1 ELSE BufferSize

\* Messages are read ahead into Data() up to BufferSize (types.go:26), the queue and
\* the batch keep their limits: a slow consumer slows its client down, or has its
\* datagrams dropped.
TypeOK ==
    /\ transport \in Transports
    /\ ctx \in {"live", "done"}
    /\ once \in {"open", "close", "cancel", "done"}
    /\ conn \in {"open", "gone", "closed"}
    /\ handler \in {"running", "closing", "done"}
    /\ out \in Seq(Message) /\ Len(out) <= QueueSize
    /\ call \in [Sender -> {"idle", "try", "wait", "slow"}]
    /\ sent \in [Sender -> 0..Sends]
    /\ accepted \in Seq(Message)
    /\ writer \in {"select", "fill", "write", "failed", "exited"}
    /\ batch \in Seq(Message) /\ Len(batch) <= MaxBatch
    /\ wire \in Seq(Message)
    /\ stalled \in BOOLEAN
    /\ arrived \in 0..Received /\ pending \in 0..Received /\ dropped \in 0..Received
    /\ buffered \in 0..(IF transport = "udp" THEN DataSize ELSE Received)
    /\ reader \in {"off", "read", "give", "failed", "exited"}
    /\ via \in {"none", "Data", "Messages"}
    /\ data \in 0..DataSize
    /\ dataClosed \in BOOLEAN
    /\ taken \in 0..Received

Init ==
    /\ transport \in Transports
    /\ ctx = "live" /\ once = "open" /\ conn = "open" /\ handler = "running"
    /\ out = <<>>
    /\ call = [s \in Sender |-> "idle"] /\ sent = [s \in Sender |-> 0]
    /\ accepted = <<>>
    /\ writer = "select" /\ batch = <<>> /\ wire = <<>> /\ stalled = FALSE
    /\ arrived = 0 /\ pending = 0 /\ buffered = 0 /\ dropped = 0
    /\ reader = "off" /\ via = "none" /\ data = 0 /\ dataClosed = FALSE /\ taken = 0

-------------------------------------------------------------------------------
(* Closing: the winner of the sync.Once closes the connection and then     *)
(* cancels the context; whoever calls closeWith goes on when it is done.   *)

CloseWithLive == once' = IF once = "open" /\ ctx = "live" THEN "close" ELSE once
CloseWith == once' = IF once = "open" THEN "close" ELSE once

\* CloseSession, or StopListener, by any goroutine.
CloseSession ==
    /\ once = "open"
    /\ CloseWith
    /\ UNCHANGED <<transport, ctx, conn, handler, sendVars, writeVars, netVars, readVars>>

\* The parent context ends, and newSession's AfterFunc closes the session.
ParentEnds ==
    /\ ctx = "live"
    /\ ctx' = "done"
    /\ UNCHANGED <<transport, once, conn, handler, sendVars, writeVars, netVars, readVars>>

ContextCloses ==
    /\ ctx = "done" /\ once = "open"
    /\ CloseWith
    /\ UNCHANGED <<transport, ctx, conn, handler, sendVars, writeVars, netVars, readVars>>

CloseTransport ==
    /\ once = "close"
    /\ conn' = "closed" /\ once' = "cancel"
    /\ UNCHANGED <<transport, ctx, handler, sendVars, writeVars, netVars, readVars>>

CloseCancelAndData ==
    /\ once = "cancel"
    /\ ctx' = "done" /\ once' = "done"
    /\ dataClosed' = (via = "Data")
    /\ UNCHANGED <<transport, conn, handler, sendVars, writeVars, netVars, reader, via, data, taken>>
CloseCancel ==
    /\ once = "cancel"
    /\ ctx' = "done" /\ once' = "done"
    /\ UNCHANGED <<transport, conn, handler, sendVars, writeVars, netVars, readVars>>

\* serveSession: the handler returns, its closeWith does, and wg.Done is called.
HandlerReturns ==
    /\ handler = "running"
    /\ handler' = "closing"
    /\ CloseWith
    /\ UNCHANGED <<transport, ctx, conn, sendVars, writeVars, netVars, readVars>>

HandlerLeaves ==
    /\ handler = "closing" /\ once = "done"
    /\ handler' = "done"
    /\ UNCHANGED <<transport, ctx, once, conn, sendVars, writeVars, netVars, readVars>>

-------------------------------------------------------------------------------
(* SendToClient and waitToSend                                             *)

\* The first select: a closed session refuses at once.
SendBegin(s) ==
    /\ call[s] = "idle" /\ sent[s] < Sends
    /\ sent' = [sent EXCEPT ![s] = @ + 1]
    /\ call' = [call EXCEPT ![s] = IF ctx = "live" THEN "try" ELSE "idle"]
    /\ UNCHANGED <<closeVars, out, accepted, writeVars, netVars, readVars>>

Queue(s) ==
    /\ Len(out) < QueueSize
    /\ out' = Append(out, <<s, sent[s]>>)
    /\ accepted' = Append(accepted, <<s, sent[s]>>)
    /\ call' = [call EXCEPT ![s] = "idle"]
    /\ UNCHANGED <<closeVars, sent, writeVars, netVars, readVars>>

\* The second select, which does not wait.
SendTry(s) == call[s] = "try" /\ Queue(s)

SendFull(s) ==
    /\ call[s] = "try" /\ Len(out) = QueueSize
    /\ call' = [call EXCEPT ![s] = "wait"]
    /\ UNCHANGED <<closeVars, out, sent, accepted, writeVars, netVars, readVars>>

\* waitToSend: room, the context or the timer.
WaitSend(s) == call[s] = "wait" /\ Queue(s)

WaitDoneNever(s) ==
    /\ call[s] = "wait" /\ ctx = "done" /\ Timeouts
    /\ call' = [call EXCEPT ![s] = "idle"]
    /\ UNCHANGED <<closeVars, out, sent, accepted, writeVars, netVars, readVars>>
WaitDone(s) ==
    /\ call[s] = "wait" /\ ctx = "done"
    /\ call' = [call EXCEPT ![s] = "idle"]
    /\ UNCHANGED <<closeVars, out, sent, accepted, writeVars, netVars, readVars>>

WaitTimeout(s) ==
    /\ call[s] = "wait" /\ Timeouts
    /\ call' = [call EXCEPT ![s] = "slow"]
    /\ CloseWith
    /\ UNCHANGED <<transport, ctx, conn, handler, out, sent, accepted, writeVars, netVars, readVars>>

SlowReturns(s) ==
    /\ call[s] = "slow" /\ once = "done"
    /\ call' = [call EXCEPT ![s] = "idle"]
    /\ UNCHANGED <<closeVars, out, sent, accepted, writeVars, netVars, readVars>>

-------------------------------------------------------------------------------
(* writeLoop, fillBatch and writeMessages                                  *)

WriterExits ==
    /\ writer = "select" /\ ctx = "done"
    /\ writer' = "exited"
    /\ UNCHANGED <<closeVars, sendVars, batch, wire, stalled, netVars, readVars>>

WriterTakeKeeping ==
    /\ writer = "select" /\ out # <<>>
    /\ batch' = Append(batch, Head(out)) /\ out' = Tail(out)
    /\ writer' = "fill"
    /\ UNCHANGED <<closeVars, call, sent, accepted, wire, stalled, netVars, readVars>>
WriterTake ==
    /\ writer = "select" /\ out # <<>>
    /\ batch' = <<Head(out)>> /\ out' = Tail(out)
    /\ writer' = "fill"
    /\ UNCHANGED <<closeVars, call, sent, accepted, wire, stalled, netVars, readVars>>

WriterFillAll ==
    /\ writer = "fill" /\ out # <<>>
    /\ batch' = Append(batch, Head(out)) /\ out' = Tail(out)
    /\ UNCHANGED <<closeVars, call, sent, accepted, writer, wire, stalled, netVars, readVars>>
WriterFill ==
    /\ writer = "fill" /\ Len(batch) < MaxBatch /\ out # <<>>
    /\ batch' = Append(batch, Head(out)) /\ out' = Tail(out)
    /\ UNCHANGED <<closeVars, call, sent, accepted, writer, wire, stalled, netVars, readVars>>

WriterFilled ==
    /\ writer = "fill" /\ (Len(batch) >= MaxBatch \/ out = <<>>)
    /\ writer' = "write"
    /\ UNCHANGED <<closeVars, sendVars, batch, wire, stalled, netVars, readVars>>

\* The UDP server's socket takes datagrams for a session that is closed, too.  A
\* client that has left is only noticed when the network reports it.
Writable == transport = "udp" \/ (conn # "closed" /\ ~stalled)

\* The whole batch goes out: in one Write, or message by message.
WriteDone ==
    /\ writer = "write" /\ Writable
    /\ wire' = wire \o batch
    /\ writer' = "select"
    /\ UNCHANGED <<closeVars, sendVars, batch, stalled, netVars, readVars>>

\* Any first part of the batch may have gone out when it fails.
WireAfter == {wire \o SubSeq(batch, 1, n) : n \in 0..Len(batch)}

\* The batch cannot be encoded, the connection fails or the deadline passes.
WriteFailsGoingOn ==
    /\ writer = "write"
    /\ wire' \in WireAfter
    /\ writer' = "select"
    /\ CloseWith
    /\ UNCHANGED <<transport, ctx, conn, handler, sendVars, batch, stalled, netVars, readVars>>
WriteFailsSilently ==
    /\ writer = "write"
    /\ wire' \in WireAfter
    /\ writer' = "exited"
    /\ UNCHANGED <<closeVars, sendVars, batch, stalled, netVars, readVars>>
WriteFails ==
    /\ writer = "write"
    /\ wire' \in WireAfter
    /\ writer' = "failed"
    /\ CloseWith
    /\ UNCHANGED <<transport, ctx, conn, handler, sendVars, batch, stalled, netVars, readVars>>

WriterClosed ==
    /\ writer = "failed" /\ once = "done"
    /\ writer' = "exited"
    /\ UNCHANGED <<closeVars, sendVars, batch, wire, stalled, netVars, readVars>>

-------------------------------------------------------------------------------
(* Messages and pumpData                                                   *)

\* Data(), or the start of the loop over Messages().
StartReading ==
    /\ reader = "off"
    /\ reader' = "read" /\ via' \in {"Data", "Messages"}
    /\ UNCHANGED <<closeVars, sendVars, writeVars, netVars, data, dataClosed, taken>>

\* An empty bufio.Reader reads from the connection whatever has arrived.
ReadMoreAnew ==
    /\ transport # "udp" /\ reader = "read" /\ conn # "closed"
    /\ \E n \in 1..pending : buffered' = n /\ pending' = pending - n
    /\ UNCHANGED <<closeVars, sendVars, writeVars, arrived, dropped, readVars>>
ReadMore ==
    /\ transport # "udp" /\ reader = "read" /\ buffered = 0 /\ conn # "closed"
    /\ \E n \in 1..pending : buffered' = n /\ pending' = pending - n
    /\ UNCHANGED <<closeVars, sendVars, writeVars, arrived, dropped, readVars>>

\* deliver, on the UDP server's read loop, never waits for a session.  It may have
\* looked up the session before it closed.
Deliver ==
    /\ transport = "udp" /\ pending > 0
    /\ pending' = pending - 1
    /\ \/ buffered < DataSize /\ buffered' = buffered + 1 /\ UNCHANGED dropped
       \/ buffered = DataSize /\ dropped' = dropped + 1 /\ UNCHANGED buffered
    /\ UNCHANGED <<closeVars, sendVars, writeVars, arrived, readVars>>

\* wsTransport moves the deadline before each read, which fails once it is closed;
\* streamTransport does so only when nothing is buffered.
DeadlineFails == transport = "websocket" /\ Timeouts /\ conn = "closed"

ReadMessage ==
    /\ reader = "read" /\ buffered > 0 /\ ~DeadlineFails
    /\ buffered' = buffered - 1
    /\ reader' = "give"
    /\ UNCHANGED <<closeVars, sendVars, writeVars, arrived, pending, dropped, via, data, dataClosed, taken>>

\* udpTransport's select takes done or a datagram; elsewhere complete messages already
\* buffered come first.
ReadEnds ==
    IF transport = "udp" THEN conn = "closed" ELSE buffered = 0 \/ DeadlineFails

\* The connection is closed, the client has gone, the idle timeout passes or the
\* next frame is invalid.
ReadFails ==
    /\ reader = "read" /\ ReadEnds
    /\ reader' = "failed"
    /\ CloseWith
    /\ UNCHANGED <<transport, ctx, conn, handler, sendVars, writeVars, netVars, via, data, dataClosed, taken>>

\* Messages returns, and pumpData's deferred close runs.
ReaderClosed ==
    /\ reader = "failed" /\ once = "done"
    /\ reader' = "exited" /\ dataClosed' = (via = "Data")
    /\ UNCHANGED <<closeVars, sendVars, writeVars, netVars, via, data, taken>>

PumpSend ==
    /\ via = "Data" /\ reader = "give" /\ data < DataSize
    /\ data' = data + 1
    /\ reader' = "read"
    /\ UNCHANGED <<closeVars, sendVars, writeVars, netVars, via, dataClosed, taken>>

PumpDone ==
    /\ via = "Data" /\ reader = "give" /\ ctx = "done"
    /\ reader' = "exited" /\ dataClosed' = TRUE
    /\ UNCHANGED <<closeVars, sendVars, writeVars, netVars, via, data, taken>>

\* The application receives from the channel.
Receive ==
    /\ via = "Data" /\ data > 0
    /\ data' = data - 1 /\ taken' = taken + 1
    /\ UNCHANGED <<closeVars, sendVars, writeVars, netVars, reader, via, dataClosed>>

\* The body of the application's loop over Messages() goes on or breaks off.
LoopBody ==
    /\ via = "Messages" /\ reader = "give"
    /\ taken' = taken + 1
    /\ reader' \in {"read", "exited"}
    /\ UNCHANGED <<closeVars, sendVars, writeVars, netVars, via, data, dataClosed>>

-------------------------------------------------------------------------------
(* The client                                                              *)

ClientSends ==
    /\ conn = "open" /\ arrived < Received
    /\ arrived' = arrived + 1 /\ pending' = pending + 1
    /\ UNCHANGED <<closeVars, sendVars, writeVars, buffered, dropped, readVars>>

ClientStalls ==
    /\ transport # "udp" /\ conn = "open" /\ ~stalled
    /\ stalled' = TRUE
    /\ UNCHANGED <<closeVars, sendVars, writer, batch, wire, netVars, readVars>>

ClientLeaves ==
    /\ conn = "open"
    /\ conn' = "gone"
    /\ UNCHANGED <<transport, ctx, once, handler, sendVars, writeVars, netVars, readVars>>

-------------------------------------------------------------------------------
Close == CloseSession \/ ParentEnds \/ ContextCloses \/ CloseTransport \/ CloseCancel

SendStep(s) ==
    \/ SendTry(s) \/ SendFull(s)
    \/ WaitSend(s) \/ WaitDone(s) \/ WaitTimeout(s) \/ SlowReturns(s)

WriterStep ==
    \/ WriterExits \/ WriterTake \/ WriterFill \/ WriterFilled
    \/ WriteDone \/ WriteFails \/ WriterClosed

ReaderStep ==
    \/ ReadMore \/ ReadMessage \/ ReadFails \/ ReaderClosed \/ PumpSend \/ PumpDone

Next ==
    \/ Close \/ HandlerReturns \/ HandlerLeaves
    \/ \E s \in Sender : SendBegin(s) \/ SendStep(s)
    \/ WriterStep
    \/ StartReading \/ ReaderStep \/ Receive \/ LoopBody
    \/ Deliver \/ ClientSends \/ ClientStalls \/ ClientLeaves

Spec == Init /\ [][Next]_vars

\* Goroutines run; closing the connection unblocks the read and the write in
\* progress (the transport interface asks for it), and with timeouts a write
\* fails in the end by itself.  The body of a loop over Messages() ends when the
\* context has, as every handler is asked to.  Nobody has to send, receive or close.
Fairness ==
    /\ WF_vars(ContextCloses \/ CloseTransport \/ CloseCancel)
    /\ \A s \in Sender : WF_vars(SendStep(s))
    /\ WF_vars(\/ WriterExits \/ WriterTake \/ WriterFill \/ WriterFilled
               \/ WriteDone \/ WriterClosed
               \/ (conn = "closed" \/ Timeouts) /\ WriteFails)
    /\ WF_vars(\/ ReadMore \/ ReadMessage \/ ReaderClosed \/ PumpSend \/ PumpDone
               \/ conn # "open" /\ ReadFails
               \/ ctx = "done" /\ LoopBody)

FairSpec == Spec /\ Fairness

-------------------------------------------------------------------------------
(* Safety                                                                  *)

\* As long as no write has failed, every message a SendToClient call queued is
\* in the queue, in the batch or written: once, and in the order of the queue.
NothingLost ==
    writer \in {"select", "fill", "write"} =>
        accepted = wire \o (IF writer = "select" THEN <<>> ELSE batch) \o out

\* What the client gets is at all times a first part of what was queued, with at
\* most SendQueueSize + maxBatch messages waiting, also after a failed write.
Outbound == INSTANCE BoundedFifo WITH
                Capacity <- QueueSize + MaxBatch, put <- accepted, got <- wire
ImplementsFifo == Outbound!Spec

\* "Nothing closes a channel that another goroutine sends on" (session.go:35):
\* Data() is never closed under pumpData, whoever closes the session.
NoSendOnClosed == dataClosed => reader = "exited"

\* Messages decoded and not yet received by the application.
ReadAhead == data + (IF reader = "give" THEN 1 ELSE 0)

\* While the session is open, no message of the client is dropped on its way to
\* the application: pumpData gives one up only for the end of the session, and only
\* the UDP server drops one, for want of room.
InboundKept ==
    /\ ctx = "live" => arrived = pending + buffered + ReadAhead + taken + dropped
    /\ dropped > 0 => transport = "udp"

\* closeWith is waited for by senders, writer, reader and handler at once, and "close ...
\* must unblock readMessage and writeMessages" (session.go:22): somebody has begun the
\* close they wait for, and when it is through, the connection is closed and the context
\* done, so that no read, write or select of the session waits any longer.
CloseIsUnderWay ==
    /\ \/ writer = "failed" \/ reader = "failed" \/ handler = "closing"
       \/ \E s \in Sender : call[s] = "slow"
       => once # "open"
    /\ once = "done" => conn = "closed" /\ ctx = "done"

-------------------------------------------------------------------------------
(* Progress                                                                *)

\* A session that ends, for whatever reason, leaves no goroutine behind: the
\* writer, pumpData and every SendToClient call return, although the client may
\* have stopped reading and nobody may be receiving from Data(); and Messages()
\* "stops when the session closes" (types.go:21-22) however much is still buffered.
GoroutinesEnd ==
    ctx = "done" ~> /\ writer = "exited"
                    /\ via # "none" => reader = "exited"
                    /\ \A s \in Sender : call[s] = "idle"

\* A queued message is written, or the session ends: the writer never leaves an
\* open session behind with its queue unattended.  Without a WriteTimeout a client
\* that has stopped reading may hold it up.
QueuedIsWritten ==
    \A n \in 1..(Sends * Cardinality(Sender)) :
        Len(accepted) >= n ~> \/ Len(wire) >= n \/ ctx = "done"
                              \/ ~Timeouts /\ stalled

\* legacyHandler calls Data() "so a disconnect is noticed even if nobody reads"
\* (server.go:98-100): the session of a client that left is closed.
DisconnectNoticed == conn = "gone" /\ via = "Data" ~> once # "open"

===============================================================================
