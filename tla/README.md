# GopherSocks in TLA+

GopherSocks is a Go library of TCP, UDP, WebSocket and QUIC message servers
with one session API. This directory holds TLA+ models of its concurrent core
(admission, registry, contexts, shutdown, the session's data path), of its three
wire formats and of a QUIC connection from the options of both programs to the
last answer, the TLC configurations that check them on small instances, and TLAPS
proofs about the four servers, the session, the wire formats and the QUIC connection
for every instance.

Paths below are relative to `src/` of the repository; `PROJECT.json` maps each
definition to the lines it models.

    tlc -workers 2 -config TcpAdmission.cfg MCTcpServer.tla     check one run
    tlapm TcpServerProofs.tla                                   check the proofs of one module

## 1. Inventory

| Component | State | Operations | Correct when |
|---|---|---|---|
| `listener/server.go`, embedded in every server | `stopped`, `active` (atomic), `wg`, `byAddr` under `mu`, a context | enter, tryAdmit/release, add/remove, serveSession, serveContext, stop | counters exact, limit kept and no needless rejection, registry holds the open sessions, StopListener waits for what it says and returns |
| `listener/session.go` life cycle | `ctx`, `closeOnce` | newSession, closeWith, AfterFunc on the parent | closed once, in order, whoever is first; an ended context ends the session |
| `listener/session.go` data path | `out`, `data`, the goroutines writeLoop and pumpData | SendToClient, Messages, Data | FIFO out, nothing sent on a closed channel, bounded read-ahead, no goroutine left behind |
| `listener/stream.go` | `bufio.Reader`, write buffer | readMessage, writeMessages, close | one write per batch, buffered frames come first |
| `listener/tcp.go` | listener | Listen, Serve, accept, StopListener | as server.go |
| `listener/udp.go` | socket, one inbox per address | Serve, deliver, open, reapIdle | an address has one open session; silent ones are reaped and no others |
| `listener/quic.go` | socket, transport, listener, codecs by ALPN | Serve, handleConn, resolveCodecs | a dead connection gives its slot back; both ends use one codec |
| `listener/websocket.go` | listener, `http.Server` | Serve, upgrade, StopListener | as server.go with concurrent admission |
| `framing/framing.go` | none (a byte stream) | Append, Read of Legacy, Uvarint, Uint32 | decode(encode) is the identity under any chunking, limits, clean and unclean ends told apart |
| `client/quic.go` | connection, stream, codec, `sendBuf` under `sendMu` | Connect, Send, Receive, Close | both ends use one codec; concurrent Sends do not mix; nothing is left waiting by a Close or a silent client |
| `client/udp.go` | socket | Connect, Send, Receive | one system call each |
| `listener/base.go`, `listeneropts.go`, `clientopts.go` | configuration | option setters | the newest protocol is preferred and old clients are served, in whatever order options come; the rest are constants of the models |
| `listener.go`, `client.go`, `listener/errors.go`, `example/` | none | constructors, wrappers, error values | not modelled |

How they interact. A transport's Serve loop admits a connection (`active`),
registers its goroutine (`wg`, refused once `stopped`), creates a session whose
context is a child of Serve's, puts it into `byAddr` and starts the handler.
The session runs writeLoop and, with `Data()`, pumpData. `closeWith` can be
called by anybody: handler's end, read or write error, slow consumer, reaper,
StopListener, or the AfterFunc that `newSession` hangs on the session's context.
Contexts go server → (AfterFunc) → Serve → session; with StartListener Serve's
context is also a child of the server's. StopListener sets `stopped`, cancels the
server's context, closes the listener, closes the sessions of a snapshot and
waits for `wg`.

What is hard: AfterFunc functions run on goroutines of their own and race the
code that would have made them unnecessary; a session can be closed before it is
registered; the counter is incremented before it is compared; a client may come
back from an address whose old session is not gone; `select` takes any ready
case; Legacy frames have no escaping; which codec either end uses is the outcome
of two lists of options and a TLS handshake; a QUIC stream is unknown to the
server until its first frame. `PROJECT.json` lists the hazards by line.

## 2. Modules

| Module | Models | State ↔ code | Actions ↔ code |
|---|---|---|---|
| `Server` | `server.go`, newSession and closeWith, and the beginning and end of `Serve` that all transports share | `stopped active wg byAddr sctx` = the struct; `serve vctx watch unblock ln` = one Serve call with its context and two AfterFuncs; `acc tconn ctx once cause handler` per connection; `stop snapshot closing` per StopListener call | one action per lock region, atomic operation, cancellation or channel operation, e.g. `TryAdmit` = `active.Add(1)` and its comparison, `RejectFull` = `Add(-1)` and the close; `CloseRemove`, `CloseRelease`, `CloseTransport`, `CloseCancel` = the body of the Once; `StopBegin` ... `StopReturns` = `stop` |
| `TcpServer` | `tcp.go` | adds none | `Accept`, `AcceptPath` (the order of `Server`'s steps in the Serve goroutine), `AcceptFails` |
| `UdpServer` | `udp.go` | `dest arrived inbox silent`, `reaper reapSet reaping` | `Found`/`FirstContact` = the lookup in deliver, `Open`, `Deliver`, `ReapTick` ... `ReapScanned` = reapIdle |
| `QuicServer` | `quic.go` | `peer` = quic-go's view of a connection, `peerWatch` = the AfterFunc on `conn.Context()` | `Stream` = AcceptStream, `WatchPeer`, `AddWatched`, `PeerEndsSession`, `RefuseAndReturn` |
| `WebSocketServer` | `websocket.go` | `http` = the http.Server | `Request`/`Upgrade` (any number at a time), `HttpServe`, `HttpReturns`, `StopCloseHttp` |
| `Session` | data path of `session.go` on the transports of `stream.go`, `websocket.go` and `udp.go` | `transport` = which of them; `out`, `data`, positions of senders, writer and reader, `via` = how the application reads, inbound messages as counts (`buffered` = the bufio.Reader, or `udpTransport.in`), history `accepted`, `wire` | `SendBegin`...`SlowReturns`, `WriterTake`...`WriterClosed`, `ReadMore`...`PumpDone`; `Deliver` = deliver's select; `DeadlineFails`, `ReadEnds`, `Writable` = where the transports differ |
| `Framing` | `framing.go` | `codec`, `delim`, byte stream; `buf` of readOne, `need` of readPayload | `Write`, `ReadChunk` = one ReadSlice of Legacy, `ReadChunkEnd`; `ReadHeader`, `ReadPayload`, `ReadFullEnd` of the other two |
| `QuicLink` | `client/quic.go`, the options of both programs, resolveCodecs, tlsConfig and the codec choice of handleConn | `alpn codecs tlsProtos` = the server's QUICConfig, `offered table` = the client's; `negotiated cCodec sCodec`; `call sendMu sendBuf` = the Sends, `up down` = the two directions of the stream | `WithQUICCodec`...`WithQUICNextProtos` = one option each; `Listen`; `Dial`, `PickCodec`, `OpenStream` = Connect; `Lock`, `Encode`, `Write` = Send; `CloseStream`, `CloseConn` = Close; `AcceptStream`, `AcceptFails` = handleConn |
| `Admission` | abstract: what `MaxConnections` promises | `in`, `away` | implemented by TCP and QUIC |
| `BoundedFifo` | abstract: what the send queue promises | `put`, `got` | implemented by `Session` |
| `ServerProofs` | what holds of every server, proved once | | `Step`, `AnyStep` = what the steps of the four transports have in common |
| `TcpServerProofs`, `UdpServerProofs`, `QuicServerProofs`, `WebSocketServerProofs` | that each transport is such a server, and what follows for it | | |
| `SessionProofs`, `FramingProofs`, `QuicLinkProofs` | theorems about `Session`, `Framing` and `QuicLink` | | |
| `MC...` | constants for TLC | | |

`TcpServer`, `UdpServer`, `QuicServer` and `WebSocketServer` EXTEND `Server` and
add the transport's own steps; `Server!Shared` is what is the same for all.
Definitions such as `TryAdmitLate` or `WriterTakeKeeping`, just before the
definition they resemble, are plausible bugs. No specification uses them; each
shows that a property would notice it.

### Go semantics the models rely on

* Cancelling a context ends its children, with its cause, in the same step; each
  `context.AfterFunc` then runs on its own goroutine at any later time. The
  function `AfterFunc` returns prevents only a call that has not started.
* Callers of a `sync.Once` wait until the first has finished: `handler` and
  `closing` wait for `once[c] = "done"`, while the body advances by itself.
* Serve's deferred calls run in the order `unblock()`, `stop()`, `wg.Done()`. The
  `stop` of serveContext is two steps (server.go:93-94): `ServeUnwatch` withdraws the
  AfterFunc on the server's context, and only then `ServeCancel` ends Serve's own. With
  the caller's own context (`Background = FALSE`) a StopListener call may come between.
* Channels are FIFO for messages; which waiting sender comes next is left open.
* `http.Server.Close` before `Serve` makes Serve return `ErrServerClosed` and
  close the listener; `quic.Transport.Close` ends every connection's context.
* TLS takes the first protocol of the server's list that the client offers, and
  ends the handshake when there is none. A QUIC stream becomes known to the other
  end with its first frame or its end; closing a connection drops what is under way.
* A WebSocket connection that is closed refuses a new read deadline, but without
  one its buffered messages can still be read.

### Abstractions

* One `Serve` call per server and one connection per element of `Conn`. A client
  that reconnects is a second element with the same `AddrOf`.
* The kernel's accept queue is part of `Accept`. A listener that was closed may
  still fail Accept later or earlier; Accept may fail for any reason.
* `ErrSessionClosed` stands for `ErrSlowConsumer`, `DeadlineExceeded` and the
  read and write errors as causes: no property tells them apart.
* A handler given to `Serve` may return at any time; `legacyHandler`
  (`Background = TRUE`) only when its context is done.
* UDP: `silent[c]` stands for "ReadTimeout has passed since touch". Empty and
  oversized datagrams, which change nothing, are left out.
* Inbound messages in `Session` are counts: one reader cannot reorder them.
  SendToClient's length check is left out. A failing write may have sent any
  first part of its batch, in whole messages. A UDP session that is reaped is
  closed by `CloseSession`; `UdpServer` has the reaper itself.
* `Framing` uses base 3 instead of 256 (Uvarint digits have a mark like bit 7),
  so that length bytes, delimiters and payload bytes collide within a few bytes;
  the arithmetic is the code's with 256 replaced by `Base`. Frames of which no
  byte got through a cut have not been sent as far as the decoder can tell.
* In `QuicLink` a codec is a value; that two ends with equal codecs understand each
  other is what `Framing` shows. Reading with another codec yields some message or
  nothing. A call that has encoded its message may or may not be inside Write when
  Close comes: after Close it may still be written or fail. The delimiters of both
  ends' Legacy codecs are taken to be equal: with different ones two programs do not
  agree in the sense of `Agreed`. Protocol lists that an application assigns name each
  protocol once.

## 3. Runs

Bounds are in the `.cfg` files. CHECK_DEADLOCK is FALSE everywhere because a
stopped server, an ended session and a finished stream really stop. Symmetry over
connections of one address, calls of StopListener and senders is used only in runs
without liveness properties.
What all transports promise is checked where the transport can break it in a way of its
own, and proved for each of them (section 4).

| Run | Shows |
|---|---|
| TcpAdmission | two connections for one slot, two overlapping StopListener calls, application contexts that end: both counters (`Accounting`), `StopComplete`, `StopIsHeard` (whatever StopListener waits for has been told to end), `NothingStartsAfterStop`, and the refinement of `Admission`, which includes the limit |
| TcpReconnect | StartListener, a client that comes back from its address: `RegistryLive`, `CloseOrder`, `KeepsNewer`, and that StopListener returns (`StopTerminates`) and an ended context closes its session and frees the slot (`EndedIsClosed`) |
| UdpStop | the bound of the inbox (`UdpTypeOK`) and the stop sequence (`StopIsHeard`) while an address opens its first and its second session and the reaper runs |
| UdpReap | `SilentIsReaped`; deliver, the reaper and StopListener find every open session (`OpenIsFound`); an address never has two open sessions (`OneSession`) |
| QuicStop | counters (`Accounting`) and stop sequence (`StopIsHeard`) on handleConn's hand-written paths, and `DeadIsEnding`: the session of a dead connection is closed or about to be |
| WsStop | the limit (`AdmissionLimit`) with concurrent admission; wherever Serve is in its hand-over to the http.Server, StopListener ends it (`WsStopIsHeard`) and returns |
| SessionSafety | three senders, a queue of one, batches of two, failing writes, on each transport: `NothingLost` and the refinement of `BoundedFifo`; for Data() and for Messages(): `NoSendOnClosed`, `InboundKept` (only a full UDP inbox drops), bounded read-ahead (`TypeOK`); nobody waits for a close that has not begun (`CloseIsUnderWay`) |
| SessionProgress | on each transport, no timeouts and nobody obliged to receive: `GoroutinesEnd` (writer, pumpData, senders, and the loop over Messages()), `QueuedIsWritten` |
| Framing | `RoundTrip`, `NoStall`, `CleanEnd`, `AllOrError`, the limits (`TypeOK`), for Uint32, Uvarint, and Legacy with delimiters of one byte, two equal and two different bytes |
| QuicLink | options in any order, then a connection: `FramedAlike`, `NewestPreferred`; two concurrent Sends with Close or the end of the connection at any point: `InOrder`, `NobodyStuck`, `NobodyWaits`, `EchoAnswered` |
| QuicStaleSession, SessionDisconnect | the two disagreements listed below |

Why the bounds are enough. The races are between one connection's accept path,
its closing, one Serve and one StopListener; a second connection is needed for
the limit and for a reused address, a second StopListener for overlapping
snapshots. With MaxConnections = 1 both connections compete for the slot; with 2
both can be registered, one displacing the other. The queue and batch sizes are
the smallest at which senders have to wait and a batch is cut off; three inbound
messages are one more than Data() and pumpData hold, and enough to fill a UDP
inbox of one. Payloads of five bytes are long enough to hold a whole Legacy frame
with any of the delimiters, give Uvarint a second digit and are two over the limit;
their two byte values write the lengths 0, 1, 3 and 4 and parts of delimiters, so
that frames seem to end inside payloads and across their ends; `BufSize` is smaller
than a frame, so that ReadSlice returns full buffers. In QuicLink two options can
re-register the default protocol, reorder two protocols, replace the list before or
after a codec is registered, or leave a protocol without a codec;
three protocols are the default one and two that either
end may prefer differently; a window of one frame makes the second Send block in
Write with the lock held. `TypeOK` of the servers (other than the UDP server's) and of
`QuicLink` is proved and not listed in their runs.

### Fairness

Weak fairness of goroutines that can take a step: the Serve goroutine, AfterFunc
functions, the body of closeWith, the accept path, a StopListener call that has
begun. Go schedules goroutines and closes unblock the calls in progress (the
comment on `transport.close` asks for that). A handler is assumed to return once
its session's context is done, which `legacyHandler` does; nothing is assumed
while the context is live. With timeouts a write fails in the end. Clients, errors,
StopListener calls, and the application's sends and receives are never fair. In
`Session` the disjunctions under one WF are the steps of one goroutine, and in
`Server` each step is taken at most once per connection or server, so that
fairness of the disjunction is fairness of each. In SessionProgress the body of a
loop over Messages() ends once the context is done, as handlers are asked to. In
`QuicLink` the handler reads and answers, the client receives, and timers fire
(AcceptStream has a timeout even when ReadTimeout is 0); nobody has to call Send
or Close.

### Disagreements between code and documentation

Two runs check a sentence of the repository and find it violated:

| Run | The text | What happens |
|---|---|---|
| QuicStaleSession | server.go:120: GetActiveSessions returns the open sessions | on a running server, the connection ends between the AfterFunc (quic.go:258) and add (quic.go:260): the session is closed first and registered afterwards, and nothing removes it until its address is used again |
| SessionDisconnect | server.go:98: a disconnect is noticed even if nobody reads | not once Data() is full: pumpData waits in its select and nothing reads the connection |

Further sentences are stated in the modules, marked as not kept. No run checks
them; TLC refutes each one when it is added to the run named in place of its
properties (and without SYMMETRY).

| Definition | Run | The text | What happens |
|---|---|---|---|
| `RegistryOnlyOpen` | TcpAdmission | server.go:120 | the same race as above with the server's context: it ends between newSession (tcp.go:121) and add |
| `ContextCancelledLast` | TcpReconnect | session.go:207-209: the context is cancelled last | when a parent ends, the context is done before closeWith starts |
| `StopCauseDocumented` | TcpAdmission | README:505, the close causes | Serve's cancel(nil) can beat the AfterFunc: `context.Canceled` |
| `StoppedMeansUnbound` | TcpAdmission | tcp.go:142: StopListener stops accepting | a stop before Serve's Listen: the socket bound afterwards stays open |
| `ReapedIsSilent` | UdpReap | base.go:97: closes a session that sends nothing | a datagram between comparison and close |
| `FramingFollowsALPN` | QuicLink | quic.go:33: the framing is chosen by the ALPN protocol | a tls.Config of the application's own lists a protocol that no WithQUICCodec names: handleConn uses the framing of the default protocol |
| `PayloadLimit` | Framing | framing.go:39: max limits the payload length | a frame that ends where ReadSlice stops is not compared with it |
| `ImplementsAdmission` | WsStop, three connections | server.go:51: a full server rejects | a connection being rejected makes a server with room reject another |

Three more are visible in the models and not stated: Messages() goes on yielding
frames its reader has buffered after the session was closed (types.go:21-22 says
it stops; `GoroutinesEnd` says that it stops in the end), `wg` does not count
writeLoop and pumpData (README:21 says that StopListener waits for the session's
goroutines), and the order in which a client lists its protocols (clientopts.go:71)
decides nothing when the server lists more than one of them.

## 4. Proofs

Every safety property a passing run checks is proved: each invariant, each action
property and both refinements. The proofs are about the modules as TLC runs them, for all
values of the constants.

### The servers

`ServerProofs` proves about any server, for every finite set of connections, every
set of addresses and of StopListener calls and every limit:

| Theorem | | for |
|---|---|---|
| `ServerTypes` | `[]TypeOK`: no counter below zero | any |
| `ServerAccounting` | `[]Accounting`: `active` and `wg` are exact | any |
| `ServerLimit` | `[]AdmissionLimit` | any |
| `ServerStartsNothing` | `NothingStartsAfterStop` | any |
| `ServerStops` | `[]StopComplete` | any |
| `ServerTellsSessions` | `[]SessionsHear`, the sessions' part of `StopIsHeard` | any |
| `ServerKeepsNewer` | `KeepsNewer` | any |
| `ServerRegistry` | `[]RegistryLive` | orderly |
| `ServerCloseOrder` | `[]CloseOrder` | orderly |

and each transport's module derives, for its own specification:

| | TCP | UDP | QUIC | WebSocket |
|---|---|---|---|---|
| types | `TypeCorrect` | `UdpTypeCorrect` | `QuicTypeCorrect` | `WsTypeCorrect` |
| counters | `CountersExact` | `UdpCounts` | `QuicCounts` | `WsCounts` |
| limit | `LimitKept` | `UdpLimit` | `QuicLimit` | `WsLimit` |
| StopListener | `NothingStarts`, `StopIsComplete` | `UdpStopIsComplete` | `QuicStopIsComplete` | `WsStopIsComplete` |
| what it waits for | `StopIsHeardByAll` | `UdpStopIsHeard` | `QuicStopIsHeard` | `WsStopIsHeardByAll` |
| registry | `RegistryHoldsTheOpen`, `ClosedInOrder`, `NewerStays` | `UdpRegistryHoldsTheOpen` | not kept | `WsRegistryHoldsTheOpen` |
| its own | `AdmissionImplemented` | `OneSessionPerAddress`, `OpenSessionsAreFound` | `DeadSessionsEnd`, `QuicAdmission` | |

Assumptions: those of `Server` (Conn finite and without None, AddrOf total,
MaxConnections positive, the two flags Boolean) and of `UdpServer` (bounds are
naturals). TLC evaluates them in every run.

The argument. `AnyServer` takes the steps of `Server` in any order their guards
allow: any connection may arrive at any time, any created session may be closed by
anybody, Serve may leave its loop whenever it likes. `OrderlyServer` closes sessions
from outside only once they have been registered. Each transport is shown to be one
of them (`TcpStep`, `UdpStep`, `QuicStep`, `WsStep`): its steps are theirs, or leave
their variables alone. QUIC is only `AnyServer`, because the watch on a connection
may close a session before `add`; this is the disagreement QuicStaleSession shows,
and `RegistryLive` is what it costs. UDP needs an invariant for it, `Reapable`
(reapIdle closes sessions it found in the registry), and WebSocket `HttpLater` (the
`http.Server` exists when the AfterFunc that closes it is armed, and while it has an
open listener Serve is inside `srv.Serve`, so that no request comes later).

`TypeOK` is not inductive, since a decrement could leave the naturals; `Types` says
"integer" instead, and the counters' equations give back that they are natural.
`Life` ties the positions of a connection together: the handler runs only after
Spawn, once[c] leaves "open" only for a session that has been created, and so on.
`Closed` says what has happened at each position of closeWith (a "done" session has
its connection closed and its context ended). With them, `StepMoves` says that a step
moves at most one connection into or out of the counted set, `StepGoroutines` the
same of the goroutines; cardinalities turn that into the two equations. `StopComplete`
follows from `Stopping`: what a StopListener call past "wait" has seen stays true,
since `stopped` keeps `wg` from rising and `wg = 0` means that no goroutine is left.
`Registry` says that, while Serve's context is live, a context ends only by the last
step of closeWith, so that an orderly session is registered before anything ends it.

`StopIsHeard` is as much of "StopListener returns" as can be said without fairness.
It is about every goroutine that `wg` counts: one with a session waits on the session's
context, one that has none yet (`AcceptStream`) on Serve's (`ContextOf`).
Its inductive part `Told` follows the end of the server's context to the sessions:
Serve's AfterFunc is no longer armed once that context has ended, it is not "done"
before Serve's context has ended, and when Serve has withdrawn it, Serve is about to
end that context itself, which it does before it leaves. Between the two nothing but
Serve's next step would end it, which is why `AboutToCancel` has that position; without
it TLC refutes `StopIsHeard`. A connection in the accept path after that finds
Serve's context over when it creates its session. `Waited` is the part
about closeWith. The accept call's part needs that StopListener closes what Serve
listens on, which is each transport's own step (`TcpPasses` ... `WsPasses`): Serve
has bound its listener before it is under way (`Bound`), nobody binds it again, and
`enter` refuses a Serve that comes later (`HearingStep`). For WebSocket the
`http.Server` may hold the listener, and one that was shut stays shut (`StaysShut`).

The refinement of `Admission` needs that connections are admitted one at a time:
`Serial` for TCP, where Serve takes one through accept, `OneByOne` for QUIC, where it
does so up to `enter`. This is what WebSocket lacks (see above): `WsLimit` holds, the
refinement does not. `OneSessionPerAddress` rests on `Exclusive`: the read loop opens
one session at a time, for an address of which it found none, and a registered
session stays registered until its own `remove` (`OpenSessionsAreFound`).
`DeadSessionsEnd` rests on `Watched`: from before `add` to the end the AfterFunc is armed, running, or has
closed the session.

### The session

`SessionProofs` proves, for every set of senders, all capacities, any number of
messages either way, with or without timeouts and on each transport:

| Theorem | |
|---|---|
| `TypeCorrect` | `[]TypeOK`, with the bounds of queue, batch and read-ahead |
| `NothingIsLost` | `[]NothingLost` |
| `FifoImplemented` | the refinement of `BoundedFifo` |
| `WrittenInOrder` | what is on the wire is a first part of what was accepted, also after a failed write |
| `DataClosedByReader` | `[]NoSendOnClosed` |
| `InboundIsKept` | `[]InboundKept` |
| `ClosesAreBegun` | `[]CloseIsUnderWay` |

The argument. The actions fall into closing, sending, writing, reading and the
client, and five lemmas say what each group leaves alone, so that the outbound and the
inbound half have invariants of their own. Outbound: what was accepted is wire,
batch and queue in this order (`NothingLost` itself, which a failed write ends), and
`Waiting`, the part of it that stays true then: no more is outstanding than batch and
queue hold. Inbound: the messages that are pending, buffered, held, received or
dropped are no more than have arrived (`Counted`); pumpData closes the channel last.
`CloseIsUnderWay` is inductive by itself, given the order in which closeWith goes on.

### The wire formats

`FramingProofs` proves, for every base (256 in the code), all delimiters, payload
bytes, limits and buffer sizes, and for streams of any length:

| Theorem | |
|---|---|
| `FramingTypes` | `[]TypeOK`, with the bounds of the decoders |
| `ReadsBack` | `[]RoundTrip` |
| `EndsTold` | `[]CleanEnd` |
| `AllOrNothing` | `[]AllOrError`, also for ambiguous Legacy payloads |
| `NeverStalls` | `[]NoStall`: a decoder that cannot read on has returned all that was sent |

Assumptions: those of `Framing` (the base has two digits, delimiters are not empty,
no payload is longer than two digits can say, as `legacy.MaxPayload` requires).

The argument. Varint, Uvarint's value, Legacy's non-empty payloads and the position
at which a frame ends are recursive functions. What they compute is shown by
induction in the form the provers can use: a set of naturals that is not all of Nat
leaves out a least number (`Least`, from `NatLessThanWellFounded`; `Induction`,
`StrongInduction`). The lemmas are `Totals`, `NonEmptys`, `VarintEncodes` and
`UvarintReads`. The invariant then speaks of one number, r, the bytes that have been
read. `Wire`: the stream is what follows r in all that was written, up to the end or
to the cut. `Headed` (Uint32, Uvarint): r is the end of the last frame returned, or
of the header after it. `Trailed` (Legacy): the buffer starts at some s, and should a
frame start there, then exactly the payloads before it have been returned, which holds
even out of step: a frame end that coincides with a real one is that frame's, as its
length field says where it starts (`Trailer`). This gives `AllOrError`. In step, which
the decoder is for as long as what it has touched is unambiguous, the buffer is a
proper first part of a frame, since ReadSlice stops at the last byte of a delimiter
and therefore never runs past a frame (`NoOvershoot`).

### The QUIC connection

`QuicLinkProofs` proves about `QuicLink!Spec`, for any protocols, codecs, lists
and Send calls, any number of options and any window:

| Theorem | |
|---|---|
| `TypeCorrect` | `[]TypeOK` |
| `FramingAgrees` | `[]FramedAlike` |
| `NewestWins` | `[]NewestPreferred` |
| `SentInOrder` | `[]InOrder` |
| `WaitsAreAttended` | `[]NobodyStuck` |

Assumptions: those of `QuicLink` (the default protocol and its codec exist, nil is
neither, assigned lists name each protocol once, the window is positive).

The argument. `LinkInv` strengthens `TypeOK` with three facts: each list names a
protocol once; what either end has picked is what the negotiated protocol means
to it, which stays true because options are applied before the handshake only
(`Linked`); and whoever encodes or writes holds `sendMu`, the buffer then holding
its frame (`Locked`). `FramedAlike` follows. For `NewestPreferred`, `Ordered` says
that no protocol in ALPN stands behind one added earlier. It is inductive because
`WithoutKeepsOrder` and `PreferKeepsOrder`, lemmas about the loop of WithQUICCodec,
say that the other protocols keep their order; `FirstCommon` adds what TLS does.
For `InOrder`, `Flow` ties histories and stream together from the moment the
server picks its codec; without `Locked` a Write could send another call's frame.
`NobodyStuck` follows from `Attended`: the lock's holder is where it has not yet given
it back, and a handler that has left has closed the connection.

### Only model-checked

Liveness: `StopTerminates`, `EndedIsClosed`, `SilentIsReaped`, `GoroutinesEnd`,
`QueuedIsWritten`, `NobodyWaits`, `EchoAnswered`. TLAPS cannot reason about fairness and
ENABLED; what a proof can say of them without is `StopIsHeard`, `OpenIsFound`,
`CloseIsUnderWay` and `NobodyStuck`: whoever waits, somebody is there to end the wait.
And the two runs that find a disagreement.

## 5. Not modelled

Options that set one field, and their validation; certificates and TLS beyond
ALPN; error types, loggers, the top-level wrappers, the examples, the UDP client
(no state or no logic of their own); a second Connect of one QUIC client, which
replaces its connection and leaves the first one open; overlong varints, which no
sender of this code writes; several Serve calls on one server.

A handler or an announce callback that calls StopListener waits for itself. The
models assume that it does not.

## 6. Plan

Done: the shared server, all four transports with their message paths, the session,
the framings, the QUIC connection from both programs' options to its end, and the
proofs of every safety property of theirs.

1. Several Serve calls on one server: contexts and AfterFuncs per call, `stopped`
   shared.
2. A second Connect of a client, which leaves its first connection open.
3. The sentences of section 3 that are not kept, with the strongest one that is, proved:
   for `RegistryOnlyOpen` on a QUIC server, how long a stale entry can stay.
