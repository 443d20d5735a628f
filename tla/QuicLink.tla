------------------------------- MODULE QuicLink -------------------------------
(***************************************************************************)
(* One QUIC connection from end to end: the options of both programs       *)
(* decide which protocol TLS negotiates and how either end frames its      *)
(* messages (listener/base.go, listener/quic.go, clientopts.go), then      *)
(* client/quic.go and handleConn open the stream, and messages go to a     *)
(* handler that answers each of them.                                      *)
(*                                                                         *)
(* A codec is a value: two ends with the same one understand each other    *)
(* (Framing shows that), two ends with different ones do not.  A message   *)
(* is the Send call that sends it.  The delimiters of the two Legacy       *)
(* codecs are taken to be equal.                                           *)
(***************************************************************************)
EXTENDS Naturals, Sequences, SequencesExt

CONSTANTS
    Name,     \* ALPN protocols
    Default,  \* DefaultALPN
    Codec,    \* framings
    Legacy,   \* the framing of Default
    None,     \* nil
    Pairs,    \* <<protocol, codec>> as the programs may register them
    Lists,    \* lists of protocols the programs may assign
    Options,  \* bound: options a program applies
    Sends,    \* the calls of QUICClient.Send
    Junk,     \* what reading with another codec may return
    Window    \* frames the connection takes before Write blocks

ASSUME NameAssumption   == Default \in Name /\ None \notin Name
ASSUME CodecAssumption  == Legacy \in Codec /\ None \notin Codec
ASSUME PairAssumption   == Pairs \subseteq Name \X Codec
ASSUME ListAssumption   == Lists \subseteq Seq(Name) /\ \A list \in Lists : IsInjective(list)
ASSUME SendAssumption   == None \notin Sends /\ Junk \notin Sends
ASSUME BoundAssumption  == Options \in Nat /\ Window \in Nat \ {0}

VARIABLES
    setup,       \* the server: "options", "listening" or "failed"
    alpn,        \* QUICConfig.ALPN
    codecs,      \* QUICConfig.Codecs
    tlsProtos,   \* NextProtos of QUICConfig.TLSConfig
    added,       \* history: protocols in the order the server's program added them
    offered,     \* the client's NextProtos
    table,       \* the client's Codecs
    applied,     \* number of options applied, of the program that is being set up
    client,      \* where Connect and Close are
    conn,        \* "none", "open" or "closed"
    negotiated,  \* ConnectionState().TLS.NegotiatedProtocol
    cCodec,      \* the codec Connect chose
    sCodec,      \* the codec handleConn chose
    handler,     \* "none", "waiting" in AcceptStream, "serving", or "left"
    call,        \* where each Send is
    sendMu,      \* the Send that holds it
    sendBuf,     \* the message whose frame it holds
    sent,        \* history: messages in the order their Write happened
    up,          \* frames on the way to the server
    fin,         \* the client has closed its side of the stream
    got,         \* history: messages the handler has read
    down,        \* answers on the way to the client
    received     \* history: messages Receive has returned

serverSetup == <<setup, alpn, codecs, tlsProtos, added>>
clientSetup == <<offered, table>>
link        == <<client, conn, negotiated, cCodec, sCodec, handler>>
sending     == <<call, sendMu, sendBuf, sent>>
answering   == <<got, down, received>>
vars == <<serverSetup, clientSetup, applied, link, sending, up, fin, answering>>

Message == Sends \cup {Junk}
NoCodecs == [p \in Name |-> None]

TypeOK ==
    /\ setup \in {"options", "listening", "failed"}
    /\ alpn \in Seq(Name) /\ tlsProtos \in Seq(Name) /\ added \in Seq(Name)
    /\ offered \in Seq(Name)
    /\ codecs \in [Name -> Codec \cup {None}] /\ table \in [Name -> Codec \cup {None}]
    /\ applied \in 0..Options
    /\ client \in {"options", "dialed", "codec", "open", "closing", "closed", "refused", "failed"}
    /\ conn \in {"none", "open", "closed"}
    /\ negotiated \in Name \cup {None}
    /\ cCodec \in Codec \cup {None} /\ sCodec \in Codec \cup {None}
    /\ handler \in {"none", "waiting", "serving", "left"}
    /\ call \in [Sends -> {"idle", "waiting", "locked", "encoded", "returned"}]
    /\ sendMu \in Sends \cup {None} /\ sendBuf \in Sends \cup {None}
    /\ sent \in Seq(Sends) /\ up \in Seq(Sends) /\ fin \in BOOLEAN
    /\ got \in Seq(Message) /\ down \in Seq(Message) /\ received \in Seq(Message)

Init ==
    /\ setup = "options" /\ alpn = <<Default>> /\ codecs = NoCodecs
    /\ tlsProtos = <<>> /\ added = <<Default>>
    /\ offered = <<Default>> /\ table = NoCodecs /\ applied = 0
    /\ client = "options" /\ conn = "none" /\ negotiated = None
    /\ cCodec = None /\ sCodec = None /\ handler = "none"
    /\ call = [s \in Sends |-> "idle"] /\ sendMu = None /\ sendBuf = None
    /\ sent = <<>> /\ up = <<>> /\ fin = FALSE
    /\ got = <<>> /\ down = <<>> /\ received = <<>>

-------------------------------------------------------------------------------
(* The server's options and Listen                                         *)

\* The loop that skips p in a list that names each protocol once.
Without(list, p) ==
    IF p \in ToSet(list)
    THEN [i \in 1..(Len(list) - 1) |-> IF \E k \in 1..i : list[k] = p THEN list[i + 1] ELSE list[i]]
    ELSE list

\* The newest first.
Prefer(p, list) == <<p>> \o Without(list, p)

ApplyServerOption == setup = "options" /\ applied < Options /\ applied' = applied + 1

WithQUICCodecLast(p, c) ==
    /\ ApplyServerOption
    /\ codecs' = [codecs EXCEPT ![p] = c]
    /\ alpn' = Append(Without(alpn, p), p)
    /\ added' = Append(added, p)
    /\ UNCHANGED <<setup, tlsProtos, clientSetup, link, sending, up, fin, answering>>
WithQUICCodec(p, c) ==
    /\ ApplyServerOption
    /\ codecs' = [codecs EXCEPT ![p] = c]
    /\ alpn' = Prefer(p, alpn)
    /\ added' = Append(added, p)
    /\ UNCHANGED <<setup, tlsProtos, clientSetup, link, sending, up, fin, answering>>

\* The application's own option assigns QUICConfig.ALPN, "most preferred first".
SetALPN(list) ==
    /\ ApplyServerOption
    /\ alpn' = list
    /\ added' = Reverse(list)
    /\ UNCHANGED <<setup, codecs, tlsProtos, clientSetup, link, sending, up, fin, answering>>

WithTLSConfig(list) ==
    /\ ApplyServerOption
    /\ tlsProtos' = list
    /\ UNCHANGED <<setup, alpn, codecs, added, clientSetup, link, sending, up, fin, answering>>

\* resolveCodecs: the codec of each protocol the server accepts; None, an error.
Resolved(p) == IF codecs[p] = None /\ p = Default THEN Legacy ELSE codecs[p]
Served(p) == IF p \in ToSet(alpn) THEN Resolved(p) ELSE None

\* tlsConfig: NextProtos is filled in unless the application gave its own.
ServerProtos == IF tlsProtos = <<>> THEN alpn ELSE tlsProtos

Listen ==
    /\ setup = "options"
    /\ setup' = IF alpn # <<>> /\ \A p \in ToSet(alpn) : Served(p) # None
                THEN "listening" ELSE "failed"
    /\ applied' = 0
    /\ UNCHANGED <<alpn, codecs, tlsProtos, added, clientSetup, link, sending, up, fin, answering>>

-------------------------------------------------------------------------------
(* The client's options and Connect                                        *)

ApplyClientOption ==
    /\ setup = "listening" /\ client = "options"
    /\ applied < Options /\ applied' = applied + 1

WithClientQUICCodec(p, c) ==
    /\ ApplyClientOption
    /\ table' = [table EXCEPT ![p] = c]
    /\ offered' = Prefer(p, offered)
    /\ UNCHANGED <<serverSetup, link, sending, up, fin, answering>>

WithQUICNextProtos(list) ==
    /\ ApplyClientOption
    /\ offered' = list
    /\ UNCHANGED <<serverSetup, table, link, sending, up, fin, answering>>

\* TLS picks the first of the server's protocols that the client offers, and ends
\* the handshake when there is none.
Common == {i \in DOMAIN ServerProtos : ServerProtos[i] \in ToSet(offered)}

Dial ==
    /\ setup = "listening" /\ client = "options"
    /\ \E i \in Common : (\A j \in Common : i <= j) /\ negotiated' = ServerProtos[i]
    /\ client' = "dialed" /\ conn' = "open"
    /\ UNCHANGED <<serverSetup, clientSetup, applied, cCodec, sCodec, handler, sending, up, fin, answering>>

DialFails ==
    /\ setup = "listening" /\ client = "options"
    /\ client' = IF Common = {} THEN "refused" ELSE "failed"
    /\ UNCHANGED <<serverSetup, clientSetup, applied, conn, negotiated, cCodec, sCodec, handler, sending, up, fin, answering>>

\* codecFor.
ClientCodec(p) == IF table[p] = None /\ p = Default THEN Legacy ELSE table[p]

PickCodecOffered ==
    /\ client = "dialed"
    /\ cCodec' = ClientCodec(Head(offered))
    /\ IF cCodec' = None THEN client' = "failed" /\ conn' = "closed"
                         ELSE client' = "codec" /\ UNCHANGED conn
    /\ UNCHANGED <<serverSetup, clientSetup, applied, negotiated, sCodec, handler, sending, up, fin, answering>>
PickCodec ==
    /\ client = "dialed"
    /\ cCodec' = ClientCodec(negotiated)
    /\ IF cCodec' = None THEN client' = "failed" /\ conn' = "closed"
                         ELSE client' = "codec" /\ UNCHANGED conn
    /\ UNCHANGED <<serverSetup, clientSetup, applied, negotiated, sCodec, handler, sending, up, fin, answering>>

\* OpenStreamSync sends nothing: the server learns of the stream with its first frame.
OpenStream ==
    /\ client = "codec"
    /\ \/ conn = "open" /\ client' = "open" /\ UNCHANGED conn
       \/ client' = "failed" /\ conn' = "closed"
    /\ UNCHANGED <<serverSetup, clientSetup, applied, negotiated, cCodec, sCodec, handler, sending, up, fin, answering>>

\* Close: the stream, then the connection; sendMu is not held.
CloseStream ==
    /\ client = "open"
    /\ client' = "closing" /\ fin' = TRUE
    /\ UNCHANGED <<serverSetup, clientSetup, applied, conn, negotiated, cCodec, sCodec, handler, sending, up, answering>>

CloseConn ==
    /\ client = "closing"
    /\ client' = "closed" /\ conn' = "closed"
    /\ UNCHANGED <<serverSetup, clientSetup, applied, negotiated, cCodec, sCodec, handler, sending, up, fin, answering>>

\* The idle timeout, or StopListener closing the transport.
ConnDies ==
    /\ conn = "open"
    /\ conn' = "closed"
    /\ UNCHANGED <<serverSetup, clientSetup, applied, client, negotiated, cCodec, sCodec, handler, sending, up, fin, answering>>

-------------------------------------------------------------------------------
(* Send and Receive                                                        *)

SendBegin(s) ==
    /\ client \in {"open", "closing", "closed"}
    /\ call[s] = "idle"
    /\ call' = [call EXCEPT ![s] = "waiting"]
    /\ UNCHANGED <<serverSetup, clientSetup, applied, link, sendMu, sendBuf, sent, up, fin, answering>>

LockUnheld(s) ==
    /\ call[s] = "waiting"
    /\ call' = [call EXCEPT ![s] = "locked"]
    /\ sendMu' = s
    /\ UNCHANGED <<serverSetup, clientSetup, applied, link, sendBuf, sent, up, fin, answering>>
Lock(s) ==
    /\ call[s] = "waiting" /\ sendMu = None
    /\ call' = [call EXCEPT ![s] = "locked"]
    /\ sendMu' = s
    /\ UNCHANGED <<serverSetup, clientSetup, applied, link, sendBuf, sent, up, fin, answering>>

\* Append, into the buffer all calls share.
Encode(s) ==
    /\ call[s] = "locked"
    /\ call' = [call EXCEPT ![s] = "encoded"]
    /\ sendBuf' = s
    /\ UNCHANGED <<serverSetup, clientSetup, applied, link, sendMu, sent, up, fin, answering>>

Unlock(s) == call' = [call EXCEPT ![s] = "returned"] /\ sendMu' = None

\* Write puts in what the buffer holds and blocks while the window is full.  A Write
\* that is blocked when the stream is closed may still go on, ahead of the stream's end;
\* one that comes later fails.  Which of the two a call is, is left open.
Write(s) ==
    /\ call[s] = "encoded" /\ conn = "open" /\ Len(up) < Window
    /\ up' = Append(up, sendBuf)
    /\ sent' = Append(sent, s)
    /\ Unlock(s)
    /\ UNCHANGED <<serverSetup, clientSetup, applied, link, sendBuf, fin, answering>>

\* The payload is too long for the codec, or the stream or connection is closed.
SendFailsLocked(s) ==
    /\ \/ call[s] = "locked"
       \/ call[s] = "encoded" /\ (conn = "closed" \/ fin)
    /\ call' = [call EXCEPT ![s] = "returned"]
    /\ UNCHANGED <<serverSetup, clientSetup, applied, link, sendMu, sendBuf, sent, up, fin, answering>>
SendFails(s) ==
    /\ \/ call[s] = "locked"
       \/ call[s] = "encoded" /\ (conn = "closed" \/ fin)
    /\ Unlock(s)
    /\ UNCHANGED <<serverSetup, clientSetup, applied, link, sendBuf, sent, up, fin, answering>>

Receive ==
    /\ client = "open" /\ conn = "open" /\ down # <<>>
    /\ received' = Append(received, IF cCodec = sCodec THEN Head(down) ELSE Junk)
    /\ down' = Tail(down)
    /\ UNCHANGED <<serverSetup, clientSetup, applied, link, sending, up, fin, got>>

-------------------------------------------------------------------------------
(* handleConn and a handler that answers                                   *)

\* Serve's Accept; a full or stopping server closes the connection.
Admit ==
    /\ handler = "none" /\ negotiated # None
    /\ \/ handler' = "waiting" /\ UNCHANGED conn
       \/ handler' = "left" /\ conn' = "closed"
    /\ UNCHANGED <<serverSetup, clientSetup, applied, client, negotiated, cCodec, sCodec, sending, up, fin, answering>>

\* The codec of the negotiated protocol, else that of Default, else nil.
ServerCodecDefault == IF Served(Default) # None THEN Served(Default) ELSE Served(negotiated)
ServerCodec == IF Served(negotiated) # None THEN Served(negotiated) ELSE Served(Default)

\* AcceptStream returns once a frame, or the end of the stream, makes it known.
AcceptStream ==
    /\ handler = "waiting" /\ conn = "open" /\ (up # <<>> \/ fin)
    /\ sCodec' = ServerCodec
    /\ IF sCodec' = None THEN handler' = "left" /\ conn' = "closed"
                         ELSE handler' = "serving" /\ UNCHANGED conn
    /\ UNCHANGED <<serverSetup, clientSetup, applied, client, negotiated, cCodec, sending, up, fin, answering>>

\* The timeout (ReadTimeout, or defaultStreamTimeout without one), the server's
\* context or the end of the connection.
AcceptFailsClosed ==
    /\ handler = "waiting" /\ conn = "closed"
    /\ handler' = "left"
    /\ UNCHANGED <<serverSetup, clientSetup, applied, client, conn, negotiated, cCodec, sCodec, sending, up, fin, answering>>
AcceptFails ==
    /\ handler = "waiting"
    /\ handler' = "left" /\ conn' = "closed"
    /\ UNCHANGED <<serverSetup, clientSetup, applied, client, negotiated, cCodec, sCodec, sending, up, fin, answering>>

\* A frame of another codec yields some message or none.
ReadMessage ==
    /\ handler = "serving" /\ conn = "open" /\ up # <<>>
    /\ up' = Tail(up)
    /\ \/ cCodec = sCodec /\ got' = Append(got, Head(up))
       \/ cCodec # sCodec /\ got' \in {got, Append(got, Junk)}
    /\ UNCHANGED <<serverSetup, clientSetup, applied, link, sending, fin, down, received>>

Answered == Len(received) + Len(down)
Answer ==
    /\ handler = "serving" /\ conn = "open" /\ Answered < Len(got)
    /\ down' = Append(down, got[Answered + 1])
    /\ UNCHANGED <<serverSetup, clientSetup, applied, link, sending, up, fin, got, received>>

\* The session closes the connection: its handler returns, it is closed from
\* elsewhere, or (Over) its stream or connection is at an end.
Over == handler = "serving" /\ (conn = "closed" \/ (fin /\ up = <<>>))
SessionEnds ==
    /\ handler = "serving"
    /\ handler' = "left" /\ conn' = "closed"
    /\ UNCHANGED <<serverSetup, clientSetup, applied, client, negotiated, cCodec, sCodec, sending, up, fin, answering>>

-------------------------------------------------------------------------------
Next ==
    \/ \E pair \in Pairs : WithQUICCodec(pair[1], pair[2]) \/ WithClientQUICCodec(pair[1], pair[2])
    \/ \E list \in Lists : SetALPN(list) \/ WithTLSConfig(list) \/ WithQUICNextProtos(list)
    \/ Listen \/ Dial \/ DialFails \/ PickCodec \/ OpenStream
    \/ CloseStream \/ CloseConn \/ ConnDies
    \/ \E s \in Sends : SendBegin(s) \/ Lock(s) \/ Encode(s) \/ Write(s) \/ SendFails(s)
    \/ Receive \/ Admit \/ AcceptStream \/ AcceptFails
    \/ ReadMessage \/ Answer \/ SessionEnds

\* Go schedules every goroutine, timers fire, the handler reads and answers and the
\* client receives.  Nobody has to call Send or Close, and nothing has to fail.
Fairness ==
    /\ WF_vars(PickCodec) /\ WF_vars(OpenStream) /\ WF_vars(CloseConn)
    /\ \A s \in Sends : WF_vars(Lock(s)) /\ WF_vars(Encode(s) \/ Write(s) \/ SendFails(s))
    /\ WF_vars(Receive) /\ WF_vars(Admit) /\ WF_vars(AcceptFails)
    /\ WF_vars(ReadMessage) /\ WF_vars(Answer) /\ WF_vars(Over /\ SessionEnds)

Spec == Init /\ [][Next]_vars
FairSpec == Spec /\ Fairness

-------------------------------------------------------------------------------
(* Properties                                                              *)

\* The two programs agree on the codec of every protocol both know.
Agreed ==
    \A p \in Name : Served(p) # None /\ ClientCodec(p) # None => Served(p) = ClientCodec(p)

\* "The framing is chosen by the ALPN protocol the client negotiates" (quic.go:33-34):
\* two programs that agree on what a protocol means frame alike, whatever either
\* prefers, offers or registers besides, as long as the protocol TLS picked is one
\* the server resolved a codec for.
FramedAlike ==
    Agreed /\ cCodec # None /\ sCodec # None /\ Served(negotiated) # None => cCodec = sCodec

\* "Offered first; old clients still get gophersocks" (README.md:50), "the newest
\* option added is preferred" (base.go:247): a client that offers a protocol the
\* server has added gets it or one added later, and is never refused.
NewestPreferred ==
    tlsProtos = <<>> =>
        \A i \in DOMAIN added : added[i] \in ToSet(offered) =>
            /\ client # "refused"
            /\ negotiated # None => \E j \in i..Len(added) : negotiated = added[j]

\* "Send is safe for concurrent use" (client/quic.go:19-20): though all calls share a
\* buffer, the handler reads exactly the messages of the calls that wrote, in the
\* order they did, and each answer reaches the client in the order it was asked for.
InOrder ==
    cCodec = sCodec => sent = got \o up /\ IsPrefix(received \o down, got)

\* A Send may wait for the lock and the one that holds it for the window, but neither
\* for nobody: the call that holds the lock is still on its way to giving it back, and
\* if a full window keeps it from that, the server has not left the connection open
\* behind it.
NobodyStuck ==
    /\ \A s \in Sends : call[s] = "waiting" /\ sendMu # None =>
           call[sendMu] \in {"locked", "encoded"}
    /\ \A s \in Sends : call[s] = "encoded" /\ conn = "open" /\ ~fin =>
           Len(up) < Window \/ handler # "left"

\* A client that connects and says nothing, or stalls in the middle of Connect, does
\* not keep handleConn (and its slot) for ever, and no Send waits for ever: neither
\* for the lock, whatever the call before it ran into, nor for the window.
NobodyWaits ==
    /\ handler = "waiting" ~> handler # "waiting"
    /\ \A s \in Sends : call[s] = "waiting" ~> call[s] = "returned"

\* Between programs that agree, every message that was written is answered, or the
\* connection is closed at both ends, never stuck on a frame one end cannot read.
EchoAnswered ==
    \A s \in Sends :
        s \in ToSet(sent) /\ Agreed /\ Served(negotiated) # None ~>
            s \in ToSet(received) \/ conn = "closed"

\* Not kept, as TLC shows when it is added to QuicLink: the sentence of quic.go:33-34
\* without FramedAlike's last condition.  When the program's own tls.Config lists a
\* protocol that no WithQUICCodec names, handleConn falls back to the framing of
\* Default, whatever the client uses for it.
FramingFollowsALPN == Agreed /\ cCodec # None /\ sCodec # None => cCodec = sCodec

===============================================================================
