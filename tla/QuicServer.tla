------------------------------ MODULE QuicServer ------------------------------
(***************************************************************************)
(* The QUIC server (listener/quic.go) on top of the shared server.  The    *)
(* Serve loop admits a connection and leaves it to a goroutine of its own, *)
(* which waits for the client's stream ("handshake"), creates the session  *)
(* and serves it.  quic-go ends a connection's own context when the client *)
(* closes it, when it falls silent or when the transport is closed, and    *)
(* handleConn watches that context.                                        *)
(***************************************************************************)
EXTENDS Server

VARIABLES
    peer,       \* peer[c]: quic-go's view of the connection
    peerWatch   \* handleConn's AfterFunc on conn.Context()

quicVars == <<peer, peerWatch>>
allVars  == <<vars, quicVars>>

\* The types of both parts.
QuicTypeOK ==
    /\ TypeOK
    /\ peer \in [Conn -> {"up", "gone"}]
    /\ peerWatch \in [Conn -> {"off", "armed", "fired", "done"}]

QuicInit ==
    /\ Init
    /\ peer = [c \in Conn |-> "up"] /\ peerWatch = [c \in Conn |-> "off"]

-------------------------------------------------------------------------------
(* Serve                                                                   *)

Busy == \E c \in Conn : acc[c] \in {"admit", "full", "enter"}

Accept(c) ==
    /\ serve = "accept" /\ ~Busy /\ ln = "open" /\ acc[c] = "absent"
    /\ acc' = [acc EXCEPT ![c] = "admit"]
    /\ tconn' = [tconn EXCEPT ![c] = "open"]
    /\ UNCHANGED <<serverVars, serveVars, ctx, once, cause, handler, stopVars, quicVars>>

\* Accept returns an error: the context has ended, the listener is closed or
\* something else.
AcceptFails ==
    /\ serve = "accept" /\ ~Busy
    /\ serve' = "unwatch"
    /\ UNCHANGED <<serverVars, vctx, watch, unblock, ln, sessionVars, stopVars, quicVars>>

\* The server is stopping: take the slot back and return from Serve.
RefuseAndReturn(c) ==
    /\ acc[c] = "enter" /\ stopped
    /\ active' = active - 1
    /\ acc' = [acc EXCEPT ![c] = "rejected"]
    /\ CloseConn(c)
    /\ serve' = "unwatch"
    /\ UNCHANGED <<stopped, wg, byAddr, sctx, vctx, watch, unblock, ln, ctx, once,
                   cause, handler, stopVars, quicVars>>

-------------------------------------------------------------------------------
(* handleConn, on the connection's goroutine                               *)

\* The client's stream, or none in time, or a protocol without a codec.
Stream(c) ==
    \/ peer[c] = "up" /\ HandshakeDone(c)
    \/ HandshakeFails(c) \/ FailedLeaves(c)

\* The AfterFunc is registered on the context of a connection that may be over.
WatchPeerLate(c) ==
    /\ acc[c] = "add" /\ peerWatch[c] = "off"
    /\ peerWatch' = [peerWatch EXCEPT ![c] = "armed"]
    /\ UNCHANGED <<vars, peer>>
WatchPeer(c) ==
    /\ acc[c] = "add" /\ peerWatch[c] = "off"
    /\ peerWatch' = [peerWatch EXCEPT ![c] = IF peer[c] = "up" THEN "armed" ELSE "fired"]
    /\ UNCHANGED <<vars, peer>>

AddWatched(c) == peerWatch[c] # "off" /\ AddSession(c)

\* serveSession has returned: stopWatch(), then wg.Done.
Leave(c) ==
    /\ HandlerLeaves(c)
    /\ peerWatch' = [peerWatch EXCEPT ![c] = IF @ = "armed" THEN "done" ELSE @]
    /\ UNCHANGED peer

\* quic-go ends the connections in `gone`.
DropPeers(gone) ==
    /\ peer' = [c \in Conn |-> IF c \in gone THEN "gone" ELSE peer[c]]
    /\ peerWatch' = [c \in Conn |-> IF c \in gone THEN Fired(peerWatch[c]) ELSE peerWatch[c]]

\* The client closes the connection, or its idle timeout passes.
PeerLeaves(c) ==
    /\ acc[c] # "absent" /\ peer[c] = "up" /\ tconn[c] = "open"
    /\ DropPeers({c})
    /\ UNCHANGED vars

\* The AfterFunc closes the session.
PeerEndsSession(c) ==
    /\ peerWatch[c] = "fired"
    /\ peerWatch' = [peerWatch EXCEPT ![c] = "done"]
    /\ CloseWith(c, "ErrSessionClosed")
    /\ UNCHANGED <<serverVars, serveVars, acc, tconn, ctx, handler, stopVars, peer>>

\* StopListener closes the listener and the transport under all connections.
StopCloseTransport(s) ==
    /\ StopCloseListener(s)
    /\ IF ln = "open" THEN DropPeers({c \in Conn : tconn[c] = "open"})
                      ELSE UNCHANGED quicVars

-------------------------------------------------------------------------------
Steps(c) ==
    \/ TryAdmit(c) \/ RejectFull(c) \/ Enter(c, "handshake")
    \/ Stream(c) \/ NewSession(c) \/ AddWatched(c) \/ Spawn(c)

QuicNext ==
    \/ UNCHANGED quicVars /\ (Shared \/ ServeEnter("accept") \/ \E c \in Conn : Steps(c))
    \/ AcceptFails
    \/ \E c \in Conn :
          \/ Accept(c) \/ RefuseAndReturn(c) \/ WatchPeer(c) \/ Leave(c)
          \/ PeerLeaves(c) \/ PeerEndsSession(c)
    \/ \E s \in Stopper : StopCloseTransport(s)

QuicSpec == QuicInit /\ [][QuicNext]_allVars

-------------------------------------------------------------------------------
\* "quic-go notices a dead connection ... close the session then even if nobody
\* is reading" (quic.go:256): a session whose connection has ended, before its
\* stream, while the session was created or later, is closed or about to be closed
\* by the watch, and never left to a handler that may not look at it again.
DeadIsEnding ==
    \A c \in Conn :
        peer[c] = "gone" /\ acc[c] \in {"spawn", "served"} /\ once[c] = "open"
        => peerWatch[c] = "fired"

===============================================================================
