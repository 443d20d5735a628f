------------------------------- MODULE UdpServer -------------------------------
(***************************************************************************)
(* The UDP server (listener/udp.go) on top of the shared server.  There    *)
(* are no connections: the read loop finds the session of a datagram by    *)
(* its address and opens one on first contact, and reapIdle closes         *)
(* sessions that have been silent for ReadTimeout.  An element of Conn is  *)
(* one session that may be opened for its address, and tconn[c] is the     *)
(* done channel of its transport.  Empty and oversized datagrams, which    *)
(* Serve ignores, are left out.                                            *)
(***************************************************************************)
EXTENDS Server

CONSTANTS
    Reaps,      \* ReadTimeout > 0
    InboxSize,  \* max(BufferSize, 1)
    Datagrams   \* bound: datagrams each address sends

ASSUME UdpAssumption == Reaps \in BOOLEAN /\ InboxSize \in Nat \ {0} /\ Datagrams \in Nat

VARIABLES
    dest,       \* sess in deliver
    arrived,    \* arrived[a]: datagrams read from address a
    inbox,      \* inbox[c]: datagrams in udpTransport.in
    silent,     \* silent[c]: ReadTimeout has passed since touch
    reaper,     \* where reapIdle is
    reapSet,    \* the sessions of GetActiveSessions it has still to look at
    reaping     \* the one it has found silent

readVars == <<dest, arrived, inbox>>
reapVars == <<reaper, reapSet, reaping>>
udpVars  == <<readVars, silent, reapVars>>
allVars  == <<vars, udpVars>>

\* In particular no inbox holds more than it has room for (udp.go:119-123).
UdpTypeOK ==
    /\ TypeOK
    /\ dest \in Conn \cup {None} /\ reaping \in Conn \cup {None}
    /\ arrived \in [Addr -> 0..Datagrams]
    /\ inbox \in [Conn -> 0..InboxSize]
    /\ silent \in [Conn -> BOOLEAN]
    /\ reaper \in {"off", "wait", "scan", "exited"}
    /\ reapSet \subseteq Conn

UdpInit ==
    /\ Init
    /\ dest = None /\ arrived = [a \in Addr |-> 0]
    /\ inbox = [c \in Conn |-> 0] /\ silent = [c \in Conn |-> FALSE]
    /\ reaper = "off" /\ reapSet = {} /\ reaping = None

-------------------------------------------------------------------------------
(* Serve and deliver                                                       *)

\* The AfterFunc is registered and reapIdle started.
UdpRegister ==
    /\ ServeRegister
    /\ reaper' = IF Reaps THEN "wait" ELSE "exited"
    /\ UNCHANGED <<readVars, silent, reapSet, reaping>>

\* A datagram from address a has been read and byAddr is looked up, under mu.
Reading(a) ==
    /\ serve = "accept" /\ dest = None /\ ln = "open"
    /\ arrived[a] < Datagrams
    /\ arrived' = [arrived EXCEPT ![a] = @ + 1]
    /\ UNCHANGED <<inbox, silent, reapVars>>

Found(a) ==
    /\ Reading(a) /\ byAddr[a] # None
    /\ dest' = byAddr[a]
    /\ UNCHANGED vars

\* open, on first contact.
FirstContactAlways(c) ==
    /\ Reading(AddrOf[c]) /\ acc[c] = "absent"
    /\ dest' = c
    /\ acc' = [acc EXCEPT ![c] = "admit"]
    /\ UNCHANGED <<serverVars, serveVars, tconn, ctx, once, cause, handler, stopVars>>
FirstContact(c) ==
    /\ Reading(AddrOf[c]) /\ byAddr[AddrOf[c]] = None /\ acc[c] = "absent"
    /\ dest' = c
    /\ acc' = [acc EXCEPT ![c] = "admit"]
    /\ UNCHANGED <<serverVars, serveVars, tconn, ctx, once, cause, handler, stopVars>>

\* The steps of open, in the Serve goroutine; without a session the datagram
\* is dropped.
Open(c) ==
    /\ dest = c
    /\ \/ TryAdmit(c) \/ RejectFull(c)
       \/ Enter(c, "create") \/ Refuse(c)
       \/ NewSession(c) \/ AddSession(c) \/ Spawn(c)
    /\ dest' = IF acc'[c] = "rejected" THEN None ELSE c
    /\ UNCHANGED <<arrived, inbox, silent, reapVars>>

\* touch, and the datagram is queued unless the queue is full.
DeliverOneMore ==
    /\ dest # None /\ acc[dest] = "served"
    /\ dest' = None
    /\ silent' = [silent EXCEPT ![dest] = FALSE]
    /\ inbox' = [inbox EXCEPT ![dest] = IF @ <= InboxSize THEN @ + 1 ELSE @]
    /\ UNCHANGED <<vars, arrived, reapVars>>
Deliver ==
    /\ dest # None /\ acc[dest] = "served"
    /\ dest' = None
    /\ silent' = [silent EXCEPT ![dest] = FALSE]
    /\ inbox' = [inbox EXCEPT ![dest] = IF @ < InboxSize THEN @ + 1 ELSE @]
    /\ UNCHANGED <<vars, arrived, reapVars>>

\* The read fails, because the socket is closed or otherwise: Serve returns.
ReadFails ==
    /\ serve = "accept" /\ dest = None
    /\ serve' = "unblock"
    /\ UNCHANGED <<serverVars, vctx, watch, unblock, ln, sessionVars, stopVars, udpVars>>

-------------------------------------------------------------------------------
(* The session's reader                                                    *)

\* readMessage takes a datagram and Messages touches the session.  It may do so
\* after the session's close, for select prefers neither channel.
TakeMessage(c) ==
    /\ inbox[c] > 0
    /\ inbox' = [inbox EXCEPT ![c] = @ - 1]
    /\ silent' = [silent EXCEPT ![c] = FALSE]
    /\ UNCHANGED <<vars, dest, arrived, reapVars>>

\* ReadTimeout passes after the last touch.
FallsSilent(c) ==
    /\ Reaps /\ Created(c) /\ once[c] = "open" /\ ~silent[c]
    /\ silent' = [silent EXCEPT ![c] = TRUE]
    /\ UNCHANGED <<vars, readVars, reapVars>>

-------------------------------------------------------------------------------
(* reapIdle                                                                *)

ReapTick ==
    /\ reaper = "wait"
    /\ reaper' = "scan"
    /\ reapSet' = {c \in Conn : Registered(c)}
    /\ UNCHANGED <<vars, readVars, silent, reaping>>

ReapExit ==
    /\ reaper = "wait" /\ vctx # "live"
    /\ reaper' = "exited"
    /\ UNCHANGED <<vars, readVars, silent, reapSet, reaping>>

\* One session of the snapshot: is it silent?
ReapCheckNone ==
    /\ reaper = "scan" /\ reaping = None
    /\ \E c \in reapSet : reapSet' = reapSet \ {c}
    /\ UNCHANGED <<vars, readVars, silent, reaper, reaping>>
ReapCheck ==
    /\ reaper = "scan" /\ reaping = None
    /\ \E c \in reapSet :
          /\ reapSet' = reapSet \ {c}
          /\ reaping' = IF silent[c] THEN c ELSE None
    /\ UNCHANGED <<vars, readVars, silent, reaper>>

\* closeWith(context.DeadlineExceeded), and it has returned.
ReapClose ==
    /\ reaping # None /\ once[reaping] = "open"
    /\ CloseWith(reaping, "ErrSessionClosed")
    /\ UNCHANGED <<serverVars, serveVars, acc, tconn, ctx, handler, stopVars, udpVars>>

ReapClosed ==
    /\ reaping # None /\ once[reaping] = "done"
    /\ reaping' = None
    /\ UNCHANGED <<vars, readVars, silent, reaper, reapSet>>

ReapScanned ==
    /\ reaper = "scan" /\ reaping = None /\ reapSet = {}
    /\ reaper' = "wait"
    /\ UNCHANGED <<vars, readVars, silent, reapSet, reaping>>

-------------------------------------------------------------------------------
Reap == ReapTick \/ ReapExit \/ ReapCheck \/ ReapClose \/ ReapClosed \/ ReapScanned

UdpNext ==
    \/ UNCHANGED udpVars /\ (\/ Shared \/ ServeEnter("register") \/ RunUnblock
                            \/ \E c \in Conn : HandlerLeaves(c)
                            \/ \E s \in Stopper : StopCloseListener(s))
    \/ UdpRegister \/ Deliver \/ ReadFails
    \/ \E a \in Addr : Found(a)
    \/ \E c \in Conn : FirstContact(c) \/ Open(c) \/ TakeMessage(c) \/ FallsSilent(c)
    \/ Reap

UdpSpec == UdpInit /\ [][UdpNext]_allVars

\* Goroutines run: the read loop finishes a datagram it has read, closeWith goes
\* on, ended contexts run their functions, and the ticker of reapIdle ticks.
UdpFairness ==
    /\ WF_allVars(Deliver \/ \E c \in Conn : Open(c))
    /\ \A c \in Conn :
          WF_allVars((ContextClosesSession(c) \/ CloseSteps(c)) /\ UNCHANGED udpVars)
    /\ WF_allVars(ReapCheck \/ ReapClose \/ ReapClosed \/ ReapScanned)
    /\ WF_allVars(ReapTick)

UdpFairSpec == UdpSpec /\ UdpFairness

-------------------------------------------------------------------------------
(* Properties                                                              *)

\* "Each client address is a session" (udp.go:14): although an old session may
\* still be closing, an address never has two that are open.
OneSession ==
    \A c, d \in Conn :
        /\ c # d /\ AddrOf[c] = AddrOf[d]
        /\ Created(c) /\ Created(d)
        => Ended(c) \/ Ended(d)

\* What deliver, reapIdle and StopListener rely on when they take sessions from the
\* registry (udp.go:110, 161; server.go:146): an open session is in it from add to its
\* own remove, so that none goes unreaped or gets no more datagrams.
OpenIsFound ==
    \A c \in Conn : acc[c] \in {"spawn", "served"} /\ ~Ended(c) => Registered(c)

\* "a session with no datagrams for ReadTimeout is closed" (udp.go:14-15), as long
\* as Serve's context is live: every open session is found by the reaper.
SilentIsReaped ==
    \A c \in Conn : Created(c) /\ silent[c] ~> ~silent[c] \/ once[c] = "done"

\* Not kept, as TLC shows when it is added to UdpReap: "ReadTimeout closes ... a UDP
\* session, that sends nothing for this long" (base.go:97).  A datagram may be
\* delivered between reapIdle's comparison and its close.
ReapedIsSilent ==
    [][\A c \in Conn : ReapClose /\ reaping = c => silent[c]]_allVars

===============================================================================
