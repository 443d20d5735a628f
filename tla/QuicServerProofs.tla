----------------------------- MODULE QuicServerProofs -----------------------------
(***************************************************************************)
(* What holds of QuicServer for every set of connections, addresses and    *)
(* StopListener calls and every limit: what holds of every server, even if *)
(* a session may be closed before it is registered, and that the session   *)
(* of a dead connection ends.                                              *)
(***************************************************************************)
EXTENDS QuicServer, ServerProofs

-------------------------------------------------------------------------------
(* The QUIC server is a server                                             *)

QuicTypes ==
    /\ peer \in [Conn -> {"up", "gone"}]
    /\ peerWatch \in [Conn -> {"off", "armed", "fired", "done"}]

BeingAdmitted(c) == acc[c] \in {"admit", "full", "enter"}

\* Serve is in its loop while it admits a connection, and admits one at a time.
OneByOne ==
    /\ \A c \in Conn : BeingAdmitted(c) => serve = "accept"
    /\ \A c, d \in Conn : BeingAdmitted(c) /\ BeingAdmitted(d) => c = d

\* The watch of a connection, from before its session is registered to its end.
Watched ==
    /\ \A c \in Conn : peerWatch[c] # "off" => Created(c)
    /\ \A c \in Conn : acc[c] \in {"spawn", "served"} => peerWatch[c] # "off"
    /\ \A c \in Conn : peerWatch[c] = "armed" => peer[c] = "up"
    /\ \A c \in Conn : peerWatch[c] = "done" => once[c] # "open"

LEMMA QuicStep == OneByOne /\ Watched /\ [QuicNext]_allVars => [AnyStep]_vars
<1>. SUFFICES ASSUME OneByOne, Watched, [QuicNext]_allVars PROVE [AnyStep]_vars
     OBVIOUS
<1>1. Shared => Step
  <2>1. \A c : EndSession(c) => ClosedBy(c)
       BY DEF EndSession, ClosedBy
  <2>. QED
       BY <2>1 DEF Shared, Step, Serving, Ending, Stops
<1>2. ServeEnter("accept") => Step
     BY DEF Step, Serving
<1>3. ASSUME NEW c \in Conn, Steps(c) PROVE Step
     BY <1>3 DEF Steps, Stream, AddWatched, Step, Admitting
<1>4. AcceptFails => Step
     BY DEF AcceptFails, Step, Serving, AcceptEnds, MayClose
<1>5. ASSUME NEW c \in Conn, Accept(c) PROVE Step
  <2>1. Arrive(c)
       BY <1>5 DEF Accept, Arrive
  <2>. QED
       BY <2>1 DEF Step, Admitting
<1>6. ASSUME NEW c \in Conn, RefuseAndReturn(c) PROVE Step
  <2>1. serve = "accept"
       BY <1>6 DEF RefuseAndReturn, OneByOne, BeingAdmitted
  <2>2. Refuses(c)
       BY <1>6, <2>1 DEF RefuseAndReturn, Refuses
  <2>. QED
       BY <2>2 DEF Step, Admitting
<1>7. ASSUME NEW c \in Conn, Leave(c) PROVE Step
     BY <1>7 DEF Leave, Step, Ending
<1>8. ASSUME NEW c \in Conn, WatchPeer(c) \/ PeerLeaves(c) PROVE UNCHANGED vars
     BY <1>8 DEF WatchPeer, PeerLeaves
<1>9. ASSUME NEW c \in Conn, PeerEndsSession(c) PROVE AnyStep
  <2>1. ClosedEarly(c)
       BY <1>9 DEF PeerEndsSession, ClosedEarly, Watched
  <2>. QED
       BY <2>1 DEF AnyStep
<1>10. ASSUME NEW s \in Stopper, StopCloseTransport(s) PROVE Step
  <2>1. StopPasses(s)
       BY <1>10 DEF StopCloseTransport, StopCloseListener, CloseListener, StopPasses, MayClose
  <2>. QED
       BY <2>1 DEF Step, Stops
<1>11. Step => AnyStep
     BY DEF AnyStep
<1>. QED
     BY <1>1, <1>2, <1>3, <1>4, <1>5, <1>6, <1>7, <1>8, <1>9, <1>10, <1>11
     DEF QuicNext, allVars

LEMMA QuicTypesStep == QuicTypes /\ [QuicNext]_allVars => QuicTypes'
<1>. SUFFICES ASSUME QuicTypes, [QuicNext]_allVars PROVE QuicTypes'
     OBVIOUS
<1>. USE DEF QuicTypes, quicVars
<1>1. CASE UNCHANGED quicVars
     BY <1>1
<1>2. ASSUME NEW gone, DropPeers(gone) PROVE QuicTypes'
     BY <1>2 DEF DropPeers, Fired
<1>3. ASSUME NEW c \in Conn, WatchPeer(c) \/ Leave(c) \/ PeerEndsSession(c) PROVE QuicTypes'
     BY <1>3 DEF WatchPeer, Leave, PeerEndsSession
<1>4. ASSUME NEW c \in Conn, Accept(c) \/ RefuseAndReturn(c) \/ PeerLeaves(c) PROVE QuicTypes'
     BY <1>1, <1>2, <1>4 DEF Accept, RefuseAndReturn, PeerLeaves
<1>5. ASSUME NEW s \in Stopper, StopCloseTransport(s) PROVE QuicTypes'
     BY <1>1, <1>2, <1>5 DEF StopCloseTransport
<1>6. AcceptFails => QuicTypes'
     BY <1>1 DEF AcceptFails
<1>. QED
     BY <1>1, <1>3, <1>4, <1>5, <1>6 DEF QuicNext, allVars

\* Connections move in Serve's loop and in handleConn, and Serve leaves its loop
\* only between two connections.
LEMMA QuicMoves ==
    ASSUME Types, [QuicNext]_allVars
    PROVE  \/ \E c \in Conn : Steps(c) \/ Accept(c) \/ RefuseAndReturn(c)
           \/ acc' = acc /\ (serve = "accept" => serve' = "accept" \/ ~Busy)
<1>. DEFINE Goal == acc' = acc /\ (serve = "accept" => serve' = "accept" \/ ~Busy)
<1>. USE DEF vars, serverVars, serveVars, sessionVars
<1>1. Shared => Goal
  <2>1. ASSUME NEW c \in Conn, \/ EndSession(c) \/ ContextClosesSession(c) \/ CloseSteps(c)
                               \/ HandlerReturns(c)
        PROVE  acc' = acc /\ serve' = serve
       BY <2>1 DEF EndSession, ContextClosesSession, CloseSteps, CloseRemove, CloseRelease,
              CloseTransport, CloseCancel, HandlerReturns
  <2>2. ASSUME NEW s \in Stopper, StopSteps(s) PROVE acc' = acc /\ serve' = serve
       BY <2>2, StoppingKeeps DEF Stops, StopFrame
  <2>3. ASSUME \/ Listen \/ ServeRefused \/ ServeUnblock \/ ServeUnwatch \/ ServeCancel
               \/ ServeLeave \/ RunWatch \/ ParentEnds \/ CallerCancels
        PROVE  acc' = acc /\ (serve = "accept" => serve' = "accept")
       BY <2>3 DEF Listen, ServeRefused, ServeUnblock, ServeUnwatch, ServeCancel, ServeLeave,
                   RunWatch, ParentEnds, CallerCancels
  <2>. QED
       BY <2>1, <2>2, <2>3 DEF Shared
<1>2. ServeEnter("accept") \/ AcceptFails => Goal
     BY DEF ServeEnter, AcceptFails
<1>3. ASSUME NEW c \in Conn,
             WatchPeer(c) \/ Leave(c) \/ PeerLeaves(c) \/ PeerEndsSession(c)
      PROVE  Goal
     BY <1>3 DEF WatchPeer, Leave, HandlerLeaves, PeerLeaves, PeerEndsSession
<1>4. ASSUME NEW s \in Stopper, StopCloseTransport(s) PROVE Goal
     BY <1>4 DEF StopCloseTransport, StopCloseListener
<1>. QED
     BY <1>1, <1>2, <1>3, <1>4 DEF QuicNext, allVars

LEMMA OneByOneStep == Types /\ OneByOne /\ [QuicNext]_allVars => OneByOne'
<1>. SUFFICES ASSUME Types, OneByOne, [QuicNext]_allVars PROVE OneByOne'
     OBVIOUS
<1>. USE DEF Types, OneByOne, BeingAdmitted, serveVars
<1>1. CASE acc' = acc /\ (serve = "accept" => serve' = "accept" \/ ~Busy)
     BY <1>1 DEF Busy
<1>2. ASSUME NEW c \in Conn, Steps(c) PROVE OneByOne'
  <2>1. serve' = serve /\ \A d \in Conn : BeingAdmitted(d)' => BeingAdmitted(d)
       BY <1>2 DEF Steps, Stream, AddWatched, TryAdmit, RejectFull, Enter, HandshakeDone,
                   HandshakeFails, FailedLeaves, NewSession, AddSession, Spawn
  <2>. QED
       BY <2>1
<1>3. ASSUME NEW c \in Conn, Accept(c) PROVE OneByOne'
     BY <1>3 DEF Accept, Busy
<1>4. ASSUME NEW c \in Conn, RefuseAndReturn(c) PROVE OneByOne'
     BY <1>4 DEF RefuseAndReturn
<1>. QED
     BY <1>1, <1>2, <1>3, <1>4, QuicMoves

\* What may happen to the watches and to the connections below them.
WatchChanges ==
    \A c \in Conn :
        \/ peer'[c] = peer[c] /\ peerWatch'[c] = peerWatch[c]
        \/ peer'[c] = "gone" /\ peerWatch'[c] = Fired(peerWatch[c])
        \/ WatchPeer(c)
        \/ /\ peer'[c] = peer[c] /\ peerWatch[c] # "off" /\ peerWatch'[c] = "done"
           /\ once'[c] # "open"

LEMMA WatchStep == Types /\ QuicTypes /\ Closed /\ [QuicNext]_allVars => WatchChanges
<1>. SUFFICES ASSUME Types, QuicTypes, Closed, [QuicNext]_allVars PROVE WatchChanges
     OBVIOUS
<1>. USE DEF WatchChanges, Types, QuicTypes, quicVars
<1>1. CASE UNCHANGED quicVars
     BY <1>1
<1>2. ASSUME NEW gone, DropPeers(gone) PROVE WatchChanges
     BY <1>2 DEF DropPeers
<1>3. ASSUME NEW c \in Conn, WatchPeer(c) PROVE WatchChanges
     BY <1>3 DEF WatchPeer
<1>4. ASSUME NEW c \in Conn, Leave(c) PROVE WatchChanges
     BY <1>4 DEF Leave, HandlerLeaves
<1>5. ASSUME NEW c \in Conn, PeerEndsSession(c) PROVE WatchChanges
     BY <1>5 DEF PeerEndsSession, CloseWith, Closing
<1>6. ASSUME NEW c \in Conn, Accept(c) \/ RefuseAndReturn(c) \/ PeerLeaves(c)
      PROVE  WatchChanges
     BY <1>1, <1>2, <1>6 DEF Accept, RefuseAndReturn, PeerLeaves
<1>7. ASSUME NEW s \in Stopper, StopCloseTransport(s) PROVE WatchChanges
     BY <1>1, <1>2, <1>7 DEF StopCloseTransport
<1>8. AcceptFails => WatchChanges
     BY <1>1 DEF AcceptFails
<1>. QED
     BY <1>1, <1>3, <1>4, <1>5, <1>6, <1>7, <1>8 DEF QuicNext, allVars

LEMMA WatchedStep ==
    Types /\ QuicTypes /\ Closed /\ OneByOne /\ Watched /\ [QuicNext]_allVars => Watched'
<1>. SUFFICES ASSUME Types, QuicTypes, Closed, OneByOne, Watched, [QuicNext]_allVars
              PROVE  Watched'
     OBVIOUS
<1>1. [AnyStep]_vars
     BY QuicStep
<1>. SUFFICES ASSUME NEW c \in Conn
              PROVE  /\ peerWatch'[c] # "off" => Created(c)'
                     /\ acc'[c] \in {"spawn", "served"} => peerWatch'[c] # "off"
                     /\ peerWatch'[c] = "armed" => peer'[c] = "up"
                     /\ peerWatch'[c] = "done" => once'[c] # "open"
     BY DEF Watched
<1>2. /\ Created(c) => Created(c)'
      /\ once[c] # "open" => once'[c] # "open"
     BY <1>1, SessionsStay, CloseAdvances DEF CloseEdges
\* A session is registered only with its watch in place.
<1>3. acc[c] \notin {"spawn", "served"} /\ acc'[c] \in {"spawn", "served"} => peerWatch[c] # "off"
  <2>. USE DEF Types
  <2>1. ASSUME NEW d \in Conn, Steps(d), acc[c] \notin {"spawn", "served"},
               acc'[c] \in {"spawn", "served"}
        PROVE  peerWatch[c] # "off"
       BY <2>1 DEF Steps, Stream, AddWatched, TryAdmit, RejectFull, Enter, HandshakeDone,
                   HandshakeFails, FailedLeaves, NewSession, AddSession, Spawn
  <2>2. ASSUME NEW d \in Conn, Accept(d) \/ RefuseAndReturn(d)
        PROVE  acc'[c] \in {acc[c], "admit", "rejected"}
       BY <2>2 DEF Accept, RefuseAndReturn
  <2>. QED
       BY <2>1, <2>2, QuicMoves
<1>4. CASE peer'[c] = peer[c] /\ peerWatch'[c] = peerWatch[c]
     BY <1>2, <1>3, <1>4 DEF Watched
<1>5. CASE peer'[c] = "gone" /\ peerWatch'[c] = Fired(peerWatch[c])
     BY <1>2, <1>3, <1>5 DEF Watched, Fired
<1>6. CASE WatchPeer(c)
     BY <1>2, <1>3, <1>6 DEF Watched, WatchPeer, QuicTypes, Created, vars, sessionVars
<1>7. CASE /\ peer'[c] = peer[c] /\ peerWatch[c] # "off" /\ peerWatch'[c] = "done"
           /\ once'[c] # "open"
     BY <1>2, <1>3, <1>7 DEF Watched
<1>. QED
     BY <1>4, <1>5, <1>6, <1>7, WatchStep DEF WatchChanges

-------------------------------------------------------------------------------
(* The theorems                                                            *)

QuicIInv == IInv /\ QuicTypes /\ OneByOne /\ Watched

LEMMA QuicInductive == QuicSpec => []QuicIInv
<1>1. QuicInit => QuicIInv
  <2>. SUFFICES ASSUME QuicInit PROVE QuicIInv
       OBVIOUS
  <2>1. Init
       BY DEF QuicInit
  <2>2. IInv
       BY <2>1, TypesInit, LifeInit, ClosedInit, SlotsInit, WgInit DEF IInv
  <2>3. QuicTypes
       BY DEF QuicInit, QuicTypes
  <2>4. OneByOne /\ Watched
       BY DEF QuicInit, Init, OneByOne, BeingAdmitted, Watched
  <2>. QED
       BY <2>2, <2>3, <2>4 DEF QuicIInv
<1>2. QuicIInv /\ [QuicNext]_allVars => QuicIInv'
  <2>. SUFFICES ASSUME QuicIInv, [QuicNext]_allVars PROVE QuicIInv'
       OBVIOUS
  <2>. USE DEF QuicIInv, IInv
  <2>1. [AnyStep]_vars
       BY QuicStep
  <2>2. IInv'
       BY <2>1, TypesStep, LifeStep, ClosedStep, SlotsStep, WgStep
  <2>. QED
       BY <2>2, QuicTypesStep, OneByOneStep, WatchedStep
<1>. QED
     BY <1>1, <1>2, PTL DEF QuicSpec

LEMMA QuicIsAny == QuicSpec => AnyServer
<1>1. QuicIInv /\ [QuicNext]_allVars => [AnyStep]_vars
     BY QuicStep DEF QuicIInv
<1>2. QuicInit => Init
     BY DEF QuicInit
<1>. QED
     BY <1>1, <1>2, QuicInductive, PTL DEF QuicSpec, AnyServer

\* Every variable keeps its type, and neither counter ever goes below zero.
THEOREM QuicTypeCorrect == QuicSpec => []QuicTypeOK
<1>1. QuicIInv /\ TypeOK => QuicTypeOK
     BY DEF QuicIInv, QuicTypes, QuicTypeOK
<1>. QED
     BY <1>1, QuicInductive, QuicIsAny, ServerTypes, PTL

\* Both counters are exact on handleConn's paths, which release and sign off by hand.
THEOREM QuicCounts == QuicSpec => []Accounting
BY QuicIsAny, ServerAccounting, PTL

\* At most MaxConnections connections are in at a time.
THEOREM QuicLimit == QuicSpec => []AdmissionLimit
BY QuicIsAny, ServerLimit, PTL

\* When a StopListener call has returned, and ever after, Serve and all handlers
\* are over and all sessions are closed, also those whose client never opened its
\* stream or whose connection ended first.
THEOREM QuicStopIsComplete == QuicSpec => []StopComplete
BY QuicIsAny, ServerStops, PTL

\* The session of a connection that has ended is closed or about to be closed by
\* the watch: the watch is there before the session is registered, and it is
\* withdrawn only when the session has been closed.
THEOREM DeadSessionsEnd == QuicSpec => []DeadIsEnding
<1>1. QuicIInv => DeadIsEnding
     BY DEF QuicIInv, QuicTypes, Watched, DeadIsEnding
<1>. QED
     BY <1>1, QuicInductive, PTL

\* The QUIC server implements Admission: although its connections wait for their
\* streams at the same time, Serve takes them through tryAdmit one by one.
THEOREM QuicAdmission == QuicSpec => ImplementsAdmission
<1>1. QuicIInv /\ AdmissionLimit /\ [QuicNext]_allVars => [Slots!Next]_<<Admitted, Away>>
  <2>. SUFFICES ASSUME QuicIInv, AdmissionLimit, [QuicNext]_allVars
                PROVE  [Slots!Next]_<<Admitted, Away>>
       OBVIOUS
  <2>1. \A c \in Conn : acc[c] = "admit" => Away = {}
       BY DEF QuicIInv, OneByOne, BeingAdmitted, Away
  <2>2. [AnyStep]_vars
       BY QuicStep DEF QuicIInv
  <2>. QED
       BY <2>1, <2>2, AdmissionStep DEF QuicIInv
<1>2. QuicInit => Slots!Init
     BY AdmissionInit DEF QuicInit
<1>. QED
     BY <1>1, <1>2, QuicInductive, QuicLimit, PTL DEF QuicSpec, ImplementsAdmission, Slots!Spec

-------------------------------------------------------------------------------
(* What StopListener waits for                                             *)

LEMMA QuicPasses ==
    ASSUME Types, [QuicNext]_allVars, NEW s \in Stopper, Passes(s) PROVE CloseListener
<1>. USE DEF Passes, vars, stopVars, Types
<1>1. ASSUME NEW c \in Conn, Steps(c) \/ Accept(c) \/ RefuseAndReturn(c) PROVE FALSE
     BY <1>1 DEF Steps, TryAdmit, RejectFull, Enter, Stream, HandshakeDone, HandshakeFails,
                 FailedLeaves, NewSession, AddWatched, AddSession, Spawn, Accept, RefuseAndReturn
<1>2. ASSUME NEW c \in Conn, WatchPeer(c) \/ Leave(c) \/ PeerLeaves(c) \/ PeerEndsSession(c)
      PROVE  FALSE
     BY <1>2 DEF WatchPeer, Leave, HandlerLeaves, PeerLeaves, PeerEndsSession
<1>3. ~(ServeEnter("accept") \/ AcceptFails)
     BY DEF ServeEnter, AcceptFails
<1>4. ASSUME NEW r \in Stopper, StopCloseTransport(r) PROVE CloseListener
     BY <1>4 DEF StopCloseTransport, StopCloseListener
<1>. QED
     BY <1>1, <1>2, <1>3, <1>4, SharedDoesNotPass DEF QuicNext, allVars

\* Whatever StopListener waits for has been told to end: Accept, by the closed
\* listener, and handleConn, by the context it waits on: the session's or, while the
\* stream has not come, Serve's.
THEOREM QuicStopIsHeard == QuicSpec => []StopIsHeard
<1>1. QuicInit => Bound /\ AcceptHears
     BY DEF QuicInit, Init, Bound, AcceptHears, ServeRunning
<1>2. /\ QuicIInv /\ Stopping /\ Bound /\ AcceptHears /\ [QuicNext]_allVars
      => Bound' /\ AcceptHears'
     BY QuicStep, QuicPasses, ListenerStays, HearingStep DEF QuicIInv, IInv
<1>3. QuicSpec => [](Bound /\ AcceptHears)
     BY <1>1, <1>2, StoppingKept, QuicInductive, QuicIsAny, PTL DEF QuicSpec
<1>4. SessionsHear /\ AcceptHears => StopIsHeard
     BY DEF StopIsHeard
<1>. QED
     BY <1>3, <1>4, ServerTellsSessions, QuicIsAny, PTL
==============================================================================
