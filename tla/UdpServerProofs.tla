----------------------------- MODULE UdpServerProofs -----------------------------
(***************************************************************************)
(* What holds of UdpServer for every set of sessions, addresses and        *)
(* StopListener calls, every limit and every inbox: what holds of every    *)
(* server (ServerProofs), and that an address has one open session.        *)
(***************************************************************************)
EXTENDS UdpServer, ServerProofs

-------------------------------------------------------------------------------
(* The UDP server is a server                                              *)

UdpTypes ==
    /\ dest \in Conn \cup {None} /\ reaping \in Conn \cup {None}
    /\ arrived \in [Addr -> 0..Datagrams]
    /\ inbox \in [Conn -> 0..InboxSize]
    /\ silent \in [Conn -> BOOLEAN]
    /\ reaper \in {"off", "wait", "scan", "exited"}
    /\ reapSet \subseteq Conn

\* reapIdle closes sessions that GetActiveSessions has found.
Reapable ==
    /\ reaping # None => acc[reaping] \in {"spawn", "served"}
    /\ \A c \in reapSet : acc[c] \in {"spawn", "served"}

LEMMA UdpStep == UdpTypes /\ Reapable /\ [UdpNext]_allVars => [Step]_vars
<1>. SUFFICES ASSUME UdpTypes, Reapable, [UdpNext]_allVars PROVE [Step]_vars
     OBVIOUS
<1>1. Shared => Step
  <2>1. \A c : EndSession(c) => ClosedBy(c)
       BY DEF EndSession, ClosedBy
  <2>. QED
       BY <2>1 DEF Shared, Step, Serving, Ending, Stops
<1>2. ServeEnter("register") \/ UdpRegister => Step
     BY DEF Step, Serving, UdpRegister
<1>3. RunUnblock => Step
     BY DEF RunUnblock, CloseListener, Step, Serving, UnblockRuns, MayClose
<1>4. ASSUME NEW c \in Conn, HandlerLeaves(c) PROVE Step
     BY <1>4 DEF Step, Ending
<1>5. ASSUME NEW s \in Stopper, StopCloseListener(s) PROVE Step
  <2>1. StopPasses(s)
       BY <1>5 DEF StopCloseListener, CloseListener, StopPasses, MayClose
  <2>. QED
       BY <2>1 DEF Step, Stops
<1>6. ReadFails => Step
     BY DEF ReadFails, Step, Serving, AcceptEnds, MayClose
<1>7. ASSUME NEW c \in Conn, FirstContact(c) PROVE Step
  <2>1. Arrive(c)
       BY <1>7 DEF FirstContact, Reading, Arrive
  <2>. QED
       BY <2>1 DEF Step, Admitting
<1>8. ASSUME NEW c \in Conn, Open(c) PROVE Step
  <2>1. Refuse(c) => Refuses(c)
       BY DEF Refuse, Refuses, serveVars
  <2>. QED
       BY <1>8, <2>1 DEF Open, Step, Admitting
<1>9. ASSUME ReapClose PROVE Step
  <2>1. ClosedBy(reaping) /\ reaping \in Conn
       BY <1>9 DEF ReapClose, ClosedBy, Reapable, UdpTypes
  <2>. QED
       BY <2>1 DEF Step
<1>10. Deliver \/ ReapTick \/ ReapExit \/ ReapCheck \/ ReapClosed \/ ReapScanned
       => UNCHANGED vars
     BY DEF Deliver, ReapTick, ReapExit, ReapCheck, ReapClosed, ReapScanned
<1>11. \A a : Found(a) => UNCHANGED vars
     BY DEF Found
<1>12. \A c : TakeMessage(c) \/ FallsSilent(c) => UNCHANGED vars
     BY DEF TakeMessage, FallsSilent
<1>. QED
     BY <1>1, <1>2, <1>3, <1>4, <1>5, <1>6, <1>7, <1>8, <1>9, <1>10, <1>11, <1>12
     DEF UdpNext, Reap, allVars

LEMMA UdpTypesStep == Types /\ Life /\ UdpTypes /\ [UdpNext]_allVars => UdpTypes'
<1>. SUFFICES ASSUME Types, Life, UdpTypes, [UdpNext]_allVars PROVE UdpTypes'
     OBVIOUS
<1>. USE UdpAssumption DEF UdpTypes, udpVars, readVars, reapVars
<1>1. CASE UNCHANGED udpVars
     BY <1>1
<1>2. CASE UdpRegister
     BY <1>2 DEF UdpRegister
<1>3. CASE Deliver
     BY <1>3 DEF Deliver
<1>4. ASSUME NEW a \in Addr, Found(a) PROVE UdpTypes'
     BY <1>4 DEF Found, Reading, Types
<1>5. ASSUME NEW c \in Conn, FirstContact(c) PROVE UdpTypes'
     BY <1>5, AddrAssumption DEF FirstContact, Reading
<1>6. ASSUME NEW c \in Conn, Open(c) PROVE UdpTypes'
     BY <1>6 DEF Open
<1>7. ASSUME NEW c \in Conn, TakeMessage(c) PROVE UdpTypes'
     BY <1>7 DEF TakeMessage
<1>8. ASSUME NEW c \in Conn, FallsSilent(c) PROVE UdpTypes'
     BY <1>8 DEF FallsSilent
<1>9. CASE Reap
     BY <1>9 DEF Reap, ReapTick, ReapExit, ReapCheck, ReapClose, ReapClosed, ReapScanned
<1>10. ReadFails => UNCHANGED udpVars
     BY DEF ReadFails
<1>. QED
     BY <1>1, <1>2, <1>3, <1>4, <1>5, <1>6, <1>7, <1>8, <1>9, <1>10 DEF UdpNext, allVars

LEMMA ReapableStep == Types /\ Life /\ UdpTypes /\ Reapable /\ [UdpNext]_allVars => Reapable'
<1>. SUFFICES ASSUME Types, Life, UdpTypes, Reapable, [UdpNext]_allVars PROVE Reapable'
     OBVIOUS
<1>1. \A c \in Conn : acc[c] \in {"spawn", "served"} => acc'[c] \in {"spawn", "served"}
     BY UdpStep, SessionsStay DEF AnyStep
<1>2. CASE UNCHANGED <<reapSet, reaping>>
     BY <1>1, <1>2 DEF Reapable, UdpTypes
<1>3. CASE ReapTick
  <2>1. ASSUME NEW c \in Conn, Registered(c) PROVE acc[c] \in {"spawn", "served"}
       BY <2>1, AddrAssumption, ConnAssumption DEF Registered, Life
  <2>. QED
       BY <1>1, <1>3, <2>1 DEF ReapTick, Reapable, UdpTypes
<1>4. CASE ReapCheck
     BY <1>1, <1>4 DEF ReapCheck, Reapable, UdpTypes
<1>5. CASE ReapClosed
     BY <1>1, <1>5 DEF ReapClosed, Reapable, UdpTypes
<1>6. Reap => ReapTick \/ ReapCheck \/ ReapClosed \/ UNCHANGED <<reapSet, reaping>>
     BY DEF Reap, ReapExit, ReapClose, ReapScanned, udpVars, reapVars
<1>7. UdpRegister \/ Deliver \/ ReadFails => UNCHANGED <<reapSet, reaping>>
     BY DEF UdpRegister, Deliver, ReadFails, udpVars, reapVars
<1>8. \A a : Found(a) => UNCHANGED <<reapSet, reaping>>
     BY DEF Found, Reading, reapVars
<1>9. \A c : FirstContact(c) \/ Open(c) \/ TakeMessage(c) \/ FallsSilent(c)
             => UNCHANGED <<reapSet, reaping>>
     BY DEF FirstContact, Reading, Open, TakeMessage, FallsSilent, reapVars
<1>. QED
     BY <1>2, <1>3, <1>4, <1>5, <1>6, <1>7, <1>8, <1>9 DEF UdpNext, allVars, udpVars, reapVars

UdpIInv == Types /\ Life /\ UdpTypes /\ Reapable

LEMMA UdpInductive == UdpSpec => []UdpIInv
<1>1. UdpInit => UdpIInv
  <2>. SUFFICES ASSUME UdpInit PROVE UdpIInv
       OBVIOUS
  <2>1. dest = None /\ reaping = None /\ reaper = "off" /\ reapSet = {}
       BY DEF UdpInit
  <2>2. arrived \in [Addr -> 0..Datagrams] /\ inbox \in [Conn -> 0..InboxSize]
       BY UdpAssumption DEF UdpInit
  <2>3. silent \in [Conn -> BOOLEAN]
       BY DEF UdpInit
  <2>4. UdpTypes /\ Reapable
       BY <2>1, <2>2, <2>3 DEF UdpTypes, Reapable
  <2>. QED
       BY <2>4, TypesInit, LifeInit DEF UdpInit, UdpIInv
<1>2. UdpIInv /\ [UdpNext]_allVars => UdpIInv'
  <2>1. UdpIInv /\ [UdpNext]_allVars => [AnyStep]_vars
       BY UdpStep DEF UdpIInv, AnyStep
  <2>. QED
       BY <2>1, TypesStep, LifeStep, UdpTypesStep, ReapableStep DEF UdpIInv
<1>. QED
     BY <1>1, <1>2, PTL DEF UdpSpec

LEMMA UdpIsOrderly == UdpSpec => OrderlyServer
<1>1. UdpIInv /\ [UdpNext]_allVars => [Step]_vars
     BY UdpStep DEF UdpIInv
<1>2. UdpInit => Init
     BY DEF UdpInit
<1>. QED
     BY <1>1, <1>2, UdpInductive, PTL DEF UdpSpec, OrderlyServer

LEMMA UdpIsAny == UdpSpec => AnyServer
BY UdpIsOrderly, OrderlyIsAny, PTL

-------------------------------------------------------------------------------
(* The theorems about every server                                         *)

\* Every variable keeps its type; no counter goes below zero, and no inbox holds
\* more than it has room for.
THEOREM UdpTypeCorrect == UdpSpec => []UdpTypeOK
<1>1. UdpIInv /\ TypeOK => UdpTypeOK
     BY DEF UdpIInv, UdpTypes, UdpTypeOK
<1>. QED
     BY <1>1, UdpInductive, UdpIsAny, ServerTypes, PTL

\* Both counters are exact, although the reaper closes sessions as well.
THEOREM UdpCounts == UdpSpec => []Accounting
BY UdpIsAny, ServerAccounting, PTL

\* At most MaxConnections sessions are open at a time.
THEOREM UdpLimit == UdpSpec => []AdmissionLimit
BY UdpIsAny, ServerLimit, PTL

\* When a StopListener call has returned, and ever after, Serve and all handlers
\* are over and all sessions are closed.
THEOREM UdpStopIsComplete == UdpSpec => []StopComplete
BY UdpIsAny, ServerStops, PTL

\* While Serve's context is live, deliver and GetSession find no session that has
\* gone through remove.
THEOREM UdpRegistryHoldsTheOpen == UdpSpec => []RegistryLive
BY UdpIsOrderly, ServerRegistry, PTL

-------------------------------------------------------------------------------
(* One session per address                                                 *)

Opening(c) == acc[c] \in {"admit", "full", "enter", "create", "add", "spawn"}

\* The read loop opens one session at a time, for an address that has none, and a
\* session that has been registered stays so until its own remove.
Exclusive ==
    /\ \A c \in Conn : Opening(c) => dest = c
    /\ \A c \in Conn : Opening(c) /\ acc[c] # "spawn" => byAddr[AddrOf[c]] = None
    /\ OpenIsFound

\* Connections move in open only; while it runs, the loop looks at nothing else.
LEMMA UdpMoves ==
    ASSUME Types, [UdpNext]_allVars
    PROVE  \/ \E c \in Conn : FirstContact(c) \/ Open(c)
           \/ acc' = acc /\ (dest' # dest => dest = None \/ acc[dest] = "served")
<1>. DEFINE Goal == acc' = acc /\ (dest' # dest => dest = None \/ acc[dest] = "served")
<1>. USE DEF vars, sessionVars, udpVars, readVars
<1>1. Shared => acc' = acc
  <2>1. \A c \in Conn : \/ EndSession(c) \/ ContextClosesSession(c) \/ CloseSteps(c)
                        \/ HandlerReturns(c)
                        => acc' = acc
       BY DEF EndSession, ContextClosesSession, CloseSteps, CloseRemove, CloseRelease,
              CloseTransport, CloseCancel, HandlerReturns
  <2>2. \A s \in Stopper : StopSteps(s) => acc' = acc
       BY StoppingKeeps DEF Stops, StopFrame
  <2>. QED
       BY <2>1, <2>2, ServingKeeps DEF Shared, Serving, ServeFrame
<1>2. ServeEnter("register") \/ RunUnblock => acc' = acc
     BY DEF ServeEnter, RunUnblock
<1>3. /\ \A c \in Conn : HandlerLeaves(c) => acc' = acc
      /\ \A s \in Stopper : StopCloseListener(s) => acc' = acc
     BY DEF HandlerLeaves, StopCloseListener
<1>4. UdpRegister \/ Deliver \/ ReadFails \/ Reap => Goal
     BY DEF UdpRegister, ServeRegister, Deliver, ReadFails, Reap, ReapTick, ReapExit, ReapCheck,
            ReapClose, ReapClosed, ReapScanned
<1>5. \A a : Found(a) => Goal
     BY DEF Found, Reading
<1>6. \A c : TakeMessage(c) \/ FallsSilent(c) => Goal
     BY DEF TakeMessage, FallsSilent
<1>. QED
     BY <1>1, <1>2, <1>3, <1>4, <1>5, <1>6 DEF UdpNext, allVars

LEMMA ExclusiveStep == UdpIInv /\ Exclusive /\ [UdpNext]_allVars => Exclusive'
<1>. SUFFICES ASSUME UdpIInv, Exclusive, [UdpNext]_allVars PROVE Exclusive'
     OBVIOUS
<1>. USE ConnAssumption, AddrAssumption DEF UdpIInv, Types, OpenIsFound
<1>0. [AnyStep]_vars
     BY UdpStep DEF AnyStep
<1>1. ASSUME NEW c \in Conn, Opening(c)' PROVE dest' = c
  <2>1. ASSUME NEW d \in Conn, FirstContact(d) PROVE dest' = c
       BY <1>1, <2>1 DEF FirstContact, Reading, Exclusive, Opening
  <2>2. ASSUME NEW d \in Conn, Open(d) PROVE dest' = c
    <3>1. CASE c = d
         BY <1>1, <2>2, <3>1 DEF Open, Opening
    <3>2. CASE c # d
      <4>1. \E x : acc' = [acc EXCEPT ![d] = x]
           BY <2>2 DEF Open, TryAdmit, RejectFull, Enter, Refuse, NewSession, AddSession, Spawn
      <4>2. Opening(c) /\ dest = d
           BY <1>1, <2>2, <3>2, <4>1 DEF Open, Opening
      <4>. QED
           BY <3>2, <4>2 DEF Exclusive
    <3>. QED
         BY <3>1, <3>2
  <2>3. CASE acc' = acc /\ (dest' # dest => dest = None \/ acc[dest] = "served")
       BY <1>1, <2>3 DEF Exclusive, Opening
  <2>. QED
       BY <2>1, <2>2, <2>3, UdpMoves
<1>2. ASSUME NEW c \in Conn, Opening(c)', acc'[c] # "spawn" PROVE byAddr'[AddrOf[c]] = None
  <2>1. byAddr[AddrOf[c]] = None
    <3>1. ASSUME NEW d \in Conn, FirstContact(d) PROVE byAddr[AddrOf[c]] = None
         BY <1>2, <3>1 DEF FirstContact, Exclusive, Opening
    <3>2. ASSUME NEW d \in Conn, Open(d) PROVE Opening(c) /\ acc[c] # "spawn"
         BY <1>2, <3>2 DEF Open, TryAdmit, RejectFull, Enter, Refuse, NewSession, AddSession,
                           Spawn, Opening
    <3>. QED
         BY <1>2, <3>1, <3>2, UdpMoves DEF Exclusive, Opening
  <2>2. ASSUME NEW d \in Conn, AddSession(d) PROVE FALSE
    <3>1. acc[d] = "add" /\ acc' = [acc EXCEPT ![d] = "spawn"]
         BY <2>2 DEF AddSession
    <3>2. c # d /\ Opening(c) /\ Opening(d)
         BY <1>2, <3>1 DEF Opening
    <3>. QED
         BY <3>2 DEF Exclusive
  <2>3. ASSUME NEW d \in Conn, CloseRemove(d) PROVE byAddr'[AddrOf[c]] = None
       BY <2>1, <2>3 DEF CloseRemove
  <2>. QED
       BY <1>0, <2>1, <2>2, <2>3, RegistryChanges
<1>3. ASSUME NEW c \in Conn, acc'[c] \in {"spawn", "served"}, ~Ended(c)' PROVE Registered(c)'
  <2>1. ~Ended(c)
       BY <1>0, <1>3, CloseAdvances DEF Ended, CloseEdges
  <2>2. CASE acc[c] \in {"spawn", "served"}
    <3>1. Registered(c)
         BY <2>1, <2>2 DEF Exclusive
    <3>2. ASSUME NEW d \in Conn, AddSession(d) PROVE Registered(c)'
      <4>1. byAddr[AddrOf[d]] = None
           BY <3>2 DEF AddSession, Exclusive, Opening
      <4>2. AddrOf[c] # AddrOf[d]
           BY <3>1, <4>1 DEF Registered
      <4>. QED
           BY <3>1, <3>2, <4>2 DEF AddSession, Registered
    <3>3. ASSUME NEW d \in Conn, CloseRemove(d) PROVE Registered(c)'
         BY <1>3, <3>1, <3>3 DEF CloseRemove, Registered, Ended
    <3>. QED
         BY <1>0, <3>1, <3>2, <3>3, RegistryChanges DEF Registered
  <2>3. CASE acc[c] \notin {"spawn", "served"}
    <3>1. Admitting(c) /\ acc[c] = "add"
         BY <1>0, <1>3, <2>3, AccChanges, Advances DEF AcceptEdges
    <3>2. AddSession(c)
         BY <3>1 DEF Admitting, Arrive, TryAdmit, RejectFull, Refuses, Enter, HandshakeDone,
                     HandshakeFails, FailedLeaves, NewSession, Spawn
    <3>. QED
         BY <3>2 DEF AddSession, Registered
  <2>. QED
       BY <2>2, <2>3
<1>. QED
     BY <1>1, <1>2, <1>3 DEF Exclusive

LEMMA UdpExclusive == UdpSpec => []Exclusive
<1>1. UdpInit => Exclusive
     BY DEF UdpInit, Init, Exclusive, Opening, OpenIsFound
<1>. QED
     BY <1>1, ExclusiveStep, UdpInductive, PTL DEF UdpSpec

\* deliver, reapIdle and StopListener find every open session in byAddr: only its own
\* remove takes it out, for open is never called for an address that has one.
THEOREM OpenSessionsAreFound == UdpSpec => []OpenIsFound
<1>1. Exclusive => OpenIsFound
     BY DEF Exclusive
<1>. QED
     BY <1>1, UdpExclusive, PTL

\* An address never has two open sessions: one that is not registered any more
\* has ended, and open is called only for an address without one.
THEOREM OneSessionPerAddress == UdpSpec => []OneSession
<1>1. UdpIInv /\ Exclusive => OneSession
  <2>. SUFFICES ASSUME UdpIInv, Exclusive,
                       NEW c \in Conn, NEW d \in Conn, c # d, AddrOf[c] = AddrOf[d],
                       Created(c), Created(d), ~Ended(c), ~Ended(d)
                PROVE  FALSE
       BY DEF OneSession
  <2>1. acc[c] = "add" \/ Registered(c)
       BY DEF Exclusive, OpenIsFound, Created
  <2>2. acc[d] = "add" \/ Registered(d)
       BY DEF Exclusive, OpenIsFound, Created
  <2>. QED
       BY <2>1, <2>2, ConnAssumption DEF Exclusive, Opening, Registered
<1>. QED
     BY <1>1, UdpExclusive, UdpInductive, PTL

-------------------------------------------------------------------------------
(* What StopListener waits for                                             *)

LEMMA UdpPasses ==
    ASSUME Types, [UdpNext]_allVars, NEW s \in Stopper, Passes(s) PROVE CloseListener
<1>. USE DEF Passes, vars, stopVars, Types
<1>1. ASSUME NEW c \in Conn,
             FirstContact(c) \/ Open(c) \/ TakeMessage(c) \/ FallsSilent(c) \/ HandlerLeaves(c)
      PROVE  FALSE
     BY <1>1 DEF FirstContact, Open, TryAdmit, RejectFull, Enter, Refuse, NewSession, AddSession,
                 Spawn, TakeMessage, FallsSilent, HandlerLeaves
<1>2. ~(ServeEnter("register") \/ UdpRegister \/ RunUnblock \/ Deliver \/ ReadFails)
     BY DEF ServeEnter, UdpRegister, ServeRegister, RunUnblock, Deliver, ReadFails
<1>3. \A a : ~Found(a)
     BY DEF Found
<1>4. ~Reap
     BY DEF Reap, ReapTick, ReapExit, ReapCheck, ReapClose, ReapClosed, ReapScanned
<1>5. ASSUME NEW r \in Stopper, StopCloseListener(r) PROVE CloseListener
     BY <1>5 DEF StopCloseListener
<1>. QED
     BY <1>1, <1>2, <1>3, <1>4, <1>5, SharedDoesNotPass DEF UdpNext, allVars

\* Whatever StopListener waits for has been told to end: the read loop, by the closed
\* socket, and the sessions, by their contexts.
THEOREM UdpStopIsHeard == UdpSpec => []StopIsHeard
<1>1. UdpInit => Bound /\ AcceptHears
     BY DEF UdpInit, Init, Bound, AcceptHears, ServeRunning
<1>2. /\ IInv /\ UdpIInv /\ Stopping /\ Bound /\ AcceptHears /\ [UdpNext]_allVars
      => Bound' /\ AcceptHears'
     BY UdpStep, UdpPasses, ListenerStays, HearingStep DEF AnyStep, IInv, UdpIInv
<1>3. UdpSpec => [](Bound /\ AcceptHears)
     BY <1>1, <1>2, Inductive, StoppingKept, UdpInductive, UdpIsAny, PTL DEF UdpSpec
<1>4. SessionsHear /\ AcceptHears => StopIsHeard
     BY DEF StopIsHeard
<1>. QED
     BY <1>3, <1>4, ServerTellsSessions, UdpIsAny, PTL
==============================================================================
