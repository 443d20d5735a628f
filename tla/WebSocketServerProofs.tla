--------------------------- MODULE WebSocketServerProofs ---------------------------
(***************************************************************************)
(* What holds of WebSocketServer for every set of connections, addresses   *)
(* and StopListener calls and every limit: what holds of every server,     *)
(* with any number of requests in admission at once.                       *)
(***************************************************************************)
EXTENDS WebSocketServer, ServerProofs

\* The http.Server comes with the AfterFunc that closes it, when Serve is under way, and
\* while it has an open listener Serve is inside srv.Serve.
HttpLater ==
    /\ http \in {"none", "set", "serving", "shut"}
    /\ http # "none" => serve \notin {"init", "enter", "register"}
    /\ http = "serving" /\ ln = "open" => serve = "accept"
    /\ unblock # "off" => http # "none"

LEMMA WsStep == HttpLater /\ [WsNext]_allVars => [Step]_vars
<1>. SUFFICES ASSUME HttpLater, [WsNext]_allVars PROVE [Step]_vars
     OBVIOUS
<1>1. Shared => Step
  <2>1. \A c : EndSession(c) => ClosedBy(c)
       BY DEF EndSession, ClosedBy
  <2>. QED
       BY <2>1 DEF Shared, Step, Serving, Ending, Stops
<1>2. ServeEnter("register") \/ Register => Step
     BY DEF Step, Serving, Register
<1>3. ASSUME NEW c \in Conn, Upgrade(c) PROVE Step
  <2>1. Refuse(c) => Refuses(c)
       BY DEF Refuse, Refuses, serveVars
  <2>. QED
       BY <1>3, <2>1 DEF Upgrade, Step, Admitting
<1>4. ASSUME NEW c \in Conn, HandlerLeaves(c) PROVE Step
     BY <1>4 DEF Step, Ending
<1>5. HttpServe => UNCHANGED vars
     BY DEF HttpServe
<1>6. HttpReturns => Step
     BY DEF HttpReturns, CloseListener, Step, Serving, AcceptEnds, MayClose
<1>7. Unblock => Step
     BY DEF Unblock, HttpClose, CloseListener, Step, Serving, UnblockRuns, MayClose
<1>8. ASSUME NEW c \in Conn, Request(c) PROVE Step
  <2>1. Arrive(c)
       BY <1>8 DEF Request, Arrive, HttpLater
  <2>. QED
       BY <2>1 DEF Step, Admitting
<1>9. ASSUME NEW s \in Stopper, StopCloseHttp(s) PROVE Step
  <2>1. StopPasses(s)
       BY <1>9 DEF StopCloseHttp, HttpClose, CloseListener, StopPasses, MayClose
  <2>. QED
       BY <2>1 DEF Step, Stops
<1>. QED
     BY <1>1, <1>2, <1>3, <1>4, <1>5, <1>6, <1>7, <1>8, <1>9 DEF WsNext, allVars

\* Serve does not go back to where it begins.
LEMMA ServeMovesOn ==
    ASSUME Types, [AnyStep]_vars, serve \notin {"init", "enter", "register"}
    PROVE  serve' \notin {"init", "enter", "register"}
<1>. USE DEF serveVars, vars
<1>1. ASSUME NEW c \in Conn, Admitting(c) PROVE serve' \in {serve, "unwatch"}
     BY <1>1 DEF Admitting, Arrive, TryAdmit, RejectFull, Refuses, Enter, HandshakeDone,
                 HandshakeFails, FailedLeaves, NewSession, AddSession, Spawn
<1>2. ASSUME NEW c \in Conn, ClosedEarly(c) PROVE serve' = serve
     BY <1>2 DEF ClosedEarly
<1>3. ASSUME NEW c \in Conn, Ending(c) PROVE serve' = serve
     BY <1>3 DEF Ending, CloseSteps, ContextClosesSession, CloseRemove, CloseRelease,
                 CloseTransport, CloseCancel, HandlerReturns, HandlerLeaves
<1>. QED
     BY <1>1, <1>2, <1>3, AnyStepSplit, ServingKeeps, StoppingKeeps DEF ServeFrame, StopFrame

\* srv.Serve returns in one way.
LEMMA ServesOn ==
    ASSUME Types, [WsNext]_allVars, serve = "accept"
    PROVE  serve' = "accept" \/ HttpReturns
<1>. USE DEF serveVars, vars
<1>1. ASSUME Shared PROVE serve' = "accept"
  <2>1. ASSUME NEW c \in Conn, \/ EndSession(c) \/ ContextClosesSession(c) \/ CloseSteps(c)
                               \/ HandlerReturns(c)
        PROVE  serve' = serve
       BY <2>1 DEF EndSession, ContextClosesSession, CloseSteps, CloseRemove, CloseRelease,
              CloseTransport, CloseCancel, HandlerReturns
  <2>2. ASSUME NEW s \in Stopper, StopSteps(s) PROVE serve' = serve
       BY <2>2, StoppingKeeps DEF Stops, StopFrame
  <2>3. ASSUME \/ Listen \/ ServeRefused \/ ServeUnblock \/ ServeUnwatch \/ ServeCancel
               \/ ServeLeave \/ RunWatch \/ ParentEnds \/ CallerCancels
        PROVE  serve' = "accept"
       BY <2>3 DEF Listen, ServeRefused, ServeUnblock, ServeUnwatch, ServeCancel, ServeLeave,
                   RunWatch, ParentEnds, CallerCancels
  <2>. QED
       BY <1>1, <2>1, <2>2, <2>3 DEF Shared
<1>2. ServeEnter("register") \/ Register \/ HttpServe \/ Unblock => serve' = "accept"
     BY DEF ServeEnter, Register, ServeRegister, HttpServe, Unblock
<1>3. ASSUME NEW c \in Conn, Upgrade(c) \/ HandlerLeaves(c) \/ Request(c)
      PROVE  serve' = serve
     BY <1>3 DEF Upgrade, TryAdmit, RejectFull, Enter, Refuse, HandshakeDone, HandshakeFails,
                 FailedLeaves, NewSession, AddSession, Spawn, HandlerLeaves, Request
<1>4. ASSUME NEW s \in Stopper, StopCloseHttp(s) PROVE serve' = serve
     BY <1>4 DEF StopCloseHttp
<1>. QED
     BY <1>1, <1>2, <1>3, <1>4 DEF WsNext, allVars

\* Serve's AfterFunc is registered with the http.Server.
LEMMA UnblockLater ==
    ASSUME Types, [WsNext]_allVars, unblock = "off"
    PROVE  unblock' = "off" \/ Register
<1>. USE ModeAssumption DEF vars, serveVars, CancelServer, CancelServe, Fired
<1>1. Shared => unblock' = "off"
  <2>1. ASSUME NEW c \in Conn, \/ EndSession(c) \/ ContextClosesSession(c) \/ CloseSteps(c)
                               \/ HandlerReturns(c)
        PROVE  unblock' = unblock
       BY <2>1 DEF EndSession, ContextClosesSession, CloseSteps, CloseRemove, CloseRelease,
              CloseTransport, CloseCancel, HandlerReturns
  <2>2. ASSUME NEW s \in Stopper, StopSteps(s) PROVE unblock' = "off"
       BY <2>2 DEF StopSteps, StopBegin, StopCancel, StopCloseSession, StopSessionClosed,
              StopWait, StopReturns
  <2>3. ASSUME \/ Listen \/ ServeRefused \/ ServeUnblock \/ ServeUnwatch \/ ServeCancel
               \/ ServeLeave \/ RunWatch \/ ParentEnds \/ CallerCancels
        PROVE  unblock' = "off"
       BY <2>3 DEF Listen, ServeRefused, ServeUnblock, ServeUnwatch, ServeCancel, ServeLeave,
                   RunWatch, ParentEnds, CallerCancels
  <2>. QED
       BY <2>1, <2>2, <2>3 DEF Shared
<1>2. ServeEnter("register") \/ HttpServe \/ HttpReturns \/ Unblock => unblock' = "off"
     BY DEF ServeEnter, HttpServe, HttpReturns, Unblock
<1>3. ASSUME NEW c \in Conn, Upgrade(c) \/ HandlerLeaves(c) \/ Request(c)
      PROVE  unblock' = "off"
     BY <1>3 DEF Upgrade, TryAdmit, RejectFull, Enter, Refuse, HandshakeDone, HandshakeFails,
                 FailedLeaves, NewSession, AddSession, Spawn, HandlerLeaves, Request
<1>4. ASSUME NEW s \in Stopper, StopCloseHttp(s) PROVE unblock' = "off"
     BY <1>4 DEF StopCloseHttp
<1>. QED
     BY <1>1, <1>2, <1>3, <1>4 DEF WsNext, allVars

LEMMA HttpLaterStep == Types /\ HttpLater /\ [WsNext]_allVars => HttpLater'
<1>. SUFFICES ASSUME Types, HttpLater, [WsNext]_allVars PROVE HttpLater'
     OBVIOUS
<1>1. serve \notin {"init", "enter", "register"} => serve' \notin {"init", "enter", "register"}
     BY WsStep, ServeMovesOn DEF AnyStep
<1>2. unblock = "off" => unblock' = "off" \/ Register
     BY UnblockLater
<1>. USE DEF HttpLater
<1>3. CASE Register
     BY <1>3 DEF Register, ServeRegister
<1>4. ASSUME ~Register,
             \/ http' = http
             \/ http' = "shut" /\ (http # "none" \/ unblock = "fired")
             \/ HttpServe
      PROVE  HttpLater'
  <2>1. http' # "none" => serve' \notin {"init", "enter", "register"}
       BY <1>1, <1>4 DEF HttpServe
  <2>2. unblock' # "off" => http' # "none"
       BY <1>2, <1>4 DEF HttpServe
  <2>3. http' = "serving" /\ ln' = "open" => serve' = "accept"
    <3>1. CASE HttpServe
         BY <3>1 DEF HttpServe, vars, serveVars
    <3>2. ASSUME http = "serving", ln' = "open" PROVE serve' = "accept"
      <4>1. ln = "open"
           BY <3>2, WsStep, ListenerStays DEF AnyStep, Types
      <4>2. HttpReturns => ln' # "open"
           BY DEF HttpReturns, CloseListener
      <4>. QED
           BY <3>2, <4>1, <4>2, ServesOn
    <3>. QED
         BY <1>4, <3>1, <3>2
  <2>4. http' \in {"none", "set", "serving", "shut"}
       BY <1>4 DEF HttpServe
  <2>. QED
       BY <2>1, <2>2, <2>3, <2>4
<1>5. ASSUME NEW s \in Stopper, StopCloseHttp(s)
      PROVE  http' = http \/ (http' = "shut" /\ http # "none")
     BY <1>5 DEF StopCloseHttp, HttpClose
<1>6. Unblock => http' = "shut" /\ unblock = "fired"
     BY DEF Unblock, HttpClose
<1>7. HttpReturns => http' = http
     BY DEF HttpReturns
<1>8. \A c : Request(c) => http' = http
     BY DEF Request
<1>. QED
     BY <1>3, <1>4, <1>5, <1>6, <1>7, <1>8 DEF WsNext, allVars

WsIInv == Types /\ HttpLater

LEMMA WsInductive == WsSpec => []WsIInv
<1>1. WsInit => WsIInv
  <2>1. WsInit => HttpLater
       BY DEF WsInit, Init, HttpLater
  <2>. QED
       BY <2>1, TypesInit DEF WsInit, WsIInv
<1>2. WsIInv /\ [WsNext]_allVars => WsIInv'
  <2>1. WsIInv /\ [WsNext]_allVars => [AnyStep]_vars
       BY WsStep DEF WsIInv, AnyStep
  <2>. QED
       BY <2>1, TypesStep, HttpLaterStep DEF WsIInv
<1>. QED
     BY <1>1, <1>2, PTL DEF WsSpec

LEMMA WsIsOrderly == WsSpec => OrderlyServer
<1>1. WsIInv /\ [WsNext]_allVars => [Step]_vars
     BY WsStep DEF WsIInv
<1>2. WsInit => Init
     BY DEF WsInit
<1>. QED
     BY <1>1, <1>2, WsInductive, PTL DEF WsSpec, OrderlyServer

LEMMA WsIsAny == WsSpec => AnyServer
BY WsIsOrderly, OrderlyIsAny, PTL

-------------------------------------------------------------------------------
(* The theorems                                                            *)

\* Every variable keeps its type, and neither counter ever goes below zero.
THEOREM WsTypeCorrect == WsSpec => []WsTypeOK
<1>1. WsIInv /\ TypeOK => WsTypeOK
     BY DEF WsIInv, HttpLater, WsTypeOK
<1>. QED
     BY <1>1, WsInductive, WsIsAny, ServerTypes, PTL

\* Both counters are exact, also when an upgrade fails.
THEOREM WsCounts == WsSpec => []Accounting
BY WsIsAny, ServerAccounting, PTL

\* At most MaxConnections connections are in at a time, although any number of
\* requests go through tryAdmit at once.
THEOREM WsLimit == WsSpec => []AdmissionLimit
BY WsIsAny, ServerLimit, PTL

\* When a StopListener call has returned, and ever after, Serve and all handlers
\* are over and all sessions are closed, wherever each request was.
THEOREM WsStopIsComplete == WsSpec => []StopComplete
BY WsIsAny, ServerStops, PTL

\* While Serve's context is live, GetSession finds no session that has gone
\* through remove.
THEOREM WsRegistryHoldsTheOpen == WsSpec => []RegistryLive
BY WsIsOrderly, ServerRegistry, PTL

-------------------------------------------------------------------------------
(* What StopListener waits for                                             *)

LEMMA WsPasses ==
    ASSUME Types, [WsNext]_allVars, NEW s \in Stopper, Passes(s)
    PROVE  \E r \in Stopper : StopCloseHttp(r)
<1>. USE DEF Passes, vars, stopVars, Types
<1>1. ASSUME NEW c \in Conn, Upgrade(c) \/ HandlerLeaves(c) \/ Request(c) PROVE FALSE
     BY <1>1 DEF Upgrade, TryAdmit, RejectFull, Enter, Refuse, HandshakeDone, HandshakeFails,
                 FailedLeaves, NewSession, AddSession, Spawn, HandlerLeaves, Request
<1>2. ~(ServeEnter("register") \/ Register \/ HttpServe \/ HttpReturns \/ Unblock)
     BY DEF ServeEnter, Register, ServeRegister, HttpServe, HttpReturns, Unblock
<1>. QED
     BY <1>1, <1>2, SharedDoesNotPass DEF WsNext, allVars

\* An http.Server that has been shut is never opened again.
LEMMA StaysShut ==
    ASSUME HttpLater, [WsNext]_allVars, http = "shut" PROVE http' = "shut"
<1>1. ~Register
     BY DEF HttpLater, Register, ServeRegister
<1>. QED
     BY <1>1 DEF WsNext, allVars, HttpServe, HttpReturns, Unblock, Request, StopCloseHttp, HttpClose

\* The accept call, seen from StopListener.
Unaccepting == StopSent /\ ServeRunning => ln = "closed" \/ http = "shut"

LEMMA UnacceptingStep ==
    ASSUME IInv, WsIInv, Stopping, Bound, Unaccepting, [WsNext]_allVars
    PROVE  Bound' /\ Unaccepting'
<1>. USE DEF IInv, WsIInv
<1>1. [AnyStep]_vars
     BY WsStep DEF AnyStep
<1>2. /\ Bound'
      /\ ServeRunning' => (ServeRunning \/ ~stopped') /\ ln' \in {ln, "closed"}
     BY <1>1, ListenerStays
<1>3. ASSUME StopSent, ServeRunning' PROVE ln' = "closed" \/ http' = "shut"
  <2>1. stopped
       BY <1>3 DEF StopSent, Stopping
  <2>2. stopped'
       BY <1>1, <2>1, StoppedStays
  <2>. QED
       BY <1>2, <1>3, <2>2, StaysShut DEF Unaccepting
<1>4. ASSUME NEW s \in Stopper, Passes(s), ServeRunning' PROVE ln' = "closed" \/ http' = "shut"
  <2>1. serve' = serve
       BY <1>1, <1>4, OnlyPassing
  <2>2. PICK r \in Stopper : StopCloseHttp(r)
       BY <1>4, WsPasses
  <2>3. ln # "unbound"
       BY <1>4, <2>1 DEF Bound, ServeRunning
  <2>. QED
       BY <2>2, <2>3 DEF StopCloseHttp, HttpClose, CloseListener, Types
<1>. QED
     BY <1>1, <1>2, <1>3, <1>4, OnlyPassing DEF Unaccepting

\* Whatever StopListener waits for has been told to end: wherever Serve is in handing
\* its listener to the http.Server, one of the two has been closed under it, and the
\* sessions, by their contexts; one whose upgrade is under way finds its context over.
THEOREM WsStopIsHeardByAll == WsSpec => []WsStopIsHeard
<1>1. WsInit => Bound /\ Unaccepting
     BY DEF WsInit, Init, Bound, Unaccepting, ServeRunning
<1>2. WsSpec => [](Bound /\ Unaccepting)
     BY <1>1, UnacceptingStep, Inductive, StoppingKept, WsInductive, WsIsAny, PTL DEF WsSpec
<1>3. SessionsHear /\ Unaccepting => WsStopIsHeard
     BY DEF WsStopIsHeard, Unaccepting
<1>. QED
     BY <1>2, <1>3, ServerTellsSessions, WsIsAny, PTL
===============================================================================
