----------------------------- MODULE TcpServerProofs -----------------------------
(***************************************************************************)
(* What holds of TcpServer for every set of connections, addresses and     *)
(* StopListener calls and every MaxConnections: what holds of every server *)
(* (ServerProofs), and what follows from accepting one connection at a     *)
(* time.                                                                   *)
(***************************************************************************)
EXTENDS TcpServer, ServerProofs

-------------------------------------------------------------------------------
(* The TCP server is a server                                              *)

LEMMA TcpStep == [Next]_vars => [Step]_vars
<1>1. Shared => Step
  <2>1. \A c : EndSession(c) => ClosedBy(c)
       BY DEF EndSession, ClosedBy
  <2>. QED
       BY <2>1 DEF Shared, Step, Serving, Ending, Stops
<1>2. ServeEnter("register") \/ ServeRegister => Step
     BY DEF Step, Serving
<1>3. AcceptFails => Step
     BY DEF AcceptFails, Accepting, Step, Serving, AcceptEnds, MayClose
<1>4. RunUnblock => Step
     BY DEF RunUnblock, CloseListener, Step, Serving, UnblockRuns, MayClose
<1>5. ASSUME NEW c \in Conn, Accept(c) PROVE Step
  <2>1. Arrive(c)
       BY <1>5 DEF Accept, Accepting, Arrive
  <2>. QED
       BY <2>1 DEF Step, Admitting
<1>6. ASSUME NEW c \in Conn, AcceptPath(c) PROVE Step
  <2>1. Refuse(c) => Refuses(c)
       BY DEF Refuse, Refuses, serveVars
  <2>. QED
       BY <1>6, <2>1 DEF AcceptPath, Step, Admitting
<1>7. ASSUME NEW c \in Conn, HandlerLeaves(c) PROVE Step
     BY <1>7 DEF Step, Ending
<1>8. ASSUME NEW s \in Stopper, StopCloseListener(s) PROVE Step
  <2>1. StopPasses(s)
       BY <1>8 DEF StopCloseListener, CloseListener, StopPasses, MayClose
  <2>. QED
       BY <2>1 DEF Step, Stops
<1>. QED
     BY <1>1, <1>2, <1>3, <1>4, <1>5, <1>6, <1>7, <1>8 DEF Next

LEMMA TcpIsOrderly == Spec => OrderlyServer
BY TcpStep, PTL DEF Spec, OrderlyServer

LEMMA TcpIsAny == Spec => AnyServer
BY TcpIsOrderly, OrderlyIsAny, PTL

-------------------------------------------------------------------------------
(* The theorems about every server                                         *)

\* Every variable keeps its type, and neither counter ever goes below zero: no
\* slot is released and no goroutine signed off twice.
THEOREM TypeCorrect == Spec => []TypeOK
BY TcpIsAny, ServerTypes, PTL

\* tryAdmit's counter is exact on every path, and the WaitGroup counts the Serve loop
\* and each session goroutine once.
THEOREM CountersExact == Spec => []Accounting
BY TcpIsAny, ServerAccounting, PTL

\* At most MaxConnections connections are in at a time.
THEOREM LimitKept == Spec => []AdmissionLimit
BY TcpIsAny, ServerLimit, PTL

\* enter takes nothing new on once StopListener has set stopped.
THEOREM NothingStarts == Spec => NothingStartsAfterStop
BY TcpIsAny, ServerStartsNothing, PTL

\* When a StopListener call has returned, and ever after, Serve and all handlers
\* are over and all sessions are closed.
THEOREM StopIsComplete == Spec => []StopComplete
BY TcpIsAny, ServerStops, PTL

\* While Serve's context is live, GetSession finds no session that has gone
\* through remove.
THEOREM RegistryHoldsTheOpen == Spec => []RegistryLive
BY TcpIsOrderly, ServerRegistry, PTL

\* While Serve's context is live, a session's context ends after its connection.
THEOREM ClosedInOrder == Spec => []CloseOrder
BY TcpIsOrderly, ServerCloseOrder, PTL

\* An old session's late close leaves its client's new session registered.
THEOREM NewerStays == Spec => KeepsNewer
BY TcpIsAny, ServerKeepsNewer, PTL

-------------------------------------------------------------------------------
(* Accepting one connection at a time                                      *)

\* Serve takes one connection at a time through accept.
Serial == \A c, d \in Conn : InAccept(c) /\ InAccept(d) => c = d

LEMMA SerialStep == Types /\ Serial /\ [Next]_vars => Serial'
<1>. SUFFICES ASSUME Types, Serial, [Next]_vars PROVE Serial'
     OBVIOUS
<1>. USE DEF Types, Serial, InAccept, AccState, vars, serverVars, serveVars, sessionVars, stopVars
<1>1. ASSUME acc' = acc PROVE Serial'
     BY <1>1
<1>2. ASSUME NEW c \in Conn, Accept(c) PROVE Serial'
     BY <1>2 DEF Accept, Accepting
<1>3. ASSUME NEW c \in Conn, AcceptPath(c) PROVE Serial'
  <2>1. InAccept(c) /\ \E x \in AccState : acc' = [acc EXCEPT ![c] = x]
       BY <1>3 DEF AcceptPath, TryAdmit, RejectFull, Enter, Refuse, NewSession, AddSession, Spawn
  <2>. QED
       BY <2>1
<1>4. Shared => acc' = acc
  <2>1. \A c \in Conn : \/ EndSession(c) \/ ContextClosesSession(c) \/ CloseSteps(c)
                        \/ HandlerReturns(c)
                        => acc' = acc
       BY DEF EndSession, ContextClosesSession, CloseSteps, CloseRemove, CloseRelease,
              CloseTransport, CloseCancel, HandlerReturns
  <2>2. \A s \in Stopper : StopSteps(s) => acc' = acc
       BY StoppingKeeps DEF Stops, StopFrame
  <2>. QED
       BY <2>1, <2>2, ServingKeeps DEF Shared, Serving, ServeFrame
<1>5. ServeEnter("register") \/ ServeRegister \/ AcceptFails \/ RunUnblock => acc' = acc
     BY DEF ServeEnter, ServeRegister, AcceptFails, RunUnblock
<1>6. \A c \in Conn : HandlerLeaves(c) => acc' = acc
     BY DEF HandlerLeaves
<1>7. \A s \in Stopper : StopCloseListener(s) => acc' = acc
     BY DEF StopCloseListener
<1>. QED
     BY <1>1, <1>2, <1>3, <1>4, <1>5, <1>6, <1>7 DEF Next

\* The TCP server implements Admission: besides the limit, a connection is turned
\* away only while MaxConnections others are in, because Serve accepts one
\* connection at a time and none of them is half way through a rejection.
THEOREM AdmissionImplemented == Spec => ImplementsAdmission
<1>1. Init => Serial
     BY DEF Init, Serial, InAccept
<1>2. Serial /\ IInv /\ [Next]_vars => Serial'
     BY SerialStep DEF IInv
<1>3. Spec => []Serial
     BY <1>1, <1>2, Inductive, TcpIsAny, PTL DEF Spec
<1>4. IInv /\ Serial /\ AdmissionLimit /\ [Next]_vars => [Slots!Next]_<<Admitted, Away>>
  <2>. SUFFICES ASSUME IInv, Serial, AdmissionLimit, [Next]_vars
                PROVE  [Slots!Next]_<<Admitted, Away>>
       OBVIOUS
  <2>1. \A c \in Conn : acc[c] = "admit" => Away = {}
       BY DEF Serial, InAccept, Away
  <2>2. [AnyStep]_vars
       BY TcpStep DEF AnyStep
  <2>. QED
       BY <2>1, <2>2, AdmissionStep
<1>. QED
     BY <1>3, <1>4, AdmissionInit, Inductive, TcpIsAny, LimitKept, PTL
     DEF Spec, ImplementsAdmission, Slots!Spec

-------------------------------------------------------------------------------
(* What StopListener waits for                                             *)

LEMMA TcpPasses ==
    ASSUME Types, [Next]_vars, NEW s \in Stopper, Passes(s) PROVE CloseListener
<1>. USE DEF Passes, vars, stopVars, Types
<1>1. ASSUME NEW c \in Conn, Accept(c) \/ AcceptPath(c) \/ HandlerLeaves(c) PROVE FALSE
     BY <1>1 DEF Accept, AcceptPath, TryAdmit, RejectFull, Enter, Refuse, NewSession,
                 AddSession, Spawn, HandlerLeaves
<1>2. ~(ServeEnter("register") \/ ServeRegister \/ AcceptFails \/ RunUnblock)
     BY DEF ServeEnter, ServeRegister, AcceptFails, RunUnblock
<1>3. ASSUME NEW r \in Stopper, StopCloseListener(r) PROVE CloseListener
     BY <1>3 DEF StopCloseListener
<1>. QED
     BY <1>1, <1>2, <1>3, SharedDoesNotPass DEF Next

\* Whatever StopListener waits for has been told to end: Accept, by the closed
\* listener, and the sessions, by their contexts.
THEOREM StopIsHeardByAll == Spec => []StopIsHeard
<1>1. Init => Bound /\ AcceptHears
     BY DEF Init, Bound, AcceptHears, ServeRunning
<1>2. /\ IInv /\ Stopping /\ Bound /\ AcceptHears /\ [Next]_vars
      => Bound' /\ AcceptHears'
     BY TcpStep, TcpPasses, ListenerStays, HearingStep DEF AnyStep, IInv
<1>3. Spec => [](Bound /\ AcceptHears)
     BY <1>1, <1>2, Inductive, StoppingKept, TcpIsAny, PTL DEF Spec
<1>4. SessionsHear /\ AcceptHears => StopIsHeard
     BY DEF StopIsHeard
<1>. QED
     BY <1>3, <1>4, ServerTellsSessions, TcpIsAny, PTL
==============================================================================
