------------------------------ MODULE ServerProofs ------------------------------
(***************************************************************************)
(* What holds of every server, whatever its transport.  A transport takes  *)
(* the steps of Server in an order of its own; here they come in any order *)
(* their guards allow, and the few a transport words in its own way (how   *)
(* Accept fails, what StopListener closes) are given by what they may      *)
(* change.  The invariants are proved for these servers, and the proofs    *)
(* about a transport begin by showing that it is one of them.              *)
(***************************************************************************)
EXTENDS Server, FiniteSetTheorems, TLAPS

-------------------------------------------------------------------------------
(* Serve, and the contexts                                                 *)

\* Closing the listener, or leaving that to something else.
MayClose == ln' \in {ln, "closed"}

AcceptEnds ==
    /\ serve = "accept" /\ serve' \in {"unblock", "unwatch"}
    /\ MayClose
    /\ UNCHANGED <<serverVars, vctx, watch, unblock, sessionVars, stopVars>>

UnblockRuns ==
    /\ unblock = "fired" /\ unblock' = "done"
    /\ MayClose
    /\ UNCHANGED <<serverVars, serve, vctx, watch, sessionVars, stopVars>>

Serving ==
    \/ Listen \/ ServeRefused \/ ServeRegister \/ AcceptEnds \/ ServeUnblock
    \/ ServeUnwatch \/ ServeCancel \/ ServeLeave \/ RunWatch \/ UnblockRuns
    \/ ParentEnds \/ CallerCancels
    \/ \E next \in {"register", "accept"} : ServeEnter(next)

-------------------------------------------------------------------------------
(* One connection                                                          *)

Arrive(c) ==
    /\ serve = "accept" /\ acc[c] = "absent"
    /\ acc' = [acc EXCEPT ![c] = "admit"]
    /\ tconn' \in {tconn, [tconn EXCEPT ![c] = "open"]}
    /\ UNCHANGED <<serverVars, serveVars, ctx, once, cause, handler, stopVars>>

\* QUIC's Serve returns when it has refused a connection.
Refuses(c) ==
    /\ acc[c] = "enter" /\ stopped
    /\ active' = active - 1
    /\ acc' = [acc EXCEPT ![c] = "rejected"]
    /\ CloseConn(c)
    /\ \/ serve' = serve
       \/ serve = "accept" /\ serve' = "unwatch"
    /\ UNCHANGED <<stopped, wg, byAddr, sctx, vctx, watch, unblock, ln, ctx, once, cause,
                   handler, stopVars>>

Admitting(c) ==
    \/ Arrive(c) \/ TryAdmit(c) \/ RejectFull(c) \/ Refuses(c)
    \/ \E next \in {"create", "handshake"} : Enter(c, next)
    \/ HandshakeDone(c) \/ HandshakeFails(c) \/ FailedLeaves(c)
    \/ NewSession(c) \/ AddSession(c) \/ Spawn(c)

\* Whoever has found the session with GetSession, or serves it, closes it.
ClosedBy(c) ==
    /\ acc[c] \in {"spawn", "served"}
    /\ CloseWith(c, "ErrSessionClosed")
    /\ UNCHANGED <<serverVars, serveVars, acc, tconn, ctx, handler, stopVars>>

\* QUIC's watch may close it even before add.
ClosedEarly(c) ==
    /\ Created(c)
    /\ CloseWith(c, "ErrSessionClosed")
    /\ UNCHANGED <<serverVars, serveVars, acc, tconn, ctx, handler, stopVars>>

Ending(c) ==
    \/ ContextClosesSession(c) \/ CloseSteps(c)
    \/ HandlerReturns(c) \/ HandlerLeaves(c)

-------------------------------------------------------------------------------
(* StopListener                                                            *)

StopPasses(s) ==
    /\ stop[s] = "listener"
    /\ stop' = [stop EXCEPT ![s] = "sessions"]
    /\ MayClose
    /\ UNCHANGED <<serverVars, serve, vctx, watch, unblock, sessionVars, snapshot, closing>>

Stops(s) == StopSteps(s) \/ StopPasses(s)

-------------------------------------------------------------------------------
\* Sessions are closed by their users once they are registered, ...
Step ==
    \/ Serving
    \/ \E c \in Conn : Admitting(c) \/ ClosedBy(c) \/ Ending(c)
    \/ \E s \in Stopper : Stops(s)

OrderlyServer == Init /\ [][Step]_vars

\* ... or as soon as there is one.
AnyStep == Step \/ \E c \in Conn : ClosedEarly(c)

AnyServer == Init /\ [][AnyStep]_vars

LEMMA OrderlyIsAny == OrderlyServer => AnyServer
<1>1. [Step]_vars => [AnyStep]_vars
     BY DEF AnyStep
<1>. QED
     BY <1>1, PTL DEF OrderlyServer, AnyServer

\* A session a user closes is closed by somebody.
LEMMA ClosedByIsEarly == \A c : ClosedBy(c) => ClosedEarly(c)
BY DEF ClosedBy, ClosedEarly, Created

\* The cases of a step.
LEMMA AnyStepSplit ==
    AnyStep => \/ Serving
               \/ \E c \in Conn : Admitting(c) \/ ClosedEarly(c) \/ Ending(c)
               \/ \E s \in Stopper : Stops(s)
BY ClosedByIsEarly DEF AnyStep, Step

-------------------------------------------------------------------------------
(* Types                                                                   *)

\* TypeOK but for the signs of the two counters, which need the accounting.
Types ==
    /\ stopped \in BOOLEAN
    /\ active \in Int
    /\ wg \in Int
    /\ byAddr \in [Addr -> Conn \cup {None}]
    /\ sctx \in Context
    /\ serve \in {"init", "enter", "register", "accept", "unblock", "unwatch", "cancel", "leave",
              "returned"}
    /\ vctx \in Context
    /\ watch \in {"off", "armed", "fired", "done"}
    /\ unblock \in {"off", "armed", "fired", "done"}
    /\ ln \in {"unbound", "open", "closed"}
    /\ acc \in [Conn -> AccState]
    /\ tconn \in [Conn -> {"none", "open", "closed"}]
    /\ ctx \in [Conn -> Context]
    /\ once \in [Conn -> {"open", "done"} \cup Closing]
    /\ cause \in [Conn -> Context]
    /\ handler \in [Conn -> {"none", "running", "closing", "done"}]
    /\ stop \in [Stopper -> {"idle", "cancel", "listener", "sessions", "wait", "returned"}]
    /\ snapshot \in [Stopper -> SUBSET Conn]
    /\ closing \in [Stopper -> Conn \cup {None}]

LEMMA TypesInit == Init => Types
<1>. SUFFICES ASSUME Init PROVE Types
     OBVIOUS
<1>1. /\ byAddr \in [Addr -> Conn \cup {None}]
      /\ snapshot \in [Stopper -> SUBSET Conn]
      /\ closing \in [Stopper -> Conn \cup {None}]
     BY DEF Init
<1>2. /\ acc \in [Conn -> AccState]
      /\ once \in [Conn -> {"open", "done"} \cup Closing]
      /\ ctx \in [Conn -> Context] /\ cause \in [Conn -> Context]
     BY DEF Init, AccState, Closing, Context
<1>3. /\ handler \in [Conn -> {"none", "running", "closing", "done"}]
      /\ tconn \in [Conn -> {"none", "open", "closed"}]
     BY DEF Init
<1>4. stop \in [Stopper -> {"idle", "cancel", "listener", "sessions", "wait", "returned"}]
     BY DEF Init
<1>5. stopped \in BOOLEAN
     BY Zenon DEF Init
<1>6. active \in Int /\ wg \in Int
     BY DEF Init
<1>7. /\ sctx \in Context /\ vctx \in Context
      /\ serve \in {"init", "enter", "register", "accept", "unblock", "unwatch", "cancel", "leave",
              "returned"}
      /\ watch \in {"off", "armed", "fired", "done"}
      /\ unblock \in {"off", "armed", "fired", "done"}
      /\ ln \in {"unbound", "open", "closed"}
     BY DEF Init, Context
<1>. QED
     BY <1>1, <1>2, <1>3, <1>4, <1>5, <1>6, <1>7 DEF Types

LEMMA TypesStep == Types /\ [AnyStep]_vars => Types'
<1>. SUFFICES ASSUME Types, [AnyStep]_vars PROVE Types'
     OBVIOUS
<1>. USE AddrAssumption, ModeAssumption DEF Types, vars, serverVars, serveVars, sessionVars,
         stopVars, Context, Causes, AccState, Closing, OrElse, Fired, MayClose
<1>1. ASSUME Serving PROVE Types'
  <2>1. CASE Listen
       BY <2>1 DEF Listen
  <2>2. CASE ServeRefused
       BY <2>2 DEF ServeRefused
  <2>3. CASE ServeRegister
       BY <2>3 DEF ServeRegister
  <2>4. CASE AcceptEnds
       BY <2>4 DEF AcceptEnds
  <2>5. CASE ServeUnblock
       BY <2>5 DEF ServeUnblock
  <2>6. CASE ServeCancel
       BY <2>6 DEF ServeCancel, CancelServe
  <2>7. CASE ServeLeave
       BY <2>7 DEF ServeLeave
  <2>8. CASE RunWatch
       BY <2>8 DEF RunWatch, CancelServe
  <2>9. CASE UnblockRuns
       BY <2>9 DEF UnblockRuns
  <2>10. CASE ParentEnds
       BY <2>10 DEF ParentEnds, CancelServe, CancelServer
  <2>11. CASE CallerCancels
       BY <2>11 DEF CallerCancels, CancelServe
  <2>12. ASSUME NEW next \in {"register", "accept"}, ServeEnter(next) PROVE Types'
       BY <2>12 DEF ServeEnter
  <2>13. CASE ServeUnwatch
       BY <2>13 DEF ServeUnwatch
  <2>. QED
       BY <1>1, <2>1, <2>2, <2>3, <2>4, <2>5, <2>6, <2>7, <2>8, <2>9, <2>10, <2>11, <2>12,
          <2>13 DEF Serving
<1>2. ASSUME NEW c \in Conn, Admitting(c) PROVE Types'
  <2>1. CASE Arrive(c)
       BY <2>1 DEF Arrive
  <2>2. CASE TryAdmit(c)
       BY <2>2 DEF TryAdmit
  <2>3. CASE RejectFull(c)
       BY <2>3 DEF RejectFull, CloseConn
  <2>4. CASE Refuses(c)
       BY <2>4 DEF Refuses, CloseConn
  <2>5. ASSUME NEW next \in {"create", "handshake"}, Enter(c, next) PROVE Types'
       BY <2>5 DEF Enter
  <2>6. CASE HandshakeDone(c)
       BY <2>6 DEF HandshakeDone
  <2>7. CASE HandshakeFails(c)
       BY <2>7 DEF HandshakeFails, CloseConn
  <2>8. CASE FailedLeaves(c)
       BY <2>8 DEF FailedLeaves
  <2>9. CASE NewSession(c)
       BY <2>9 DEF NewSession
  <2>10. CASE AddSession(c)
       BY <2>10 DEF AddSession
  <2>11. CASE Spawn(c)
       BY <2>11 DEF Spawn
  <2>. QED
       BY <1>2, <2>1, <2>2, <2>3, <2>4, <2>5, <2>6, <2>7, <2>8, <2>9, <2>10, <2>11
       DEF Admitting
<1>3. ASSUME NEW c \in Conn, ClosedEarly(c) PROVE Types'
     BY <1>3 DEF ClosedEarly, CloseWith
<1>4. ASSUME NEW c \in Conn, Ending(c) PROVE Types'
  <2>1. CASE ContextClosesSession(c)
       BY <2>1 DEF ContextClosesSession, CloseWith
  <2>2. CASE CloseRemove(c)
       BY <2>2 DEF CloseRemove
  <2>3. CASE CloseRelease(c)
       BY <2>3 DEF CloseRelease
  <2>4. CASE CloseTransport(c)
       BY <2>4 DEF CloseTransport
  <2>5. CASE CloseCancel(c)
       BY <2>5 DEF CloseCancel
  <2>6. CASE HandlerReturns(c)
       BY <2>6 DEF HandlerReturns, CloseWith
  <2>7. CASE HandlerLeaves(c)
       BY <2>7 DEF HandlerLeaves
  <2>. QED
       BY <1>4, <2>1, <2>2, <2>3, <2>4, <2>5, <2>6, <2>7 DEF Ending, CloseSteps
<1>5. ASSUME NEW s \in Stopper, Stops(s) PROVE Types'
  <2>1. CASE StopBegin(s)
       BY <2>1 DEF StopBegin
  <2>2. CASE StopCancel(s)
       BY <2>2 DEF StopCancel, CancelServe, CancelServer
  <2>3. CASE StopPasses(s)
       BY <2>3 DEF StopPasses
  <2>4. CASE StopCloseSession(s)
       BY <2>4 DEF StopCloseSession, CloseWith
  <2>5. CASE StopSessionClosed(s)
       BY <2>5 DEF StopSessionClosed
  <2>6. CASE StopWait(s)
       BY <2>6 DEF StopWait
  <2>7. CASE StopReturns(s)
       BY <2>7 DEF StopReturns
  <2>. QED
       BY <1>5, <2>1, <2>2, <2>3, <2>4, <2>5, <2>6, <2>7 DEF Stops, StopSteps
<1>6. CASE UNCHANGED vars
     BY <1>6
<1>. QED
     BY <1>1, <1>2, <1>3, <1>4, <1>5, <1>6, AnyStepSplit

-------------------------------------------------------------------------------
(* What the groups leave alone.  Serve and the contexts matter to the      *)
(* connections only in that contexts end.                                  *)

ServeFrame ==
    /\ UNCHANGED <<stopped, active, byAddr, acc, tconn, once, cause, handler, stopVars>>
    /\ \A c \in Conn : ctx[c] # "live" => ctx'[c] = ctx[c]
    /\ \A c \in Conn : ctx'[c] # ctx[c] => vctx' # "live"
    /\ vctx' = "live" => vctx = "live" \/ serve = "enter"
    /\ serve' \in {"init", "enter"} => serve \in {"init", "enter"}
    /\ serve' \in {"init", "enter", "register"} => serve \in {"init", "enter", "register"}
    /\ \/ wg' = wg /\ (ServeRunning' <=> ServeRunning)
       \/ wg' = wg + 1 /\ ~stopped /\ ~ServeRunning /\ ServeRunning'
       \/ wg' = wg - 1 /\ ServeRunning /\ ~ServeRunning'

LEMMA ServingKeeps == Types /\ Serving => ServeFrame
<1>. SUFFICES ASSUME Types, Serving PROVE ServeFrame
     OBVIOUS
<1>. USE ModeAssumption DEF ServeFrame, ServeRunning, Types, serverVars, serveVars,
         sessionVars, stopVars, Context, Causes, OrElse
<1>1. CASE Listen
     BY <1>1 DEF Listen
<1>2. CASE ServeRefused
     BY <1>2 DEF ServeRefused
<1>3. CASE ServeRegister
     BY <1>3 DEF ServeRegister
<1>4. CASE AcceptEnds
     BY <1>4 DEF AcceptEnds
<1>5. CASE ServeUnblock
     BY <1>5 DEF ServeUnblock
<1>6. CASE ServeCancel
     BY <1>6 DEF ServeCancel, CancelServe
<1>7. CASE ServeLeave
     BY <1>7 DEF ServeLeave
<1>8. CASE RunWatch
     BY <1>8 DEF RunWatch, CancelServe
<1>9. CASE UnblockRuns
     BY <1>9 DEF UnblockRuns
<1>10. CASE ParentEnds
     BY <1>10 DEF ParentEnds, CancelServe, CancelServer
<1>11. CASE CallerCancels
     BY <1>11 DEF CallerCancels, CancelServe
<1>12. ASSUME NEW next \in {"register", "accept"}, ServeEnter(next)
       PROVE  ServeFrame
     BY <1>12 DEF ServeEnter
<1>13. CASE ServeUnwatch
     BY <1>13 DEF ServeUnwatch
<1>. QED
     BY <1>1, <1>2, <1>3, <1>4, <1>5, <1>6, <1>7, <1>8, <1>9, <1>10, <1>11, <1>12, <1>13
     DEF Serving

StopFrame(s) ==
    /\ UNCHANGED <<active, wg, byAddr, serve, acc, tconn, handler>>
    /\ \A c \in Conn : ctx[c] # "live" => ctx'[c] = ctx[c]
    /\ \A c \in Conn : ctx'[c] # ctx[c] => vctx' # "live"
    /\ vctx' = "live" => vctx = "live"
    /\ stopped => stopped'
    /\ stop'[s] # "idle" => stop[s] # "idle" \/ stopped'
    /\ \A r \in Stopper \ {s} : stop'[r] = stop[r]
    /\ stop'[s] = "returned" => stop[s] = "returned" \/ wg = 0
    /\ \/ UNCHANGED <<once, cause>>
       \/ /\ ctx' = ctx
          /\ \E c \in snapshot[s] : CloseWith(c, "ErrServerStopped")
    /\ \A r \in Stopper : snapshot'[r] \subseteq snapshot[r] \cup {c \in Conn : Registered(c)}

LEMMA StoppingKeeps == Types => \A s \in Stopper : Stops(s) => StopFrame(s)
<1>. SUFFICES ASSUME Types, NEW s \in Stopper, Stops(s) PROVE StopFrame(s)
     OBVIOUS
<1>. USE DEF StopFrame, Types, serverVars, serveVars, sessionVars, stopVars
<1>1. CASE StopBegin(s)
     BY <1>1 DEF StopBegin
<1>2. CASE StopCancel(s)
     BY <1>2, ModeAssumption DEF StopCancel, CancelServe, CancelServer, OrElse, Context, Causes
<1>3. CASE StopPasses(s)
     BY <1>3 DEF StopPasses
<1>4. CASE StopCloseSession(s)
     BY <1>4 DEF StopCloseSession
<1>5. CASE StopSessionClosed(s)
     BY <1>5 DEF StopSessionClosed
<1>6. CASE StopWait(s)
     BY <1>6 DEF StopWait
<1>7. CASE StopReturns(s)
     BY <1>7 DEF StopReturns
<1>. QED
     BY <1>1, <1>2, <1>3, <1>4, <1>5, <1>6, <1>7 DEF Stops, StopSteps

-------------------------------------------------------------------------------
(* How far the accept path, closeWith and the handler of one session can   *)
(* have got relative to each other.                                        *)

Life ==
    /\ \A c \in Conn : handler[c] # "none" <=> acc[c] = "served"
    /\ \A c \in Conn : once[c] # "open" => Created(c)
    /\ \A a \in Addr : byAddr[a] # None =>
          acc[byAddr[a]] \in {"spawn", "served"} /\ AddrOf[byAddr[a]] = a
    /\ \A s \in Stopper : \A c \in snapshot[s] : acc[c] \in {"spawn", "served"}

LEMMA LifeInit == Init => Life
BY DEF Init, Life

LEMMA LifeStep == Types /\ Life /\ [AnyStep]_vars => Life'
<1>. SUFFICES ASSUME Types, Life, [AnyStep]_vars PROVE Life'
     OBVIOUS
<1>. USE ConnAssumption, AddrAssumption DEF Types, Life, Created, Registered, vars, serverVars,
         serveVars, sessionVars, stopVars, AccState, Closing
<1>1. ASSUME Serving PROVE Life'
     BY <1>1, ServingKeeps DEF ServeFrame
<1>2. ASSUME NEW c \in Conn, Admitting(c) PROVE Life'
  <2>1. CASE Arrive(c)
       BY <2>1 DEF Arrive
  <2>2. CASE TryAdmit(c)
       BY <2>2 DEF TryAdmit
  <2>3. CASE RejectFull(c)
       BY <2>3 DEF RejectFull, CloseConn
  <2>4. CASE Refuses(c)
       BY <2>4 DEF Refuses, CloseConn
  <2>5. ASSUME NEW next \in {"create", "handshake"}, Enter(c, next) PROVE Life'
       BY <2>5 DEF Enter
  <2>6. CASE HandshakeDone(c)
       BY <2>6 DEF HandshakeDone
  <2>7. CASE HandshakeFails(c)
       BY <2>7 DEF HandshakeFails, CloseConn
  <2>8. CASE FailedLeaves(c)
       BY <2>8 DEF FailedLeaves
  <2>9. CASE NewSession(c)
       BY <2>9 DEF NewSession
  <2>10. CASE AddSession(c)
       BY <2>10 DEF AddSession
  <2>11. CASE Spawn(c)
       BY <2>11 DEF Spawn
  <2>. QED
       BY <1>2, <2>1, <2>2, <2>3, <2>4, <2>5, <2>6, <2>7, <2>8, <2>9, <2>10, <2>11
       DEF Admitting
<1>3. ASSUME NEW c \in Conn, ClosedEarly(c) PROVE Life'
     BY <1>3 DEF ClosedEarly, CloseWith
<1>4. ASSUME NEW c \in Conn, Ending(c) PROVE Life'
  <2>1. CASE ContextClosesSession(c)
       BY <2>1 DEF ContextClosesSession, CloseWith
  <2>2. CASE CloseRemove(c)
       BY <2>2 DEF CloseRemove
  <2>3. CASE CloseRelease(c)
       BY <2>3 DEF CloseRelease
  <2>4. CASE CloseTransport(c)
       BY <2>4 DEF CloseTransport
  <2>5. CASE CloseCancel(c)
       BY <2>5 DEF CloseCancel
  <2>6. CASE HandlerReturns(c)
       BY <2>6 DEF HandlerReturns, CloseWith
  <2>7. CASE HandlerLeaves(c)
       BY <2>7 DEF HandlerLeaves
  <2>. QED
       BY <1>4, <2>1, <2>2, <2>3, <2>4, <2>5, <2>6, <2>7 DEF Ending, CloseSteps
<1>5. ASSUME NEW s \in Stopper, Stops(s) PROVE Life'
     BY <1>5, StoppingKeeps DEF StopFrame, CloseWith
<1>6. CASE UNCHANGED vars
     BY <1>6
<1>. QED
     BY <1>1, <1>2, <1>3, <1>4, <1>5, <1>6, AnyStepSplit

\* What is true of a session by the time its closeWith has got so far.
Closed ==
    /\ \A c \in Conn : handler[c] = "done" => once[c] = "done"
    /\ \A c \in Conn : once[c] \in Closing => cause[c] # "live"
    /\ \A c \in Conn : once[c] \in {"cancel", "done"} => tconn[c] = "closed"
    /\ \A c \in Conn : once[c] = "done" => ctx[c] # "live"

LEMMA ClosedInit == Init => Closed
BY DEF Init, Closed, Closing

LEMMA ClosedStep == Types /\ Life /\ Closed /\ [AnyStep]_vars => Closed'
<1>. SUFFICES ASSUME Types, Life, Closed, [AnyStep]_vars PROVE Closed'
     OBVIOUS
<1>. USE DEF Types, Life, Closed, Created, vars, serverVars,
         serveVars, sessionVars, stopVars, AccState, Closing, OrElse, Context, Causes
<1>1. ASSUME Serving PROVE Closed'
     BY <1>1, ServingKeeps DEF ServeFrame
<1>2. ASSUME NEW c \in Conn, Admitting(c) PROVE Closed'
  <2>1. CASE Arrive(c)
       BY <2>1 DEF Arrive
  <2>2. CASE TryAdmit(c)
       BY <2>2 DEF TryAdmit
  <2>3. CASE RejectFull(c)
       BY <2>3 DEF RejectFull, CloseConn
  <2>4. CASE Refuses(c)
       BY <2>4 DEF Refuses, CloseConn
  <2>5. ASSUME NEW next \in {"create", "handshake"}, Enter(c, next) PROVE Closed'
       BY <2>5 DEF Enter
  <2>6. CASE HandshakeDone(c)
       BY <2>6 DEF HandshakeDone
  <2>7. CASE HandshakeFails(c)
       BY <2>7 DEF HandshakeFails, CloseConn
  <2>8. CASE FailedLeaves(c)
       BY <2>8 DEF FailedLeaves
  <2>9. CASE NewSession(c)
       BY <2>9 DEF NewSession
  <2>10. CASE AddSession(c)
       BY <2>10 DEF AddSession
  <2>11. CASE Spawn(c)
       BY <2>11 DEF Spawn
  <2>. QED
       BY <1>2, <2>1, <2>2, <2>3, <2>4, <2>5, <2>6, <2>7, <2>8, <2>9, <2>10, <2>11
       DEF Admitting
<1>3. ASSUME NEW c \in Conn, ClosedEarly(c) PROVE Closed'
     BY <1>3 DEF ClosedEarly, CloseWith
<1>4. ASSUME NEW c \in Conn, Ending(c) PROVE Closed'
  <2>1. CASE ContextClosesSession(c)
       BY <2>1 DEF ContextClosesSession, CloseWith
  <2>2. CASE CloseRemove(c)
       BY <2>2 DEF CloseRemove
  <2>3. CASE CloseRelease(c)
       BY <2>3 DEF CloseRelease
  <2>4. CASE CloseTransport(c)
       BY <2>4 DEF CloseTransport
  <2>5. CASE CloseCancel(c)
       BY <2>5 DEF CloseCancel
  <2>6. CASE HandlerReturns(c)
       BY <2>6 DEF HandlerReturns, CloseWith
  <2>7. CASE HandlerLeaves(c)
       BY <2>7 DEF HandlerLeaves
  <2>. QED
       BY <1>4, <2>1, <2>2, <2>3, <2>4, <2>5, <2>6, <2>7 DEF Ending, CloseSteps
<1>5. ASSUME NEW s \in Stopper, Stops(s) PROVE Closed'
     BY <1>5, StoppingKeeps DEF StopFrame, CloseWith
<1>6. CASE UNCHANGED vars
     BY <1>6
<1>. QED
     BY <1>1, <1>2, <1>3, <1>4, <1>5, <1>6, AnyStepSplit

-------------------------------------------------------------------------------
(* How a connection and a session advance, for what a transport adds.      *)

\* Only the accept path moves a connection.
LEMMA AccChanges ==
    ASSUME Types, [AnyStep]_vars
    PROVE  acc' = acc \/ \E c \in Conn : Admitting(c)
<1>. USE DEF vars, sessionVars
<1>1. \A c \in Conn : ClosedEarly(c) => acc' = acc
     BY DEF ClosedEarly
<1>2. \A c \in Conn : Ending(c) => acc' = acc
     BY DEF Ending, CloseSteps, ContextClosesSession, CloseRemove, CloseRelease,
            CloseTransport, CloseCancel, HandlerReturns, HandlerLeaves
<1>. QED
     BY <1>1, <1>2, AnyStepSplit, ServingKeeps, StoppingKeeps DEF ServeFrame, StopFrame

AcceptEdges ==
    {<<"absent", "admit">>, <<"admit", "full">>, <<"admit", "enter">>,
     <<"full", "rejected">>, <<"enter", "rejected">>, <<"enter", "create">>,
     <<"enter", "handshake">>, <<"handshake", "create">>, <<"handshake", "failed">>,
     <<"failed", "rejected">>, <<"create", "add">>, <<"add", "spawn">>,
     <<"spawn", "served">>}

LEMMA Advances ==
    ASSUME Types, NEW c \in Conn, Admitting(c)
    PROVE  /\ <<acc[c], acc'[c]>> \in AcceptEdges
           /\ acc' = [acc EXCEPT ![c] = acc'[c]]
           /\ once' = once
<1>. USE DEF Types, AcceptEdges
<1>1. CASE Arrive(c)
     BY <1>1 DEF Arrive
<1>2. CASE TryAdmit(c)
     BY <1>2 DEF TryAdmit
<1>3. CASE RejectFull(c)
     BY <1>3 DEF RejectFull
<1>4. CASE Refuses(c)
     BY <1>4 DEF Refuses
<1>5. ASSUME NEW next \in {"create", "handshake"}, Enter(c, next)
      PROVE  /\ <<acc[c], acc'[c]>> \in AcceptEdges
             /\ acc' = [acc EXCEPT ![c] = acc'[c]]
             /\ once' = once
     BY <1>5 DEF Enter
<1>6. CASE HandshakeDone(c)
     BY <1>6 DEF HandshakeDone
<1>7. CASE HandshakeFails(c)
     BY <1>7 DEF HandshakeFails
<1>8. CASE FailedLeaves(c)
     BY <1>8 DEF FailedLeaves
<1>9. CASE NewSession(c)
     BY <1>9 DEF NewSession
<1>10. CASE AddSession(c)
     BY <1>10 DEF AddSession
<1>11. CASE Spawn(c)
     BY <1>11 DEF Spawn
<1>. QED
     BY <1>1, <1>2, <1>3, <1>4, <1>5, <1>6, <1>7, <1>8, <1>9, <1>10, <1>11 DEF Admitting

\* A session, once there, does not go away, and once started does not go back.
LEMMA SessionsStay ==
    ASSUME Types, [AnyStep]_vars, NEW c \in Conn
    PROVE  /\ Created(c) => Created(c)'
           /\ acc[c] \in {"spawn", "served"} => acc'[c] \in {"spawn", "served"}
BY AccChanges, Advances DEF Types, Created, AcceptEdges

\* The body of the sync.Once runs forward, once.
CloseEdges ==
    {<<"open", "remove">>, <<"remove", "release">>, <<"release", "close">>,
     <<"close", "cancel">>, <<"cancel", "done">>}

LEMMA CloseAdvances ==
    ASSUME Types, [AnyStep]_vars, NEW c \in Conn
    PROVE  once'[c] = once[c] \/ <<once[c], once'[c]>> \in CloseEdges
<1>. DEFINE Goal == once'[c] = once[c] \/ <<once[c], once'[c]>> \in CloseEdges
<1>. USE DEF Types, CloseEdges
<1>1. ASSUME NEW d \in Conn, NEW why, CloseWith(d, why) PROVE Goal
     BY <1>1 DEF CloseWith
<1>2. ASSUME NEW d \in Conn, Ending(d) PROVE Goal
     BY <1>1, <1>2 DEF Ending, CloseSteps, ContextClosesSession, CloseRemove, CloseRelease,
            CloseTransport, CloseCancel, HandlerReturns, HandlerLeaves
<1>3. ASSUME NEW s \in Stopper, Stops(s) PROVE Goal
     BY <1>1, <1>3, StoppingKeeps DEF StopFrame
<1>. QED
     BY <1>1, <1>2, <1>3, AnyStepSplit, ServingKeeps, Advances
     DEF ServeFrame, ClosedEarly, vars, sessionVars

-------------------------------------------------------------------------------
(* The counters                                                            *)

Slotted == {c \in Conn : HoldsSlot(c)}
Working == {c \in Conn : Counted(c)}

\* How the size of a subset of Conn follows the set.
LEMMA Counting ==
    ASSUME NEW S \in SUBSET Conn, NEW c \in Conn
    PROVE  /\ Cardinality(S) \in Nat
           /\ c \notin S => Cardinality(S \cup {c}) = Cardinality(S) + 1
           /\ c \in S => Cardinality(S \ {c}) = Cardinality(S) - 1
<1>1. IsFiniteSet(S)
     BY FS_Subset, ConnAssumption
<1>. QED
     BY <1>1, FS_CardinalityType, FS_AddElement, FS_RemoveElement

LEMMA Sizes ==
    /\ \A S \in SUBSET Conn : IsFiniteSet(S) /\ Cardinality(S) \in Nat
    /\ \A S \in SUBSET Conn : \A T \in SUBSET S : Cardinality(T) <= Cardinality(S)
<1>1. ASSUME NEW S \in SUBSET Conn PROVE IsFiniteSet(S) /\ Cardinality(S) \in Nat
     BY FS_Subset, FS_CardinalityType, ConnAssumption
<1>2. ASSUME NEW S \in SUBSET Conn, NEW T \in SUBSET S PROVE Cardinality(T) <= Cardinality(S)
     BY <1>1, FS_Subset
<1>. QED
     BY <1>1, <1>2

\* A step admits or turns away, or one connection leaves, or nobody does.
Moves ==
    \/ active' = active /\ Admitted' = Admitted /\ Away' = Away
    \/ \E c \in Conn : TryAdmit(c)
    \/ \E c \in Admitted \cup Away :
          active' = active - 1 /\ Admitted' = Admitted \ {c} /\ Away' = Away \ {c}

LEMMA StepMoves == Types /\ Life /\ [AnyStep]_vars => Moves
<1>. SUFFICES ASSUME Types, Life, [AnyStep]_vars PROVE Moves
     OBVIOUS
<1>. USE DEF vars, serverVars, serveVars, sessionVars, stopVars
<1>a. ASSUME active' = active,
             \A d \in Conn : HoldsSlot(d)' <=> HoldsSlot(d),
             \A d \in Conn : acc'[d] = "full" <=> acc[d] = "full"
      PROVE  Moves
     BY <1>a DEF Moves, Admitted, Away
<1>b. ASSUME NEW c \in Conn, active' = active - 1, HoldsSlot(c), ~HoldsSlot(c)', acc'[c] # "full",
             \A d \in Conn \ {c} : HoldsSlot(d)' <=> HoldsSlot(d),
             \A d \in Conn \ {c} : acc'[d] = "full" <=> acc[d] = "full"
      PROVE  Moves
  <2>1. c \in Admitted \cup Away
       BY <1>b DEF Admitted, Away
  <2>2. Admitted' = Admitted \ {c} /\ Away' = Away \ {c}
       BY <1>b DEF Admitted, Away
  <2>. QED
       BY <1>b, <2>1, <2>2 DEF Moves
<1>. USE DEF Types, Life, HoldsSlot, Created, AccState, Closing
<1>1. ASSUME Serving PROVE Moves
     BY <1>1, <1>a, ServingKeeps DEF ServeFrame
<1>2. ASSUME NEW c \in Conn, Admitting(c) PROVE Moves
  <2>1. CASE Arrive(c)
       BY <2>1, <1>a DEF Arrive
  <2>2. CASE TryAdmit(c)
       BY <2>2 DEF Moves
  <2>3. CASE RejectFull(c)
       BY <2>3, <1>b DEF RejectFull, CloseConn
  <2>4. CASE Refuses(c)
       BY <2>4, <1>b DEF Refuses, CloseConn
  <2>5. ASSUME NEW next \in {"create", "handshake"}, Enter(c, next) PROVE Moves
       BY <2>5, <1>a DEF Enter
  <2>6. CASE HandshakeDone(c)
       BY <2>6, <1>a DEF HandshakeDone
  <2>7. CASE HandshakeFails(c)
       BY <2>7, <1>b DEF HandshakeFails, CloseConn
  <2>8. CASE FailedLeaves(c)
       BY <2>8, <1>a DEF FailedLeaves
  <2>9. CASE NewSession(c)
       BY <2>9, <1>a DEF NewSession
  <2>10. CASE AddSession(c)
       BY <2>10, <1>a DEF AddSession
  <2>11. CASE Spawn(c)
       BY <2>11, <1>a DEF Spawn
  <2>. QED
       BY <1>2, <2>1, <2>2, <2>3, <2>4, <2>5, <2>6, <2>7, <2>8, <2>9, <2>10, <2>11
       DEF Admitting
<1>3. ASSUME NEW c \in Conn, ClosedEarly(c) PROVE Moves
     BY <1>3, <1>a DEF ClosedEarly, CloseWith
<1>4. ASSUME NEW c \in Conn, Ending(c) PROVE Moves
  <2>1. CASE ContextClosesSession(c)
       BY <2>1, <1>a DEF ContextClosesSession, CloseWith
  <2>2. CASE CloseRemove(c)
       BY <2>2, <1>a DEF CloseRemove
  <2>3. CASE CloseRelease(c)
       BY <2>3, <1>b DEF CloseRelease
  <2>4. CASE CloseTransport(c)
       BY <2>4, <1>a DEF CloseTransport
  <2>5. CASE CloseCancel(c)
       BY <2>5, <1>a DEF CloseCancel
  <2>6. CASE HandlerReturns(c)
       BY <2>6, <1>a DEF HandlerReturns, CloseWith
  <2>7. CASE HandlerLeaves(c)
       BY <2>7, <1>a DEF HandlerLeaves
  <2>. QED
       BY <1>4, <2>1, <2>2, <2>3, <2>4, <2>5, <2>6, <2>7 DEF Ending, CloseSteps
<1>5. ASSUME NEW s \in Stopper, Stops(s) PROVE Moves
     BY <1>5, <1>a, StoppingKeeps DEF StopFrame, CloseWith
<1>6. CASE UNCHANGED vars
     BY <1>6, <1>a
<1>. QED
     BY <1>1, <1>2, <1>3, <1>4, <1>5, <1>6, AnyStepSplit

\* What tryAdmit does, by what its counter has reached.
LEMMA Admits ==
    ASSUME Types, NEW c \in Conn, TryAdmit(c)
    PROVE  /\ active' = active + 1 /\ c \notin Admitted /\ c \notin Away
           /\ active' <= MaxConnections =>
                 Admitted' = Admitted \cup {c} /\ Away' = Away
           /\ ~(active' <= MaxConnections) =>
                 Admitted' = Admitted /\ Away' = Away \cup {c}
BY MaxAssumption DEF TryAdmit, Admitted, Away, HoldsSlot, Created, Types, AccState

LEMMA SlotsInit == Init => SlotAccounting
<1>. SUFFICES ASSUME Init PROVE SlotAccounting
     OBVIOUS
<1>1. {c \in Conn : HoldsSlot(c)} = {}
     BY DEF Init, HoldsSlot, Created
<1>. QED
     BY <1>1, FS_EmptySet DEF Init, SlotAccounting

LEMMA SlotsStep == Types /\ Life /\ SlotAccounting /\ [AnyStep]_vars => SlotAccounting'
<1>. SUFFICES ASSUME Types, Life, SlotAccounting, [AnyStep]_vars PROVE SlotAccounting'
     OBVIOUS
<1>1. Slotted = Admitted \cup Away /\ Slotted' = Admitted' \cup Away' /\ Slotted \in SUBSET Conn
     BY DEF Slotted, Admitted, Away, HoldsSlot
<1>2. active = Cardinality(Slotted) /\ active \in Int
     BY DEF SlotAccounting, Slotted, Types
<1>3. active' = Cardinality(Slotted')
  <2>1. CASE active' = active /\ Admitted' = Admitted /\ Away' = Away
       BY <1>1, <1>2, <2>1
  <2>2. ASSUME NEW c \in Conn, TryAdmit(c) PROVE active' = Cardinality(Slotted')
    <3>1. Slotted' = Slotted \cup {c} /\ c \notin Slotted /\ active' = active + 1
         BY <1>1, <2>2, Admits
    <3>. QED
         BY <1>1, <1>2, <3>1, Counting
  <2>3. ASSUME NEW c \in Admitted \cup Away, active' = active - 1,
               Admitted' = Admitted \ {c}, Away' = Away \ {c}
        PROVE  active' = Cardinality(Slotted')
    <3>1. Slotted' = Slotted \ {c} /\ c \in Slotted /\ c \in Conn
         BY <1>1, <2>3
    <3>. QED
         BY <1>1, <1>2, <2>3, <3>1, Counting
  <2>. QED
       BY <2>1, <2>2, <2>3, StepMoves DEF Moves
<1>. QED
     BY <1>3 DEF SlotAccounting, Slotted

LEMMA WgInit == Init => WgAccounting
<1>. SUFFICES ASSUME Init PROVE WgAccounting
     OBVIOUS
<1>1. {c \in Conn : Counted(c)} = {} /\ ~ServeRunning
     BY DEF Init, Counted, ServeRunning
<1>. QED
     BY <1>1, FS_EmptySet DEF Init, WgAccounting

\* A step starts or ends a session's goroutine, or Serve, or no goroutine at all;
\* it starts one only if enter has not found the server stopped.
Goroutines ==
    \/ wg' = wg /\ Working' = Working /\ (ServeRunning' <=> ServeRunning)
    \/ /\ wg' = wg + 1 /\ ~stopped
       /\ \/ Working' = Working /\ ~ServeRunning /\ ServeRunning'
          \/ /\ ServeRunning' <=> ServeRunning
             /\ \E c \in Conn \ Working : Working' = Working \cup {c}
    \/ /\ wg' = wg - 1
       /\ \/ Working' = Working /\ ServeRunning /\ ~ServeRunning'
          \/ /\ ServeRunning' <=> ServeRunning
             /\ \E c \in Working : Working' = Working \ {c}

LEMMA StepGoroutines == Types /\ Life /\ [AnyStep]_vars => Goroutines
<1>. SUFFICES ASSUME Types, Life, [AnyStep]_vars PROVE Goroutines
     OBVIOUS
<1>. USE DEF vars, serverVars, serveVars, sessionVars, stopVars
<1>a. ASSUME wg' = wg, ServeRunning' <=> ServeRunning,
             \A d \in Conn : Counted(d)' <=> Counted(d)
      PROVE  Goroutines
     BY <1>a DEF Goroutines, Working
<1>b. ASSUME NEW c \in Conn, wg' = wg + 1, ~stopped, ServeRunning' <=> ServeRunning,
             ~Counted(c), Counted(c)', \A d \in Conn \ {c} : Counted(d)' <=> Counted(d)
      PROVE  Goroutines
  <2>1. c \in Conn \ Working /\ Working' = Working \cup {c}
       BY <1>b DEF Working
  <2>. QED
       BY <1>b, <2>1 DEF Goroutines
<1>c. ASSUME NEW c \in Conn, wg' = wg - 1, ServeRunning' <=> ServeRunning,
             Counted(c), ~Counted(c)', \A d \in Conn \ {c} : Counted(d)' <=> Counted(d)
      PROVE  Goroutines
  <2>1. c \in Working /\ Working' = Working \ {c}
       BY <1>c DEF Working
  <2>. QED
       BY <1>c, <2>1 DEF Goroutines
<1>d. ASSUME \A d \in Conn : Counted(d)' <=> Counted(d),
             \/ wg' = wg + 1 /\ ~stopped /\ ~ServeRunning /\ ServeRunning'
             \/ wg' = wg - 1 /\ ServeRunning /\ ~ServeRunning'
      PROVE  Goroutines
     BY <1>d DEF Goroutines, Working
<1>. USE DEF Types, Life, Counted, AccState, ServeRunning
<1>1. ASSUME Serving PROVE Goroutines
     BY <1>1, <1>a, <1>d, ServingKeeps DEF ServeFrame
<1>2. ASSUME NEW c \in Conn, Admitting(c) PROVE Goroutines
  <2>1. CASE Arrive(c)
       BY <2>1, <1>a DEF Arrive
  <2>2. CASE TryAdmit(c)
       BY <2>2, <1>a DEF TryAdmit
  <2>3. CASE RejectFull(c)
       BY <2>3, <1>a DEF RejectFull, CloseConn
  <2>4. CASE Refuses(c)
       BY <2>4, <1>a DEF Refuses, CloseConn
  <2>5. ASSUME NEW next \in {"create", "handshake"}, Enter(c, next) PROVE Goroutines
       BY <2>5, <1>b DEF Enter
  <2>6. CASE HandshakeDone(c)
       BY <2>6, <1>a DEF HandshakeDone
  <2>7. CASE HandshakeFails(c)
       BY <2>7, <1>a DEF HandshakeFails, CloseConn
  <2>8. CASE FailedLeaves(c)
       BY <2>8, <1>c DEF FailedLeaves
  <2>9. CASE NewSession(c)
       BY <2>9, <1>a DEF NewSession
  <2>10. CASE AddSession(c)
       BY <2>10, <1>a DEF AddSession
  <2>11. CASE Spawn(c)
       BY <2>11, <1>a DEF Spawn
  <2>. QED
       BY <1>2, <2>1, <2>2, <2>3, <2>4, <2>5, <2>6, <2>7, <2>8, <2>9, <2>10, <2>11
       DEF Admitting
<1>3. ASSUME NEW c \in Conn, ClosedEarly(c) PROVE Goroutines
     BY <1>3, <1>a DEF ClosedEarly, CloseWith
<1>4. ASSUME NEW c \in Conn, Ending(c) PROVE Goroutines
  <2>1. CASE ContextClosesSession(c)
       BY <2>1, <1>a DEF ContextClosesSession, CloseWith
  <2>2. CASE CloseRemove(c)
       BY <2>2, <1>a DEF CloseRemove
  <2>3. CASE CloseRelease(c)
       BY <2>3, <1>a DEF CloseRelease
  <2>4. CASE CloseTransport(c)
       BY <2>4, <1>a DEF CloseTransport
  <2>5. CASE CloseCancel(c)
       BY <2>5, <1>a DEF CloseCancel
  <2>6. CASE HandlerReturns(c)
       BY <2>6, <1>a DEF HandlerReturns, CloseWith
  <2>7. CASE HandlerLeaves(c)
       BY <2>7, <1>c DEF HandlerLeaves
  <2>. QED
       BY <1>4, <2>1, <2>2, <2>3, <2>4, <2>5, <2>6, <2>7 DEF Ending, CloseSteps
<1>5. ASSUME NEW s \in Stopper, Stops(s) PROVE Goroutines
     BY <1>5, <1>a, StoppingKeeps DEF StopFrame, CloseWith
<1>6. CASE UNCHANGED vars
     BY <1>6, <1>a
<1>. QED
     BY <1>1, <1>2, <1>3, <1>4, <1>5, <1>6, AnyStepSplit

LEMMA WgStep == Types /\ Life /\ WgAccounting /\ [AnyStep]_vars => WgAccounting'
<1>. SUFFICES ASSUME Types, Life, WgAccounting, [AnyStep]_vars PROVE WgAccounting'
     OBVIOUS
<1>1. /\ wg = Cardinality(Working) + (IF ServeRunning THEN 1 ELSE 0)
      /\ Working \in SUBSET Conn /\ wg \in Int /\ Cardinality(Working) \in Nat
     BY Sizes DEF WgAccounting, Working, Types
<1>2. wg' = Cardinality(Working') + (IF ServeRunning' THEN 1 ELSE 0)
  <2>1. CASE wg' = wg /\ Working' = Working /\ (ServeRunning' <=> ServeRunning)
       BY <1>1, <2>1
  <2>2. CASE wg' = wg + 1 /\ Working' = Working /\ ~ServeRunning /\ ServeRunning'
       BY <1>1, <2>2
  <2>3. ASSUME NEW c \in Conn \ Working, wg' = wg + 1, Working' = Working \cup {c},
               ServeRunning' <=> ServeRunning
        PROVE  wg' = Cardinality(Working') + (IF ServeRunning' THEN 1 ELSE 0)
       BY <1>1, <2>3, Counting
  <2>4. CASE wg' = wg - 1 /\ Working' = Working /\ ServeRunning /\ ~ServeRunning'
       BY <1>1, <2>4
  <2>5. ASSUME NEW c \in Working, wg' = wg - 1, Working' = Working \ {c},
               ServeRunning' <=> ServeRunning
        PROVE  wg' = Cardinality(Working') + (IF ServeRunning' THEN 1 ELSE 0)
       BY <1>1, <2>5, Counting
  <2>. QED
       BY <2>1, <2>2, <2>3, <2>4, <2>5, StepGoroutines DEF Goroutines
<1>. QED
     BY <1>2 DEF WgAccounting, Working

-------------------------------------------------------------------------------
(* Every server                                                            *)

\* The inductive invariant.
IInv == Types /\ Life /\ Closed /\ SlotAccounting /\ WgAccounting

LEMMA Inductive == AnyServer => []IInv
<1>1. Init => IInv
     BY TypesInit, LifeInit, ClosedInit, SlotsInit, WgInit DEF IInv
<1>2. IInv /\ [AnyStep]_vars => IInv'
     BY TypesStep, LifeStep, ClosedStep, SlotsStep, WgStep DEF IInv
<1>. QED
     BY <1>1, <1>2, PTL DEF AnyServer

\* Every variable keeps its type, and neither counter ever goes below zero: no
\* slot is released and no goroutine signed off twice.
THEOREM ServerTypes == AnyServer => []TypeOK
<1>1. IInv => TypeOK
  <2>. SUFFICES ASSUME IInv PROVE TypeOK
       OBVIOUS
  <2>1. Cardinality(Slotted) \in Nat /\ Cardinality(Working) \in Nat
       BY Sizes DEF Slotted, Working
  <2>2. active \in Nat
       BY <2>1 DEF IInv, SlotAccounting, Slotted
  <2>3. wg \in Nat
       BY <2>1 DEF IInv, WgAccounting, Working
  <2>. QED
       BY <2>2, <2>3 DEF IInv, Types, TypeOK
<1>. QED
     BY <1>1, Inductive, PTL

\* Both counters are exact on every path.
THEOREM ServerAccounting == AnyServer => []Accounting
<1>1. IInv => Accounting
     BY DEF IInv, Accounting
<1>. QED
     BY <1>1, Inductive, PTL

\* At most MaxConnections connections are in at a time, in whatever order they
\* go through admission: the counter is exact, and tryAdmit lets one in only if it
\* does not exceed the limit.
THEOREM ServerLimit == AnyServer => []AdmissionLimit
<1>1. Init => AdmissionLimit
  <2>. SUFFICES ASSUME Init PROVE AdmissionLimit
       OBVIOUS
  <2>1. Admitted = {}
       BY DEF Init, Admitted, HoldsSlot, Created
  <2>. QED
       BY <2>1, FS_EmptySet, MaxAssumption DEF AdmissionLimit
<1>2. AdmissionLimit /\ IInv /\ IInv' /\ [AnyStep]_vars => AdmissionLimit'
  <2>. SUFFICES ASSUME AdmissionLimit, IInv, IInv', [AnyStep]_vars PROVE AdmissionLimit'
       OBVIOUS
  <2>. USE DEF IInv
  <2>1. /\ Admitted \in SUBSET Conn /\ Admitted' \in SUBSET Slotted' /\ Slotted' \in SUBSET Conn
        /\ Cardinality(Admitted) \in Nat /\ Cardinality(Slotted') \in Nat
    <3>1. /\ Admitted \in SUBSET Conn /\ Admitted' \in SUBSET Slotted'
          /\ Slotted' \in SUBSET Conn
         BY DEF Admitted, Slotted
    <3>. QED
         BY <3>1, Sizes
  <2>2. ASSUME NEW c \in Conn, TryAdmit(c), active' <= MaxConnections PROVE AdmissionLimit'
    <3>1. Cardinality(Admitted') <= Cardinality(Slotted') /\ Cardinality(Admitted') \in Nat
         BY <2>1, Sizes
    <3>2. active' = Cardinality(Slotted')
         BY DEF SlotAccounting, Slotted
    <3>. QED
         BY <2>1, <2>2, <3>1, <3>2, MaxAssumption DEF AdmissionLimit
  <2>3. ASSUME Admitted' \in SUBSET Admitted PROVE AdmissionLimit'
    <3>1. Cardinality(Admitted') <= Cardinality(Admitted) /\ Cardinality(Admitted') \in Nat
         BY <2>1, <2>3, Sizes
    <3>. QED
         BY <2>1, <3>1, MaxAssumption DEF AdmissionLimit
  <2>4. ASSUME NEW c \in Conn, TryAdmit(c), ~(active' <= MaxConnections)
        PROVE  Admitted' \in SUBSET Admitted
       BY <2>4, Admits
  <2>. QED
       BY <2>2, <2>3, <2>4, StepMoves DEF Moves
<1>. QED
     BY <1>1, <1>2, Inductive, PTL DEF AnyServer

\* The promise of MaxConnections in full, for a server that is not turning anybody
\* away while it counts somebody else.
LEMMA AdmissionStep ==
    ASSUME IInv, AdmissionLimit, [AnyStep]_vars, \A c \in Conn : acc[c] = "admit" => Away = {}
    PROVE  [Slots!Next]_<<Admitted, Away>>
<1>. USE DEF IInv
<1>1. /\ Admitted \in SUBSET Conn /\ Slotted \in SUBSET Conn /\ Slotted = Admitted \cup Away
      /\ Cardinality(Admitted) \in Nat /\ Cardinality(Slotted) \in Nat
      /\ Cardinality(Admitted) <= Cardinality(Slotted)
  <2>1. /\ Admitted \in SUBSET Slotted /\ Slotted \in SUBSET Conn
        /\ Slotted = Admitted \cup Away
       BY DEF Admitted, Slotted, Away, HoldsSlot
  <2>. QED
       BY <2>1, Sizes
<1>2. active = Cardinality(Slotted)
     BY DEF SlotAccounting, Slotted
<1>3. ASSUME NEW c \in Conn, TryAdmit(c) PROVE Slots!LetIn(c) \/ Slots!TurnAway(c)
  <2>0. Slots!Cardinality(Admitted) = Cardinality(Admitted)
       BY DEF Slots!Cardinality, Cardinality
  <2>1. active' = active + 1 /\ c \notin Admitted \cup Away
       BY <1>3, Admits
  <2>2. CASE active' <= MaxConnections
    <3>1. Cardinality(Admitted) < MaxConnections
         BY <1>1, <1>2, <2>1, <2>2, MaxAssumption
    <3>2. Admitted' = Admitted \cup {c} /\ Away' = Away
         BY <1>3, <2>2, Admits
    <3>. QED
         BY <2>0, <2>1, <3>1, <3>2 DEF Slots!LetIn
  <2>3. CASE ~(active' <= MaxConnections)
    <3>1. Admitted = Slotted
         BY <1>1, <1>3 DEF TryAdmit
    <3>2. Cardinality(Admitted) = MaxConnections
         BY <1>1, <1>2, <2>1, <2>3, <3>1, MaxAssumption DEF AdmissionLimit
    <3>3. Admitted' = Admitted /\ Away' = Away \cup {c}
         BY <1>3, <2>3, Admits
    <3>. QED
         BY <2>0, <2>1, <3>2, <3>3 DEF Slots!TurnAway
  <2>. QED
       BY <2>2, <2>3
<1>4. ASSUME NEW c \in Admitted \cup Away, Admitted' = Admitted \ {c}, Away' = Away \ {c}
      PROVE  c \in Conn /\ Slots!Leave(c)
     BY <1>4 DEF Slots!Leave, Admitted, Away
<1>. QED
     BY <1>3, <1>4, StepMoves DEF Moves, Slots!Next

LEMMA AdmissionInit == Init => Slots!Init
BY DEF Init, Slots!Init, Admitted, Away, HoldsSlot, Created

-------------------------------------------------------------------------------
(* Stopping                                                                *)

\* enter takes nothing new on once StopListener has set stopped.
THEOREM ServerStartsNothing == AnyServer => NothingStartsAfterStop
<1>1. IInv /\ [AnyStep]_vars => [stopped => wg' <= wg]_vars
     BY StepGoroutines DEF IInv, Types, Goroutines
<1>. QED
     BY <1>1, Inductive, PTL DEF AnyServer, NothingStartsAfterStop

\* A StopListener call under way has set stopped, and after one has returned
\* there is nothing left to wait for.
Stopping ==
    /\ \A s \in Stopper : stop[s] # "idle" => stopped
    /\ (\E s \in Stopper : stop[s] = "returned") => wg = 0

\* Only StopListener touches stopped and the positions of its calls.
LEMMA OthersDoNotStop ==
    ASSUME Types, NEW c \in Conn, Admitting(c) \/ ClosedEarly(c) \/ Ending(c)
    PROVE  UNCHANGED <<stopped, stop>>
<1>. USE DEF stopVars, serverVars
<1>1. Admitting(c) => UNCHANGED <<stopped, stop>>
     BY DEF Admitting, Arrive, TryAdmit, RejectFull, Refuses, Enter, HandshakeDone,
            HandshakeFails, FailedLeaves, NewSession, AddSession, Spawn
<1>2. ClosedEarly(c) => UNCHANGED <<stopped, stop>>
     BY DEF ClosedEarly
<1>3. Ending(c) => UNCHANGED <<stopped, stop>>
     BY DEF Ending, CloseSteps, ContextClosesSession, CloseRemove, CloseRelease,
            CloseTransport, CloseCancel, HandlerReturns, HandlerLeaves
<1>. QED
     BY <1>1, <1>2, <1>3

LEMMA StoppingStep == IInv /\ IInv' /\ Stopping /\ [AnyStep]_vars => Stopping'
<1>. SUFFICES ASSUME IInv, IInv', Stopping, [AnyStep]_vars PROVE Stopping'
     OBVIOUS
<1>1. wg \in Int /\ wg' \in Nat /\ (stopped => wg' <= wg)
  <2>1. Cardinality(Working') \in Nat
       BY Sizes DEF Working
  <2>2. wg' \in Nat
       BY <2>1 DEF IInv, WgAccounting, Working
  <2>. QED
       BY <2>2, StepGoroutines DEF IInv, Types, Goroutines
<1>2. ASSUME UNCHANGED <<stopped, stop>> PROVE Stopping'
     BY <1>1, <1>2 DEF Stopping
<1>3. ASSUME NEW s \in Stopper, Stops(s) PROVE Stopping'
     BY <1>1, <1>3, StoppingKeeps DEF IInv, Stopping, StopFrame
<1>. QED
     BY <1>2, <1>3, AnyStepSplit, ServingKeeps, OthersDoNotStop
     DEF IInv, ServeFrame, stopVars, vars, serverVars

LEMMA StoppingKept == AnyServer => []Stopping
<1>1. Init => Stopping
     BY DEF Init, Stopping
<1>. QED
     BY <1>1, StoppingStep, Inductive, PTL DEF AnyServer

\* When a StopListener call has returned, and ever after, Serve and all handlers
\* are over and all sessions are closed: wg was zero then, it cannot grow any
\* more, and it counts every session that is not closed.
THEOREM ServerStops == AnyServer => []StopComplete
<1>1. IInv /\ Stopping => StopComplete
  <2>. SUFFICES ASSUME IInv, Stopping, NEW s \in Stopper, stop[s] = "returned"
                PROVE  /\ ~ServeRunning
                       /\ \A c \in Conn : Created(c) =>
                             /\ handler[c] = "done" /\ once[c] = "done"
                             /\ tconn[c] = "closed" /\ ctx[c] # "live"
       BY DEF StopComplete
  <2>1. IsFiniteSet(Working) /\ Cardinality(Working) \in Nat
       BY Sizes DEF Working
  <2>2. wg = 0
       BY DEF Stopping
  <2>3. ~ServeRunning /\ Cardinality(Working) = 0
       BY <2>1, <2>2 DEF IInv, WgAccounting, Working
  <2>4. Working = {}
       BY <2>1, <2>3, FS_EmptySet
  <2>5. \A c \in Conn : ~Counted(c)
       BY <2>4 DEF Working
  <2>6. ASSUME NEW c \in Conn, Created(c) PROVE handler[c] = "done"
       BY <2>5, <2>6 DEF IInv, Types, Life, Created, Counted
  <2>. QED
       BY <2>3, <2>6 DEF IInv, Closed
<1>. QED
     BY <1>1, StoppingKept, Inductive, PTL

-------------------------------------------------------------------------------
(* What StopListener waits for has been told to end                        *)

\* The contexts pass the end of the server's on.  Between the AfterFunc of
\* serveContext and Serve's deferred calls one has done it or is about to, for as long
\* as there are connections: the AfterFunc is there until Serve withdraws it, and then
\* Serve's own cancel(nil) is next.
Told ==
    /\ \A c \in Conn : acc[c] # "absent" =>
          \/ serve \in {"accept", "unblock", "unwatch", "cancel"}
          \/ serve \in {"leave", "returned"} /\ vctx # "live"
    /\ \A c \in Conn : Created(c) /\ vctx # "live" => ctx[c] # "live"
    /\ serve \in {"register", "accept", "unblock", "unwatch"} => watch # "off"
    /\ sctx = "live" => watch # "fired"
    /\ sctx # "live" => watch # "armed"
    /\ watch = "done" => vctx # "live"
    /\ \A s \in Stopper : stop[s] \in {"listener", "sessions", "wait", "returned"} =>
          sctx # "live"

LEMMA ToldInit == Init => Told
BY DEF Init, Told, Created

LEMMA ToldServing == Types /\ Told /\ Serving => Told'
<1>. SUFFICES ASSUME Types, Told, Serving PROVE Told'
     OBVIOUS
<1>. USE ModeAssumption DEF Types, Told, Created, serverVars, serveVars, sessionVars, stopVars,
         Context, Causes, OrElse, Fired, CancelServe
<1>1. CASE Listen
     BY <1>1 DEF Listen
<1>2. CASE ServeRefused
     BY <1>2 DEF ServeRefused
<1>3. CASE ServeRegister
     BY <1>3 DEF ServeRegister
<1>4. CASE AcceptEnds
     BY <1>4 DEF AcceptEnds
<1>5. CASE ServeUnblock
     BY <1>5 DEF ServeUnblock
<1>6. CASE ServeCancel
     BY <1>6 DEF ServeCancel
<1>7. CASE ServeLeave
     BY <1>7 DEF ServeLeave
<1>8. CASE RunWatch
     BY <1>8 DEF RunWatch
<1>9. CASE UnblockRuns
     BY <1>9 DEF UnblockRuns
<1>10. CASE ParentEnds
     BY <1>10 DEF ParentEnds, CancelServer
<1>11. CASE CallerCancels
     BY <1>11 DEF CallerCancels
<1>12. ASSUME NEW next \in {"register", "accept"}, ServeEnter(next) PROVE Told'
     BY <1>12 DEF ServeEnter
<1>13. CASE ServeUnwatch
     BY <1>13 DEF ServeUnwatch
<1>. QED
     BY <1>1, <1>2, <1>3, <1>4, <1>5, <1>6, <1>7, <1>8, <1>9, <1>10, <1>11, <1>12, <1>13
     DEF Serving

\* What the accept path does to contexts and positions: only newSession gives a
\* session its context.
LEMMA AdmittingTells ==
    ASSUME Types, NEW c \in Conn, Admitting(c)
    PROVE  /\ UNCHANGED <<sctx, vctx, watch, ln, stop, closing, cause>>
           /\ serve' = serve \/ (serve = "accept" /\ serve' = "unwatch")
           /\ acc[c] = "absent" => serve = "accept"
           /\ \A d \in Conn : ctx'[d] = ctx[d] \/ (d = c /\ ctx'[d] = vctx)
           /\ Created(c)' /\ ~Created(c) => ctx'[c] = vctx
<1>. USE DEF Types, Created, AccState, serverVars, serveVars, sessionVars, stopVars
<1>1. CASE Arrive(c)
     BY <1>1 DEF Arrive
<1>2. CASE TryAdmit(c)
     BY <1>2 DEF TryAdmit
<1>3. CASE RejectFull(c)
     BY <1>3 DEF RejectFull
<1>4. CASE Refuses(c)
     BY <1>4 DEF Refuses
<1>5. ASSUME NEW next \in {"create", "handshake"}, Enter(c, next)
      PROVE  /\ UNCHANGED <<sctx, vctx, watch, ln, stop, closing, cause>>
             /\ serve' = serve /\ ctx' = ctx /\ acc[c] # "absent" /\ ~Created(c)'
     BY <1>5 DEF Enter
<1>6. CASE HandshakeDone(c)
     BY <1>6 DEF HandshakeDone
<1>7. CASE HandshakeFails(c)
     BY <1>7 DEF HandshakeFails
<1>8. CASE FailedLeaves(c)
     BY <1>8 DEF FailedLeaves
<1>9. CASE NewSession(c)
     BY <1>9 DEF NewSession
<1>10. CASE AddSession(c)
     BY <1>10 DEF AddSession
<1>11. CASE Spawn(c)
     BY <1>11 DEF Spawn
<1>. QED
     BY <1>1, <1>2, <1>3, <1>4, <1>5, <1>6, <1>7, <1>8, <1>9, <1>10, <1>11 DEF Admitting

\* Ending a session ends at most its own context.
LEMMA EndingTells ==
    ASSUME Types, NEW c \in Conn, ClosedEarly(c) \/ Ending(c)
    PROVE  /\ UNCHANGED <<sctx, serve, vctx, watch, ln, acc, stop, closing>>
           /\ \A d \in Conn : ctx[d] # "live" => ctx'[d] # "live"
<1>. USE DEF Types, serverVars, serveVars, sessionVars, stopVars
<1>1. CASE ClosedEarly(c)
     BY <1>1 DEF ClosedEarly
<1>2. CASE CloseCancel(c)
     BY <1>2 DEF CloseCancel, OrElse
<1>3. ASSUME Ending(c), ~CloseCancel(c)
      PROVE  UNCHANGED <<sctx, serve, vctx, watch, ln, acc, ctx, stop, closing>>
     BY <1>3 DEF Ending, CloseSteps, ContextClosesSession, CloseRemove, CloseRelease,
                 CloseTransport, HandlerReturns, HandlerLeaves
<1>. QED
     BY <1>1, <1>2, <1>3

LEMMA ToldStep == Types /\ Told /\ [AnyStep]_vars => Told'
<1>. SUFFICES ASSUME Types, Told, [AnyStep]_vars PROVE Told'
     OBVIOUS
<1>1. ASSUME NEW c \in Conn, Admitting(c) PROVE Told'
  <2>1. \A d \in Conn \ {c} : acc'[d] = acc[d]
       BY <1>1, Advances DEF Types
  <2>2. ASSUME NEW d \in Conn, acc'[d] # "absent"
        PROVE  \/ serve' \in {"accept", "unblock", "unwatch", "cancel"}
               \/ serve' \in {"leave", "returned"} /\ vctx' # "live"
       BY <1>1, <2>1, <2>2, AdmittingTells DEF Told
  <2>3. ASSUME NEW d \in Conn, Created(d)', vctx' # "live" PROVE ctx'[d] # "live"
       BY <1>1, <2>1, <2>3, AdmittingTells DEF Told, Created
  <2>. QED
       BY <1>1, <2>2, <2>3, AdmittingTells DEF Told
<1>2. ASSUME NEW c \in Conn, ClosedEarly(c) \/ Ending(c) PROVE Told'
     BY <1>2, EndingTells DEF Told, Created
<1>3. ASSUME NEW s \in Stopper, Stops(s) PROVE Told'
  <2>. USE ModeAssumption DEF Types, Told, Created, serverVars, serveVars, sessionVars, stopVars
  <2>1. CASE StopBegin(s)
       BY <2>1 DEF StopBegin
  <2>2. CASE StopCancel(s)
       BY <2>2 DEF StopCancel, CancelServer, CancelServe, OrElse, Fired, Context, Causes
  <2>3. CASE StopPasses(s)
       BY <2>3 DEF StopPasses
  <2>4. CASE StopCloseSession(s)
       BY <2>4 DEF StopCloseSession
  <2>5. CASE StopSessionClosed(s)
       BY <2>5 DEF StopSessionClosed
  <2>6. CASE StopWait(s)
       BY <2>6 DEF StopWait
  <2>7. CASE StopReturns(s)
       BY <2>7 DEF StopReturns
  <2>. QED
       BY <1>3, <2>1, <2>2, <2>3, <2>4, <2>5, <2>6, <2>7 DEF Stops, StopSteps
<1>4. CASE UNCHANGED vars
     BY <1>4 DEF Told, Created, vars, serverVars, serveVars, sessionVars, stopVars
<1>. QED
     BY <1>1, <1>2, <1>3, <1>4, ToldServing, AnyStepSplit

\* A closeWith that its caller waits for has begun.
Waited ==
    /\ \A c \in Conn : handler[c] = "closing" => once[c] # "open"
    /\ \A s \in Stopper : closing[s] # None => once[closing[s]] # "open"

LEMMA WaitedStep == Types /\ Waited /\ [AnyStep]_vars => Waited'
<1>. SUFFICES ASSUME Types, Waited, [AnyStep]_vars PROVE Waited'
     OBVIOUS
<1>1. \A c \in Conn : once[c] # "open" => once'[c] # "open"
     BY CloseAdvances DEF CloseEdges
<1>2. ASSUME NEW c \in Conn, handler'[c] = "closing" PROVE handler[c] = "closing" \/ once'[c] # "open"
  <2>. USE DEF Types, vars, serverVars, serveVars, sessionVars, stopVars
  <2>1. ASSUME NEW d \in Conn, Admitting(d) PROVE handler'[c] = handler[c] \/ handler'[c] = "running"
       BY <2>1 DEF Admitting, Arrive, TryAdmit, RejectFull, Refuses, Enter, HandshakeDone,
                   HandshakeFails, FailedLeaves, NewSession, AddSession, Spawn
  <2>2. ASSUME NEW d \in Conn, Ending(d)
        PROVE  handler'[c] \in {handler[c], "done"} \/ once'[c] # "open"
    <3>1. CASE HandlerReturns(d)
         BY <3>1 DEF HandlerReturns, CloseWith
    <3>2. CASE HandlerLeaves(d)
         BY <3>2 DEF HandlerLeaves
    <3>3. CASE CloseSteps(d) \/ ContextClosesSession(d)
         BY <3>3 DEF CloseSteps, ContextClosesSession, CloseRemove, CloseRelease,
                     CloseTransport, CloseCancel
    <3>. QED
         BY <2>2, <3>1, <3>2, <3>3 DEF Ending
  <2>3. ASSUME NEW d \in Conn, ClosedEarly(d) PROVE handler' = handler
       BY <2>3 DEF ClosedEarly
  <2>. QED
       BY <1>2, <2>1, <2>2, <2>3, AnyStepSplit, ServingKeeps, StoppingKeeps
       DEF ServeFrame, StopFrame
<1>3. ASSUME NEW s \in Stopper, closing'[s] # None, closing'[s] # closing[s]
      PROVE  once'[closing'[s]] # "open"
  <2>1. ASSUME NEW r \in Stopper, Stops(r) PROVE StopCloseSession(r) /\ r = s
    <3>. USE DEF Types, stopVars
    <3>1. StopBegin(r) \/ StopCancel(r) \/ StopPasses(r) \/ StopWait(r) \/ StopReturns(r)
          => closing' = closing
         BY DEF StopBegin, StopCancel, StopPasses, StopWait, StopReturns
    <3>2. ~StopSessionClosed(r)
         BY <1>3 DEF StopSessionClosed
    <3>3. StopCloseSession(r) => r = s
         BY <1>3 DEF StopCloseSession
    <3>. QED
         BY <1>3, <2>1, <3>1, <3>2, <3>3 DEF Stops, StopSteps
  <2>2. ASSUME StopCloseSession(s) PROVE once'[closing'[s]] # "open"
       BY <2>2 DEF StopCloseSession, CloseWith, Types
  <2>3. ASSUME closing' = closing PROVE FALSE
       BY <1>3, <2>3
  <2>. QED
       BY <2>1, <2>2, <2>3, AnyStepSplit, ServingKeeps, AdmittingTells, EndingTells
       DEF ServeFrame, stopVars, vars
<1>4. \A s \in Stopper : closing[s] # None => closing[s] \in Conn
     BY DEF Types
<1>. QED
     BY <1>1, <1>2, <1>3, <1>4 DEF Waited

\* Once a StopListener call is past its second step, the context that each goroutine of
\* a connection waits on, with or without a session, has ended or is about to be ended
\* by the AfterFunc that Serve has left behind or by Serve itself, and no one waits for
\* a closeWith that nobody runs.
THEOREM ServerTellsSessions == AnyServer => []SessionsHear
<1>1. Init => Waited
     BY DEF Init, Waited
<1>2. Told /\ Waited /\ IInv => SessionsHear
  <2>. SUFFICES ASSUME Told, IInv, StopSent, NEW c \in Conn, Counted(c)
                PROVE  ContextOf(c) # "live" \/ AboutToCancel
       BY DEF SessionsHear, Waited
  <2>1. sctx # "live"
       BY DEF StopSent, Told
  <2>2. acc[c] # "absent"
       BY DEF Counted, IInv, Life
  <2>3. vctx # "live" \/ watch # "off" \/ serve = "cancel"
       BY <2>2 DEF Told
  <2>4. vctx # "live" \/ AboutToCancel
       BY <2>1, <2>3 DEF Told, IInv, Types, AboutToCancel
  <2>. QED
       BY <2>4 DEF Told, ContextOf
<1>3. IInv /\ Told /\ [AnyStep]_vars => Told'
     BY ToldStep DEF IInv
<1>4. IInv /\ Waited /\ [AnyStep]_vars => Waited'
     BY WaitedStep DEF IInv
<1>5. AnyServer => [](Told /\ Waited)
     BY <1>1, <1>3, <1>4, ToldInit, Inductive, PTL DEF AnyServer
<1>. QED
     BY <1>2, <1>5, Inductive, PTL

\* A server that is stopped stays so.
LEMMA StoppedStays == Types /\ stopped /\ [AnyStep]_vars => stopped'
BY AnyStepSplit, ServingKeeps, StoppingKeeps, OthersDoNotStop
   DEF ServeFrame, StopFrame, vars, serverVars

\* The step of StopListener that is every transport's own.
Passes(s) == stop[s] = "listener" /\ stop'[s] = "sessions"

\* StopListener comes to the sessions by that step only, and nobody else moves it.
LEMMA OnlyPassing ==
    ASSUME Types, [AnyStep]_vars
    PROVE  /\ StopSent' => StopSent \/ \E s \in Stopper : Passes(s)
           /\ \A s \in Stopper : Passes(s) => serve' = serve
<1>1. ASSUME NEW s \in Stopper, Stops(s)
      PROVE  /\ \A r \in Stopper \ {s} : stop'[r] = stop[r]
             /\ serve' = serve
             /\ stop'[s] \in {"sessions", "wait", "returned"} =>
                   stop[s] \in {"sessions", "wait", "returned"} \/ Passes(s)
  <2>1. serve' = serve /\ \A r \in Stopper \ {s} : stop'[r] = stop[r]
       BY <1>1, StoppingKeeps DEF StopFrame
  <2>. USE DEF Types, Passes, stopVars
  <2>2. StopBegin(s) \/ StopCancel(s) => stop'[s] \in {"cancel", "listener"}
       BY DEF StopBegin, StopCancel
  <2>3. StopPasses(s) => Passes(s)
       BY DEF StopPasses
  <2>4. StopCloseSession(s) \/ StopSessionClosed(s) => stop' = stop
       BY DEF StopCloseSession, StopSessionClosed
  <2>5. StopWait(s) \/ StopReturns(s) => stop[s] \in {"sessions", "wait", "returned"}
       BY DEF StopWait, StopReturns
  <2>. QED
       BY <1>1, <2>1, <2>2, <2>3, <2>4, <2>5 DEF Stops, StopSteps
<1>2. ASSUME stop' = stop
      PROVE  /\ StopSent' => StopSent \/ \E s \in Stopper : Passes(s)
             /\ \A s \in Stopper : Passes(s) => serve' = serve
     BY <1>2 DEF StopSent, Passes
<1>3. ASSUME NEW s \in Stopper, Stops(s)
      PROVE  /\ StopSent' => StopSent \/ \E r \in Stopper : Passes(r)
             /\ \A r \in Stopper : Passes(r) => serve' = serve
     BY <1>1, <1>3 DEF StopSent
<1>. QED
     BY <1>2, <1>3, AnyStepSplit, ServingKeeps, AdmittingTells, EndingTells
     DEF ServeFrame, stopVars, vars

\* A Serve that is under way has bound its listener, and nobody opens it again.
Bound == serve \notin {"init", "returned"} => ln # "unbound"

LEMMA ListenerStays ==
    ASSUME Types, [AnyStep]_vars
    PROVE  /\ Bound => Bound'
           /\ serve # "init" => ln' \in {ln, "closed"}
           /\ ServeRunning' => serve # "init" /\ (ServeRunning \/ ~stopped')
<1>. DEFINE Goal == /\ Bound => Bound'
                    /\ serve # "init" => ln' \in {ln, "closed"}
                    /\ ServeRunning' => serve # "init" /\ (ServeRunning \/ ~stopped')
<1>. USE DEF Bound, ServeRunning, Types
<1>1. ASSUME Serving PROVE Goal
  <2>1. stopped' = stopped
       BY <1>1, ServingKeeps DEF ServeFrame
  <2>2. CASE Listen \/ ServeRefused
       BY <2>2 DEF Listen, ServeRefused
  <2>3. CASE ServeRegister \/ AcceptEnds \/ ServeUnblock
       BY <2>3 DEF ServeRegister, AcceptEnds, ServeUnblock, MayClose
  <2>4. CASE ServeUnwatch \/ ServeCancel \/ ServeLeave \/ CallerCancels
       BY <2>4 DEF ServeUnwatch, ServeCancel, ServeLeave, CallerCancels, serveVars
  <2>5. CASE RunWatch \/ UnblockRuns \/ ParentEnds
       BY <2>5 DEF RunWatch, UnblockRuns, ParentEnds, MayClose
  <2>6. ASSUME NEW next \in {"register", "accept"}, ServeEnter(next) PROVE Goal
       BY <2>1, <2>6 DEF ServeEnter
  <2>. QED
       BY <1>1, <2>2, <2>3, <2>4, <2>5, <2>6 DEF Serving
<1>2. ASSUME serve' = serve \/ (serve = "accept" /\ serve' = "unwatch"), ln' \in {ln, "closed"}
      PROVE  Goal
     BY <1>2
<1>3. ASSUME NEW s \in Stopper, Stops(s) PROVE serve' = serve /\ ln' \in {ln, "closed"}
  <2>1. serve' = serve
       BY <1>3, StoppingKeeps DEF StopFrame
  <2>. QED
       BY <1>3, <2>1 DEF Stops, StopSteps, StopBegin, StopCancel, StopPasses, StopCloseSession,
                         StopSessionClosed, StopWait, StopReturns, MayClose, serveVars
<1>. QED
     BY <1>1, <1>2, <1>3, AnyStepSplit, AdmittingTells, EndingTells DEF vars, serveVars

\* If that step closes the listener, as it does but for WebSocket, no accept call is
\* left waiting.
LEMMA HearingStep ==
    ASSUME IInv, Stopping, Bound, AcceptHears, [AnyStep]_vars,
           \A s \in Stopper : Passes(s) => CloseListener
    PROVE  AcceptHears'
<1>. SUFFICES ASSUME StopSent', ServeRunning' PROVE ln' = "closed"
     BY DEF AcceptHears
<1>. USE DEF IInv, Types
<1>1. /\ ServeRunning \/ ~stopped'
      /\ ln' \in {ln, "closed"}
     BY ListenerStays
<1>2. CASE StopSent
  <2>1. stopped
       BY <1>2 DEF StopSent, Stopping
  <2>2. stopped'
       BY <2>1, StoppedStays
  <2>. QED
       BY <1>1, <1>2, <2>2 DEF AcceptHears
<1>3. ASSUME NEW s \in Stopper, Passes(s) PROVE ln' = "closed"
  <2>1. serve' = serve /\ CloseListener
       BY <1>3, OnlyPassing
  <2>. QED
       BY <2>1 DEF CloseListener, Bound, ServeRunning
<1>. QED
     BY <1>2, <1>3, OnlyPassing

\* Nothing that is the same for every transport takes that step.
LEMMA SharedDoesNotPass == ASSUME Types, Shared, NEW s \in Stopper PROVE ~Passes(s)
<1>. USE DEF Types, Passes, serverVars, stopVars
<1>1. ASSUME NEW r \in Stopper, StopSteps(r) PROVE ~Passes(s)
  <2>1. StopBegin(r) \/ StopCancel(r) \/ StopWait(r) \/ StopReturns(r) => ~Passes(s)
       BY DEF StopBegin, StopCancel, StopWait, StopReturns
  <2>2. StopCloseSession(r) \/ StopSessionClosed(r) => ~Passes(s)
       BY DEF StopCloseSession, StopSessionClosed
  <2>. QED
       BY <1>1, <2>1, <2>2 DEF StopSteps
<1>2. ASSUME NEW c \in Conn, \/ EndSession(c) \/ ContextClosesSession(c) \/ CloseSteps(c)
                             \/ HandlerReturns(c)
      PROVE  ~Passes(s)
     BY <1>2, OthersDoNotStop DEF EndSession, ClosedEarly, Created, Ending
<1>. QED
     BY <1>1, <1>2, ServingKeeps DEF Shared, Serving, ServeFrame

-------------------------------------------------------------------------------
(* The registry                                                            *)

\* byAddr changes in add and in remove, each for its own session.
LEMMA RegistryChanges ==
    ASSUME Types, Life, [AnyStep]_vars
    PROVE  \/ byAddr' = byAddr
           \/ \E c \in Conn : AddSession(c) \/ CloseRemove(c)
<1>. USE DEF vars, serverVars
<1>1. ASSUME NEW c \in Conn, Admitting(c) PROVE byAddr' = byAddr \/ AddSession(c)
     BY <1>1 DEF Admitting, Arrive, TryAdmit, RejectFull, Refuses, Enter, HandshakeDone,
            HandshakeFails, FailedLeaves, NewSession, Spawn
<1>2. ASSUME NEW c \in Conn, ClosedEarly(c) PROVE byAddr' = byAddr
     BY <1>2 DEF ClosedEarly
<1>3. ASSUME NEW c \in Conn, Ending(c) PROVE byAddr' = byAddr \/ CloseRemove(c)
     BY <1>3 DEF Ending, CloseSteps, ContextClosesSession, CloseRelease,
            CloseTransport, CloseCancel, HandlerReturns, HandlerLeaves
<1>. QED
     BY <1>1, <1>2, <1>3, AnyStepSplit, ServingKeeps, StoppingKeeps DEF ServeFrame, StopFrame

\* A late close of an old session leaves the session of its client's new
\* connection in the registry.
THEOREM ServerKeepsNewer == AnyServer => KeepsNewer
<1>. DEFINE Kept == \A c \in Conn : Registered(c) /\ ~Registered(c)' =>
                       \/ once[c] = "remove" /\ once'[c] = "release"
                       \/ \E d \in Conn \ {c} : acc[d] = "add" /\ Registered(d)'
<1>1. IInv /\ [AnyStep]_vars => Kept
  <2>. SUFFICES ASSUME IInv, [AnyStep]_vars,
                       NEW c \in Conn, Registered(c), ~Registered(c)'
                PROVE  \/ once[c] = "remove" /\ once'[c] = "release"
                       \/ \E d \in Conn \ {c} : acc[d] = "add" /\ Registered(d)'
       OBVIOUS
  <2>. USE AddrAssumption, ConnAssumption DEF IInv, Types, Registered
  <2>1. ASSUME NEW d \in Conn, AddSession(d)
        PROVE  d # c /\ acc[d] = "add" /\ Registered(d)'
       BY <2>1 DEF AddSession
  <2>2. ASSUME NEW d \in Conn, CloseRemove(d)
        PROVE  once[c] = "remove" /\ once'[c] = "release"
       BY <2>2 DEF CloseRemove
  <2>. QED
       BY <2>1, <2>2, RegistryChanges
<1>2. IInv /\ [AnyStep]_vars => [Kept]_vars
     BY <1>1
<1>. QED
     BY <1>2, Inductive, PTL DEF AnyServer, KeepsNewer

\* On a server that closes sessions in order, while Serve's context is live: a
\* context has ended only by the last step of closeWith, so that a session is
\* registered before anything ends it.
Registry ==
    /\ serve \in {"init", "enter"} => \A c \in Conn : acc[c] = "absent"
    /\ vctx = "live" => \A c \in Conn :
          /\ Created(c) /\ ctx[c] # "live" => once[c] = "done"
          /\ acc[c] = "add" => once[c] = "open"
    /\ RegistryLive

LEMMA RegistryInit == Init => Registry
BY ConnAssumption, AddrAssumption DEF Init, Registry, RegistryLive, Registered, Created

LEMMA RegistryStep == Types /\ Life /\ Registry /\ [Step]_vars => Registry'
<1>. SUFFICES ASSUME Types, Life, Registry, [Step]_vars PROVE Registry'
     OBVIOUS
<1>. USE ConnAssumption, AddrAssumption DEF Types, Life, Created, Registered, Ended, Registry,
         RegistryLive, vars, serverVars, serveVars, sessionVars, stopVars, AccState, Closing, OrElse
<1>1. ASSUME Serving PROVE Registry'
     BY <1>1, ServingKeeps DEF ServeFrame
<1>2. ASSUME NEW c \in Conn, Admitting(c) PROVE Registry'
  <2>1. CASE Arrive(c)
       BY <2>1 DEF Arrive
  <2>2. CASE TryAdmit(c)
       BY <2>2 DEF TryAdmit
  <2>3. CASE RejectFull(c)
       BY <2>3 DEF RejectFull, CloseConn
  <2>4. CASE Refuses(c)
       BY <2>4 DEF Refuses, CloseConn
  <2>5. ASSUME NEW next \in {"create", "handshake"}, Enter(c, next) PROVE Registry'
       BY <2>5 DEF Enter
  <2>6. CASE HandshakeDone(c)
       BY <2>6 DEF HandshakeDone
  <2>7. CASE HandshakeFails(c)
       BY <2>7 DEF HandshakeFails, CloseConn
  <2>8. CASE FailedLeaves(c)
       BY <2>8 DEF FailedLeaves
  <2>9. CASE NewSession(c)
       BY <2>9 DEF NewSession
  <2>10. CASE AddSession(c)
       BY <2>10 DEF AddSession
  <2>11. CASE Spawn(c)
       BY <2>11 DEF Spawn
  <2>. QED
       BY <1>2, <2>1, <2>2, <2>3, <2>4, <2>5, <2>6, <2>7, <2>8, <2>9, <2>10, <2>11
       DEF Admitting
<1>3. ASSUME NEW c \in Conn, ClosedBy(c) PROVE Registry'
     BY <1>3 DEF ClosedBy, CloseWith
<1>4. ASSUME NEW c \in Conn, Ending(c) PROVE Registry'
  <2>1. CASE ContextClosesSession(c)
       BY <2>1 DEF ContextClosesSession, CloseWith
  <2>2. CASE CloseRemove(c)
       BY <2>2 DEF CloseRemove
  <2>3. CASE CloseRelease(c)
       BY <2>3 DEF CloseRelease
  <2>4. CASE CloseTransport(c)
       BY <2>4 DEF CloseTransport
  <2>5. CASE CloseCancel(c)
       BY <2>5 DEF CloseCancel
  <2>6. CASE HandlerReturns(c)
       BY <2>6 DEF HandlerReturns, CloseWith
  <2>7. CASE HandlerLeaves(c)
       BY <2>7 DEF HandlerLeaves
  <2>. QED
       BY <1>4, <2>1, <2>2, <2>3, <2>4, <2>5, <2>6, <2>7 DEF Ending, CloseSteps
<1>5. ASSUME NEW s \in Stopper, Stops(s) PROVE Registry'
     BY <1>5, StoppingKeeps DEF StopFrame, CloseWith
<1>6. CASE UNCHANGED vars
     BY <1>6
<1>. QED
     BY <1>1, <1>2, <1>3, <1>4, <1>5, <1>6 DEF Step

LEMMA RegistryKept == OrderlyServer => []Registry
<1>1. IInv /\ Registry /\ [Step]_vars => Registry'
     BY RegistryStep DEF IInv
<1>. QED
     BY <1>1, RegistryInit, Inductive, OrderlyIsAny, PTL DEF OrderlyServer

\* While Serve's context is live, no session that has gone through remove is
\* found in the registry.
THEOREM ServerRegistry == OrderlyServer => []RegistryLive
<1>1. Registry => RegistryLive
     BY DEF Registry
<1>. QED
     BY <1>1, RegistryKept, PTL

\* While Serve's context is live, whoever sees a session's context end finds it
\* unregistered and its connection closed.
THEOREM ServerCloseOrder == OrderlyServer => []CloseOrder
<1>1. IInv /\ Registry => CloseOrder
     BY DEF IInv, Registry, RegistryLive, Ended, Closed, CloseOrder, DoneMeansClosed
<1>. QED
     BY <1>1, RegistryKept, Inductive, OrderlyIsAny, PTL

===============================================================================
