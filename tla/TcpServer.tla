------------------------------- MODULE TcpServer -------------------------------
(***************************************************************************)
(* The TCP server (listener/tcp.go) on top of the shared server: the Serve *)
(* loop accepts one connection at a time and takes it through admission,   *)
(* registration and the start of its handler, while clients connect and    *)
(* leave, sessions end, contexts are cancelled and StopListener runs.      *)
(***************************************************************************)
EXTENDS Server

-------------------------------------------------------------------------------
(* Serve                                                                   *)

InAccept(c) == acc[c] \in {"admit", "full", "enter", "create", "add", "spawn"}
Accepting == serve = "accept" /\ \A c \in Conn : ~InAccept(c)

\* A client has connected.  Its address may be that of an older connection
\* whose end the server has not noticed yet.
Accept(c) ==
    /\ Accepting /\ ln = "open" /\ acc[c] = "absent"
    /\ acc' = [acc EXCEPT ![c] = "admit"]
    /\ tconn' = [tconn EXCEPT ![c] = "open"]
    /\ UNCHANGED <<serverVars, serveVars, ctx, once, cause, handler, stopVars>>

\* accept: the steps of one connection, in the Serve goroutine.
AcceptPath(c) ==
    \/ TryAdmit(c) \/ RejectFull(c)
    \/ Enter(c, "create") \/ Refuse(c)
    \/ NewSession(c) \/ AddSession(c) \/ Spawn(c)

\* Accept fails, because the listener is closed or for a reason that is not
\* a timeout, and Serve returns.
AcceptFails ==
    /\ Accepting
    /\ serve' = "unblock"
    /\ UNCHANGED <<serverVars, vctx, watch, unblock, ln, sessionVars, stopVars>>

-------------------------------------------------------------------------------
Next ==
    \/ Shared
    \/ ServeEnter("register") \/ ServeRegister \/ AcceptFails \/ RunUnblock
    \/ \E c \in Conn : Accept(c) \/ AcceptPath(c) \/ HandlerLeaves(c)
    \/ \E s \in Stopper : StopCloseListener(s)

Spec == Init /\ [][Next]_vars

\* Goroutines run.  A handler returns once its session's context is done
\* (legacyHandler waits for exactly that), and a closed listener fails
\* Accept; clients, StopListener calls and errors come when they come.  Each
\* of these steps is taken at most once per connection or per server, so
\* fairness of a disjunction is fairness of every goroutine behind it.
ServerRuns ==
    \/ ServeEnter("register") \/ ServeRegister \/ ServeRefused
    \/ (ln = "closed" /\ AcceptFails)
    \/ ServeUnblock \/ ServeUnwatch \/ ServeCancel \/ ServeLeave
    \/ RunWatch \/ RunUnblock

SessionRuns(c) ==
    \/ AcceptPath(c) \/ ContextClosesSession(c) \/ CloseSteps(c)
    \/ (ctx[c] # "live" /\ HandlerReturns(c))
    \/ HandlerLeaves(c)

StopRuns(s) == StopCloseListener(s) \/ (stop[s] # "idle" /\ StopSteps(s))

Fairness ==
    /\ WF_vars(ServerRuns)
    /\ \A c \in Conn : WF_vars(SessionRuns(c))
    /\ \A s \in Stopper : WF_vars(StopRuns(s))

FairSpec == Spec /\ Fairness
===============================================================================
