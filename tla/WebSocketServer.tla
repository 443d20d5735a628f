---------------------------- MODULE WebSocketServer ----------------------------
(***************************************************************************)
(* The WebSocket server (listener/websocket.go) on top of the shared       *)
(* server.  net/http accepts connections and calls upgrade on a goroutine  *)
(* per request, so that any number of them go through admission at once;   *)
(* the WebSocket exists (tconn) when its upgrade ("handshake") is done.    *)
(* Serve hands the listener to an http.Server, which StopListener and the  *)
(* end of Serve's context close.                                           *)
(***************************************************************************)
EXTENDS Server

VARIABLE http   \* w.http: "none", "set" by Serve, "serving", "shut" by Close

allVars == <<vars, http>>

\* The types of both parts.
WsTypeOK == TypeOK /\ http \in {"none", "set", "serving", "shut"}

WsInit == Init /\ http = "none"

-------------------------------------------------------------------------------
(* Serve and the http.Server                                               *)

\* w.http is set and the AfterFunc registered.
Register ==
    /\ ServeRegister
    /\ http' = "set"

\* srv.Serve takes the listener, unless Close came first.
HttpServe ==
    /\ serve = "accept" /\ http = "set"
    /\ http' = "serving"
    /\ UNCHANGED vars

\* srv.Serve returns, after Close or because Accept failed, and closes the listener.
HttpReturns ==
    /\ serve = "accept" /\ http \in {"serving", "shut"}
    /\ serve' = "unblock"
    /\ CloseListener
    /\ UNCHANGED <<serverVars, vctx, watch, unblock, sessionVars, stopVars, http>>

\* srv.Close: the listener is closed with it once Serve has it.
HttpClose ==
    /\ http' = "shut"
    /\ IF http = "serving" THEN CloseListener ELSE UNCHANGED ln

\* Serve's context has ended.
Unblock ==
    /\ unblock = "fired"
    /\ unblock' = "done"
    /\ HttpClose
    /\ UNCHANGED <<serverVars, serve, vctx, watch, sessionVars, stopVars>>

\* The closeListener of StopListener.
StopCloseSet(s) ==
    /\ stop[s] = "listener"
    /\ stop' = [stop EXCEPT ![s] = "sessions"]
    /\ IF http = "none" THEN UNCHANGED <<ln, http>> ELSE HttpClose
    /\ UNCHANGED <<serverVars, serve, vctx, watch, unblock, sessionVars, snapshot,
                   closing>>
StopCloseHttp(s) ==
    /\ stop[s] = "listener"
    /\ stop' = [stop EXCEPT ![s] = "sessions"]
    /\ IF http = "none" THEN CloseListener /\ UNCHANGED http ELSE HttpClose
    /\ UNCHANGED <<serverVars, serve, vctx, watch, unblock, sessionVars, snapshot,
                   closing>>

-------------------------------------------------------------------------------
(* upgrade, on the request's goroutine                                     *)

Request(c) ==
    /\ http = "serving" /\ ln = "open" /\ acc[c] = "absent"
    /\ acc' = [acc EXCEPT ![c] = "admit"]
    /\ UNCHANGED <<serverVars, serveVars, tconn, ctx, once, cause, handler, stopVars, http>>

Upgrade(c) ==
    \/ TryAdmit(c) \/ RejectFull(c)
    \/ Enter(c, "handshake") \/ Refuse(c)
    \/ HandshakeDone(c) \/ HandshakeFails(c) \/ FailedLeaves(c)
    \/ NewSession(c) \/ AddSession(c) \/ Spawn(c)

-------------------------------------------------------------------------------
WsNext ==
    \/ UNCHANGED http /\ (\/ Shared \/ ServeEnter("register")
                          \/ \E c \in Conn : Upgrade(c) \/ HandlerLeaves(c))
    \/ Register \/ HttpServe \/ HttpReturns \/ Unblock
    \/ \E c \in Conn : Request(c)
    \/ \E s \in Stopper : StopCloseHttp(s)

WsSpec == WsInit /\ [][WsNext]_allVars

\* Goroutines run, a handler returns once its session's context is done, and the
\* http.Server returns when it has been closed or its listener has.
WsFairness ==
    /\ WF_allVars(\/ Register \/ HttpServe \/ Unblock
                  \/ (http = "shut" \/ ln = "closed") /\ HttpReturns
                  \/ /\ ServeEnter("register") \/ ServeUnblock \/ ServeUnwatch
                        \/ ServeCancel \/ ServeLeave \/ RunWatch
                     /\ UNCHANGED http)
    /\ \A c \in Conn :
          /\ WF_allVars(Upgrade(c) /\ UNCHANGED http)
          /\ WF_allVars((ContextClosesSession(c) \/ CloseSteps(c)) /\ UNCHANGED http)
          /\ WF_allVars(/\ (ctx[c] # "live" /\ HandlerReturns(c)) \/ HandlerLeaves(c)
                        /\ UNCHANGED http)
    /\ \A s \in Stopper :
          WF_allVars(\/ StopCloseHttp(s)
                     \/ (stop[s] # "idle" /\ StopSteps(s) /\ UNCHANGED http))

WsFairSpec == WsSpec /\ WsFairness

-------------------------------------------------------------------------------
\* StopIsHeard, with an http.Server between StopListener and the accept call: wherever
\* Serve is in its hand-over, it has lost its listener or finds its http.Server shut.
WsStopIsHeard ==
    SessionsHear /\ (StopSent /\ ServeRunning => ln = "closed" \/ http = "shut")

===============================================================================
