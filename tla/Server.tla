-------------------------------- MODULE Server --------------------------------
(***************************************************************************)
(* What every GopherSocks server shares (listener/server.go) and the life  *)
(* cycle of its sessions (newSession and closeWith of listener/session.go):*)
(* admission, registration, the contexts that connect StopListener, Serve  *)
(* and the sessions, and the stop sequence.                                *)
(*                                                                         *)
(* The module defines state and steps; a transport (TcpServer, ...) says   *)
(* in which order its accept path takes them.  A step ends where another   *)
(* goroutine can see a difference: at a lock, an atomic operation, a       *)
(* context or a channel.  The goroutine running closeWith is not named:    *)
(* once[c] is the position inside its sync.Once, and a caller that must    *)
(* come back from closeWith waits for "done".                              *)
(***************************************************************************)
EXTENDS Integers, FiniteSets

CONSTANTS
    Conn,            \* the connections clients make; each carries one session
    Addr,            \* client addresses
    AddrOf,          \* the address each connection comes from
    MaxConnections,  \* ServerConfig.MaxConnections
    Stopper,         \* goroutines that call StopListener, once each
    Background,      \* TRUE: StartListener, so Serve's context is a child of
                     \* the server's; FALSE: Serve(ctx) with the caller's own
    AppCancels,      \* TRUE: the application may end the contexts it gave to
                     \* the constructor and to Serve
    None             \* no session

ASSUME ConnAssumption == IsFiniteSet(Conn) /\ None \notin Conn
ASSUME AddrAssumption == AddrOf \in [Conn -> Addr]
ASSUME MaxAssumption  == MaxConnections \in Nat \ {0}
ASSUME ModeAssumption == Background \in BOOLEAN /\ AppCancels \in BOOLEAN

VARIABLES
    stopped,    \* server.stopped
    active,     \* server.active, the atomic counter of reserved slots
    wg,         \* server.wg
    byAddr,     \* server.byAddr
    sctx,       \* server.ctx: "live" or the cause it ended with
    serve,      \* where the Serve call is
    vctx,       \* the context Serve gives its sessions
    watch,      \* serveContext's AfterFunc on the server's context
    unblock,    \* Serve's AfterFunc that closes the listener
    ln,         \* the listening socket
    acc,        \* acc[c]: where the accept path is with connection c
    tconn,      \* tconn[c]: the connection itself
    ctx,        \* ctx[c]: session.ctx
    once,       \* once[c]: how far closeWith has got
    cause,      \* cause[c]: the parameter of the closeWith call that is running
    handler,    \* handler[c]: the goroutine of serveSession
    stop,       \* stop[s]: where StopListener call s is
    snapshot,   \* snapshot[s]: the sessions it has still to close
    closing     \* closing[s]: the session it is inside closeWith for

serverVars  == <<stopped, active, wg, byAddr, sctx>>
serveVars   == <<serve, vctx, watch, unblock, ln>>
sessionVars == <<acc, tconn, ctx, once, cause, handler>>
stopVars    == <<stop, snapshot, closing>>
vars        == <<serverVars, serveVars, sessionVars, stopVars>>

\* ErrSlowConsumer and the read and write errors close a session just as
\* ErrSessionClosed does, so that one stands for them all.
\* The application ends its own contexts with a cause of its own.
Causes  == {"ErrSessionClosed", "ErrServerStopped", "Canceled", "Application"}
Context == {"live"} \cup Causes

AccState == {"absent", "admit", "full", "enter", "handshake", "failed", "create",
             "add", "spawn", "served", "rejected"}
Closing  == {"remove", "release", "close", "cancel"}

\* The counters are natural numbers: neither is ever decremented too often.
TypeOK ==
    /\ stopped \in BOOLEAN
    /\ active \in Nat
    /\ wg \in Nat
    /\ byAddr \in [Addr -> Conn \cup {None}]
    /\ sctx \in Context
    /\ serve \in {"init", "enter", "register", "accept", "unblock", "unwatch", "cancel", "leave",
              "returned"}
    /\ vctx \in Context
    /\ watch \in {"off", "armed", "fired", "done"}
    /\ unblock \in {"off", "armed", "fired", "done"}
    /\ ln \in {"unbound", "open", "closed"}
    /\ acc \in [Conn -> AccState]
    /\ tconn \in [Conn -> {"none", "open", "closed"}]
    /\ ctx \in [Conn -> Context]
    /\ once \in [Conn -> {"open", "done"} \cup Closing]
    /\ cause \in [Conn -> Context]
    /\ handler \in [Conn -> {"none", "running", "closing", "done"}]
    /\ stop \in [Stopper -> {"idle", "cancel", "listener", "sessions", "wait", "returned"}]
    /\ snapshot \in [Stopper -> SUBSET Conn]
    /\ closing \in [Stopper -> Conn \cup {None}]

Init ==
    /\ stopped = FALSE /\ active = 0 /\ wg = 0
    /\ byAddr = [a \in Addr |-> None]
    /\ sctx = "live"
    /\ serve = "init" /\ vctx = "live" /\ watch = "off" /\ unblock = "off"
    /\ ln = "unbound"
    /\ acc = [c \in Conn |-> "absent"]
    /\ tconn = [c \in Conn |-> "none"]
    /\ ctx = [c \in Conn |-> "live"]
    /\ once = [c \in Conn |-> "open"]
    /\ cause = [c \in Conn |-> "live"]
    /\ handler = [c \in Conn |-> "none"]
    /\ stop = [s \in Stopper |-> "idle"]
    /\ snapshot = [s \in Stopper |-> {}]
    /\ closing = [s \in Stopper |-> None]

Created(c)  == acc[c] \in {"add", "spawn", "served"}
Registered(c) == byAddr[AddrOf[c]] = c
OrElse(context, why) == IF context = "live" THEN why ELSE context

-------------------------------------------------------------------------------
(* Contexts.  Cancelling one ends its children at once and starts their    *)
(* AfterFunc functions, each on a goroutine of its own.                    *)

Fired(afterFunc) == IF afterFunc = "armed" THEN "fired" ELSE afterFunc

\* Ends the context of Serve with `why`: every live session context follows.
CancelServe(why) ==
    /\ vctx' = OrElse(vctx, why)
    /\ unblock' = Fired(unblock)
    /\ ctx' = [c \in Conn |-> IF Created(c) THEN OrElse(ctx[c], vctx') ELSE ctx[c]]

\* Ends the server's context: Serve's own follows when it is a child.
CancelServer(why) ==
    /\ sctx' = OrElse(sctx, why)
    /\ watch' = Fired(watch)
    /\ IF Background THEN CancelServe(sctx') ELSE UNCHANGED <<vctx, unblock, ctx>>

\* The context given to the constructor ends.
ParentEnds ==
    /\ AppCancels /\ sctx = "live"
    /\ CancelServer("Application")
    /\ UNCHANGED <<stopped, active, wg, byAddr, serve, ln, acc, tconn, once,
                   cause, handler, stopVars>>

\* The context the caller gave to Serve ends.
CallerCancels ==
    /\ AppCancels /\ ~Background
    /\ vctx = "live" /\ serve \in {"register", "accept", "unblock", "unwatch", "cancel"}
    /\ CancelServe("Application")
    /\ UNCHANGED <<serverVars, serve, watch, ln, acc, tconn, once, cause,
                   handler, stopVars>>

\* serveContext's AfterFunc: pass the server's cause on to Serve's context.
RunWatchIdly ==
    /\ watch = "fired"
    /\ watch' = "done"
    /\ UNCHANGED <<serverVars, serve, vctx, unblock, ln, sessionVars, stopVars>>
RunWatch ==
    /\ watch = "fired"
    /\ watch' = "done"
    /\ CancelServe(sctx)
    /\ UNCHANGED <<serverVars, serve, ln, acc, tconn, once, cause, handler, stopVars>>

-------------------------------------------------------------------------------
(* closeWith.  The first caller enters the sync.Once and later ones wait   *)
(* for it: unregister (onClose is server.remove), give the slot back,      *)
(* close the connection and only then cancel the context.                  *)

\* A call of closeWith(why): nothing happens unless it is the first.
CloseWith(c, why) ==
    /\ once' = [once EXCEPT ![c] = IF @ = "open" THEN "remove" ELSE @]
    /\ cause' = [cause EXCEPT ![c] = IF once[c] = "open" THEN why ELSE @]

\* Somebody uses the session: a read or write error, a slow consumer or
\* CloseSession, by its handler or by whoever found it with GetSession.
EndSession(c) ==
    /\ once[c] = "open" /\ acc[c] \in {"spawn", "served"}
    /\ CloseWith(c, "ErrSessionClosed")
    /\ UNCHANGED <<serverVars, serveVars, acc, tconn, ctx, handler, stopVars>>

\* newSession's AfterFunc: the session's context ended, so close it too.
ContextClosesSession(c) ==
    /\ Created(c) /\ ctx[c] # "live" /\ once[c] = "open"
    /\ CloseWith(c, ctx[c])
    /\ UNCHANGED <<serverVars, serveVars, acc, tconn, ctx, handler, stopVars>>

\* server.remove, under mu: only the session that is registered is deleted.
CloseRemoveAny(c) ==
    /\ once[c] = "remove"
    /\ byAddr' = [byAddr EXCEPT ![AddrOf[c]] = None]
    /\ once' = [once EXCEPT ![c] = "release"]
    /\ UNCHANGED <<stopped, active, wg, sctx, serveVars, acc, tconn, ctx, cause,
                   handler, stopVars>>
CloseRemoveNone(c) ==
    /\ once[c] = "remove"
    /\ once' = [once EXCEPT ![c] = "release"]
    /\ UNCHANGED <<serverVars, serveVars, acc, tconn, ctx, cause, handler, stopVars>>
CloseRemove(c) ==
    /\ once[c] = "remove"
    /\ byAddr' = [byAddr EXCEPT ![AddrOf[c]] = IF @ = c THEN None ELSE @]
    /\ once' = [once EXCEPT ![c] = "release"]
    /\ UNCHANGED <<stopped, active, wg, sctx, serveVars, acc, tconn, ctx, cause,
                   handler, stopVars>>

CloseReleaseCancelling(c) ==
    /\ once[c] = "release"
    /\ active' = active - 1
    /\ ctx' = [ctx EXCEPT ![c] = OrElse(@, cause[c])]
    /\ once' = [once EXCEPT ![c] = "close"]
    /\ UNCHANGED <<stopped, wg, byAddr, sctx, serveVars, acc, tconn, cause, handler,
                   stopVars>>
CloseReleaseLeavingOpen(c) ==
    /\ once[c] = "release"
    /\ active' = active - 1
    /\ once' = [once EXCEPT ![c] = "cancel"]
    /\ UNCHANGED <<stopped, wg, byAddr, sctx, serveVars, acc, tconn, ctx, cause,
                   handler, stopVars>>
CloseRelease(c) ==
    /\ once[c] = "release"
    /\ active' = active - 1
    /\ once' = [once EXCEPT ![c] = "close"]
    /\ UNCHANGED <<stopped, wg, byAddr, sctx, serveVars, acc, tconn, ctx, cause,
                   handler, stopVars>>

CloseTransport(c) ==
    /\ once[c] = "close"
    /\ tconn' = [tconn EXCEPT ![c] = "closed"]
    /\ once' = [once EXCEPT ![c] = "cancel"]
    /\ UNCHANGED <<serverVars, serveVars, acc, ctx, cause, handler, stopVars>>

CloseCancel(c) ==
    /\ once[c] = "cancel"
    /\ ctx' = [ctx EXCEPT ![c] = OrElse(@, cause[c])]
    /\ once' = [once EXCEPT ![c] = "done"]
    /\ cause' = [cause EXCEPT ![c] = "live"]
    /\ UNCHANGED <<serverVars, serveVars, acc, tconn, handler, stopVars>>

-------------------------------------------------------------------------------
(* serveSession: run the handler, then the deferred closeWith, wg.Done.    *)

\* A handler given to Serve returns when it likes; legacyHandler, which
\* StartListener runs, waits for the end of the session's context.
HandlerReturns(c) ==
    /\ handler[c] = "running"
    /\ Background => ctx[c] # "live"
    /\ handler' = [handler EXCEPT ![c] = "closing"]
    /\ CloseWith(c, "ErrSessionClosed")
    /\ UNCHANGED <<serverVars, serveVars, acc, tconn, ctx, stopVars>>

HandlerLeaves(c) ==
    /\ handler[c] = "closing" /\ once[c] = "done"
    /\ handler' = [handler EXCEPT ![c] = "done"]
    /\ wg' = wg - 1
    /\ UNCHANGED <<stopped, active, byAddr, sctx, serveVars, acc, tconn, ctx,
                   once, cause, stopVars>>

-------------------------------------------------------------------------------
(* The beginning and the end of Serve, which every transport writes alike. *)

\* Listen, first thing in Serve and StartListener; binding may fail.
Listen ==
    /\ serve = "init"
    /\ \/ serve' = "enter" /\ ln' = "open"
       \/ serve' = "returned" /\ UNCHANGED ln
    /\ UNCHANGED <<serverVars, vctx, watch, unblock, sessionVars, stopVars>>

\* enter, then serveContext.
ServeEnter(next) ==
    /\ serve = "enter" /\ ~stopped
    /\ serve' = next
    /\ wg' = wg + 1
    /\ vctx' \in IF Background THEN {sctx}
                 ELSE IF AppCancels THEN {"live", "Application"} ELSE {"live"}
    /\ watch' = IF sctx = "live" THEN "armed" ELSE "fired"
    /\ UNCHANGED <<stopped, active, byAddr, sctx, unblock, ln, sessionVars, stopVars>>

\* The AfterFunc that unblocks the accept call is registered.
ServeRegister ==
    /\ serve = "register"
    /\ serve' = "accept"
    /\ unblock' = IF vctx = "live" THEN "armed" ELSE "fired"
    /\ UNCHANGED <<serverVars, vctx, watch, ln, sessionVars, stopVars>>

\* The server was stopped first: Serve returns ErrServerStopped.
ServeRefused ==
    /\ serve = "enter" /\ stopped
    /\ serve' = "returned"
    /\ UNCHANGED <<serverVars, vctx, watch, unblock, ln, sessionVars, stopVars>>

\* The deferred calls: unblock(); serveContext's function, which withdraws the AfterFunc
\* on the server's context and then ends Serve's own; wg.Done().
ServeUnblock ==
    /\ serve = "unblock"
    /\ serve' = "unwatch"
    /\ unblock' = IF unblock = "armed" THEN "off" ELSE unblock
    /\ UNCHANGED <<serverVars, vctx, watch, ln, sessionVars, stopVars>>

ServeUnwatch ==
    /\ serve = "unwatch"
    /\ serve' = "cancel"
    /\ watch' = IF watch = "armed" THEN "off" ELSE watch
    /\ UNCHANGED <<serverVars, vctx, unblock, ln, sessionVars, stopVars>>

ServeForgetsCancel ==
    /\ serve = "cancel"
    /\ serve' = "leave"
    /\ UNCHANGED <<serverVars, vctx, watch, unblock, ln, sessionVars, stopVars>>
ServeCancel ==
    /\ serve = "cancel"
    /\ serve' = "leave"
    /\ CancelServe("Canceled")
    /\ UNCHANGED <<serverVars, watch, ln, acc, tconn, once, cause, handler, stopVars>>

ServeLeave ==
    /\ serve = "leave"
    /\ serve' = "returned"
    /\ wg' = wg - 1
    /\ UNCHANGED <<stopped, active, byAddr, sctx, vctx, watch, unblock, ln,
                   sessionVars, stopVars>>

\* closeListener, which every transport has: nothing happens before Listen.
CloseListener == ln' = IF ln = "open" THEN "closed" ELSE ln

\* Serve's AfterFunc: its context ended, so make Accept return.
RunUnblock ==
    /\ unblock = "fired"
    /\ unblock' = "done"
    /\ CloseListener
    /\ UNCHANGED <<serverVars, serve, vctx, watch, sessionVars, stopVars>>

-------------------------------------------------------------------------------
(* Steps of the accept path, which a transport puts in order.              *)

\* The atomic Add of tryAdmit decides; a full server takes it back.
TryAdmitLate(c) ==
    /\ acc[c] = "admit"
    /\ active' = active + 1
    /\ acc' = [acc EXCEPT ![c] = IF active > MaxConnections THEN "full" ELSE "enter"]
    /\ UNCHANGED <<stopped, wg, byAddr, sctx, serveVars, tconn, ctx, once, cause,
                   handler, stopVars>>
TryAdmitBelow(c) ==
    /\ acc[c] = "admit"
    /\ active' = active + 1
    /\ acc' = [acc EXCEPT ![c] = IF active' >= MaxConnections THEN "full" ELSE "enter"]
    /\ UNCHANGED <<stopped, wg, byAddr, sctx, serveVars, tconn, ctx, once, cause,
                   handler, stopVars>>
TryAdmit(c) ==
    /\ acc[c] = "admit"
    /\ active' = active + 1
    /\ acc' = [acc EXCEPT ![c] = IF active' > MaxConnections THEN "full" ELSE "enter"]
    /\ UNCHANGED <<stopped, wg, byAddr, sctx, serveVars, tconn, ctx, once, cause,
                   handler, stopVars>>

\* Close the connection of an attempt that becomes no session, if it has one:
\* a UDP address has none, a WebSocket only after its upgrade.
CloseConn(c) == tconn' = [tconn EXCEPT ![c] = IF @ = "open" THEN "closed" ELSE @]

RejectFull(c) ==
    /\ acc[c] = "full"
    /\ active' = active - 1
    /\ acc' = [acc EXCEPT ![c] = "rejected"]
    /\ CloseConn(c)
    /\ UNCHANGED <<stopped, wg, byAddr, sctx, serveVars, ctx, once, cause, handler,
                   stopVars>>

\* enter, under mu; refused once StopListener has started.
EnterUnchecked(c, next) ==
    /\ acc[c] = "enter"
    /\ wg' = wg + 1
    /\ acc' = [acc EXCEPT ![c] = next]
    /\ UNCHANGED <<stopped, active, byAddr, sctx, serveVars, tconn, ctx, once, cause,
                   handler, stopVars>>
Enter(c, next) ==
    /\ acc[c] = "enter" /\ ~stopped
    /\ wg' = wg + 1
    /\ acc' = [acc EXCEPT ![c] = next]
    /\ UNCHANGED <<stopped, active, byAddr, sctx, serveVars, tconn, ctx, once, cause,
                   handler, stopVars>>

RefuseKeepingSlot(c) ==
    /\ acc[c] = "enter" /\ stopped
    /\ acc' = [acc EXCEPT ![c] = "rejected"]
    /\ CloseConn(c)
    /\ UNCHANGED <<serverVars, serveVars, ctx, once, cause, handler, stopVars>>
RefuseAfterAdd(c) ==
    /\ acc[c] = "enter" /\ stopped
    /\ active' = active - 1
    /\ wg' = wg + 1
    /\ acc' = [acc EXCEPT ![c] = "rejected"]
    /\ CloseConn(c)
    /\ UNCHANGED <<stopped, byAddr, sctx, serveVars, ctx, once, cause, handler,
                   stopVars>>
Refuse(c) ==
    /\ acc[c] = "enter" /\ stopped
    /\ active' = active - 1
    /\ acc' = [acc EXCEPT ![c] = "rejected"]
    /\ CloseConn(c)
    /\ UNCHANGED <<stopped, wg, byAddr, sctx, serveVars, ctx, once, cause, handler,
                   stopVars>>

\* An attempt that has been admitted fails (no stream opened, no upgrade): the slot
\* is released and then the goroutine ends.
HandshakeFailsKeeping(c) ==
    /\ acc[c] = "handshake"
    /\ acc' = [acc EXCEPT ![c] = "failed"]
    /\ CloseConn(c)
    /\ UNCHANGED <<serverVars, serveVars, ctx, once, cause, handler, stopVars>>
HandshakeFails(c) ==
    /\ acc[c] = "handshake"
    /\ acc' = [acc EXCEPT ![c] = "failed"]
    /\ active' = active - 1
    /\ CloseConn(c)
    /\ UNCHANGED <<stopped, wg, byAddr, sctx, serveVars, ctx, once, cause, handler,
                   stopVars>>

HandshakeDone(c) ==
    /\ acc[c] = "handshake"
    /\ acc' = [acc EXCEPT ![c] = "create"]
    /\ UNCHANGED <<serverVars, serveVars, tconn, ctx, once, cause, handler, stopVars>>

FailedStays(c) ==
    /\ acc[c] = "failed"
    /\ acc' = [acc EXCEPT ![c] = "rejected"]
    /\ UNCHANGED <<serverVars, serveVars, tconn, ctx, once, cause, handler, stopVars>>
FailedLeaves(c) ==
    /\ acc[c] = "failed"
    /\ acc' = [acc EXCEPT ![c] = "rejected"]
    /\ wg' = wg - 1
    /\ UNCHANGED <<stopped, active, byAddr, sctx, serveVars, tconn, ctx, once, cause,
                   handler, stopVars>>

\* newSession: a child of Serve's context, already over if that one is.
NewSessionDetached(c) ==
    /\ acc[c] = "create"
    /\ acc' = [acc EXCEPT ![c] = "add"]
    /\ tconn' = [tconn EXCEPT ![c] = "open"]
    /\ UNCHANGED <<serverVars, serveVars, ctx, once, cause, handler, stopVars>>
NewSession(c) ==
    /\ acc[c] = "create"
    /\ acc' = [acc EXCEPT ![c] = "add"]
    /\ ctx' = [ctx EXCEPT ![c] = vctx]
    /\ tconn' = [tconn EXCEPT ![c] = "open"]
    /\ UNCHANGED <<serverVars, serveVars, once, cause, handler, stopVars>>

\* server.add, under mu: the newest session of an address is the registered one.
AddSession(c) ==
    /\ acc[c] = "add"
    /\ byAddr' = [byAddr EXCEPT ![AddrOf[c]] = c]
    /\ acc' = [acc EXCEPT ![c] = "spawn"]
    /\ UNCHANGED <<stopped, active, wg, sctx, serveVars, tconn, ctx, once, cause,
                   handler, stopVars>>

Spawn(c) ==
    /\ acc[c] = "spawn"
    /\ acc' = [acc EXCEPT ![c] = "served"]
    /\ handler' = [handler EXCEPT ![c] = "running"]
    /\ UNCHANGED <<serverVars, serveVars, tconn, ctx, once, cause, stopVars>>

-------------------------------------------------------------------------------
(* server.stop: refuse new work, end the context, close the listener,      *)
(* close every session registered at the start, wait for all goroutines.   *)

StopBegin(s) ==
    /\ stop[s] = "idle"
    /\ stop' = [stop EXCEPT ![s] = "cancel"]
    /\ stopped' = TRUE
    /\ snapshot' = [snapshot EXCEPT ![s] = {c \in Conn : Registered(c)}]
    /\ UNCHANGED <<active, wg, byAddr, sctx, serveVars, sessionVars, closing>>

StopCancel(s) ==
    /\ stop[s] = "cancel"
    /\ stop' = [stop EXCEPT ![s] = "listener"]
    /\ CancelServer("ErrServerStopped")
    /\ UNCHANGED <<stopped, active, wg, byAddr, serve, ln, acc, tconn, once, cause,
                   handler, snapshot, closing>>

StopCloseListener(s) ==
    /\ stop[s] = "listener"
    /\ stop' = [stop EXCEPT ![s] = "sessions"]
    /\ CloseListener
    /\ UNCHANGED <<serverVars, serve, vctx, watch, unblock, sessionVars, snapshot,
                   closing>>

StopCloseSession(s) ==
    /\ stop[s] = "sessions" /\ closing[s] = None
    /\ \E c \in snapshot[s] :
          /\ closing' = [closing EXCEPT ![s] = c]
          /\ snapshot' = [snapshot EXCEPT ![s] = @ \ {c}]
          /\ CloseWith(c, "ErrServerStopped")
    /\ UNCHANGED <<serverVars, serveVars, acc, tconn, ctx, handler, stop>>

StopSessionClosed(s) ==
    /\ closing[s] # None /\ once[closing[s]] = "done"
    /\ closing' = [closing EXCEPT ![s] = None]
    /\ UNCHANGED <<serverVars, serveVars, sessionVars, stop, snapshot>>

StopWait(s) ==
    /\ stop[s] = "sessions" /\ closing[s] = None /\ snapshot[s] = {}
    /\ stop' = [stop EXCEPT ![s] = "wait"]
    /\ UNCHANGED <<serverVars, serveVars, sessionVars, snapshot, closing>>

StopReturnsEarly(s) ==
    /\ stop[s] = "wait"
    /\ stop' = [stop EXCEPT ![s] = "returned"]
    /\ UNCHANGED <<serverVars, serveVars, sessionVars, snapshot, closing>>
StopReturns(s) ==
    /\ stop[s] = "wait" /\ wg = 0
    /\ stop' = [stop EXCEPT ![s] = "returned"]
    /\ UNCHANGED <<serverVars, serveVars, sessionVars, snapshot, closing>>

StopSteps(s) ==
    \/ StopBegin(s) \/ StopCancel(s)
    \/ StopCloseSession(s) \/ StopSessionClosed(s) \/ StopWait(s) \/ StopReturns(s)

CloseSteps(c) == CloseRemove(c) \/ CloseRelease(c) \/ CloseTransport(c) \/ CloseCancel(c)

\* What is the same for every transport.
Shared ==
    \/ Listen \/ ServeRefused \/ ServeUnblock \/ ServeUnwatch \/ ServeCancel
    \/ ServeLeave \/ RunWatch \/ ParentEnds \/ CallerCancels
    \/ \E c \in Conn :
          \/ EndSession(c) \/ ContextClosesSession(c) \/ CloseSteps(c) \/ HandlerReturns(c)
    \/ \E s \in Stopper : StopSteps(s)

-------------------------------------------------------------------------------
(* Admission                                                               *)

\* Every connection tryAdmit has counted and nobody has released.
HoldsSlot(c) ==
    \/ acc[c] \in {"full", "enter", "handshake", "create"}
    \/ Created(c) /\ once[c] \in {"open", "remove", "release"}

\* Those that were let in, and those about to be turned away.
Admitted == {c \in Conn : HoldsSlot(c) /\ acc[c] # "full"}
Away == {c \in Conn : acc[c] = "full"}

\* The counter of tryAdmit and release is exact: each reserved slot is given
\* back once, whichever of the refusal in enter, the handler, StopListener and
\* the ended context comes first, so it neither drifts up (a server that ends
\* up rejecting everybody) nor down (one that admits too many).
SlotAccounting == active = Cardinality({c \in Conn : HoldsSlot(c)})

\* ServerConfig.MaxConnections is never exceeded, although the counter itself
\* overshoots while a connection is being rejected.
AdmissionLimit == Cardinality(Admitted) <= MaxConnections

\* The promise of MaxConnections in full: a connection is turned away only while
\* MaxConnections others are in.
Slots == INSTANCE Admission WITH
            Max  <- MaxConnections,
            in   <- Admitted,
            away <- Away
ImplementsAdmission == Slots!Spec

-------------------------------------------------------------------------------
(* Stopping                                                                *)

ServeRunning == serve \in {"register", "accept", "unblock", "unwatch", "cancel", "leave"}

\* The goroutine of session c, or the accept path about to start it.
Counted(c) ==
    \/ acc[c] \in {"handshake", "failed", "create", "add", "spawn"}
    \/ handler[c] \in {"running", "closing"}

\* server.wg counts the Serve loop and each session goroutine exactly once, from
\* enter (before the goroutine exists) to its Done, on every path.
WgAccounting ==
    wg = Cardinality({c \in Conn : Counted(c)}) + (IF ServeRunning THEN 1 ELSE 0)

\* Both counters at once: releases and Dones that a transport writes by hand
\* (no stream, no codec, failed upgrade) do neither too little nor too much.
Accounting == SlotAccounting /\ WgAccounting

\* "StopListener stops accepting, closes every session and waits for them"
\* (tcp.go:142): once any call of it has returned, and for good, Serve is over,
\* every handler has returned and every session is closed, also those that were
\* being accepted when it was called or that had lost their place in byAddr.
StopComplete ==
    (\E s \in Stopper : stop[s] = "returned") =>
        /\ ~ServeRunning
        /\ \A c \in Conn : Created(c) =>
              /\ handler[c] = "done" /\ once[c] = "done"
              /\ tconn[c] = "closed" /\ ctx[c] # "live"

\* What a goroutine counted in wg waits on: its session's context or, before there is a
\* session, Serve's, of which AcceptStream has a child (quic.go:226; an upgrade waits for
\* its client only, and creates its session with Serve's context).
ContextOf(c) == IF Created(c) THEN ctx[c] ELSE vctx

\* Serve's context is about to end: serveContext's AfterFunc runs, or Serve is between
\* the stop() that withdrew it and cancel(nil) (server.go:93-94).
AboutToCancel == watch = "fired" \/ serve = "cancel"

\* Whatever a StopListener call waits for has been told to end: the accept call, by the
\* closed listener; every goroutine of a connection, also one that has no session yet
\* or starts since, and whichever of AfterFunc and Serve's deferred calls comes first,
\* by its context, which has ended or is a child of the one about to end; and a
\* closeWith that is waited for has begun.  With that, wg.Wait (server.go:154) depends
\* only on handlers that return when their context is done.
StopSent == \E s \in Stopper : stop[s] \in {"sessions", "wait", "returned"}
SessionsHear ==
    /\ StopSent => \A c \in Conn : Counted(c) => ContextOf(c) # "live" \/ AboutToCancel
    /\ \A c \in Conn : handler[c] = "closing" => once[c] # "open"
    /\ \A s \in Stopper : closing[s] # None => once[closing[s]] # "open"
AcceptHears == StopSent /\ ServeRunning => ln = "closed"
StopIsHeard == SessionsHear /\ AcceptHears

\* "nothing new starts during shutdown" (server.go:40): no step adds to wg once
\* stopped is set, so that Wait never races an Add.
NothingStartsAfterStop == [][stopped => wg' <= wg]_vars

-------------------------------------------------------------------------------
(* Registry and contexts                                                   *)

Ended(c) == once[c] \notin {"open", "remove"}

\* While Serve's context is live, GetSession and GetActiveSessions hand out no
\* session that has already gone through remove.
RegistryLive ==
    vctx = "live" => \A c \in Conn : Registered(c) => ~Ended(c)

\* A session leaves the registry by its own close or because a newer one from
\* the same address takes its place: an old session's late close must not
\* unregister the session its client has opened since.
KeepsNewer ==
    [][\A c \in Conn : Registered(c) /\ ~Registered(c)' =>
          \/ once[c] = "remove" /\ once'[c] = "release"
          \/ \E d \in Conn \ {c} : acc[d] = "add" /\ Registered(d)']_vars

\* What waking up on Context().Done() lets its reader assume (session.go:207-209).
DoneMeansClosed(c) ==
    Created(c) /\ ctx[c] # "live" => ~Registered(c) /\ tconn[c] = "closed"

\* While Serve's context is live: a session that ended by itself was
\* unregistered and its connection closed before its context was cancelled.
CloseOrder == vctx = "live" => \A c \in Conn : DoneMeansClosed(c)

-------------------------------------------------------------------------------
(* Progress                                                                *)

\* StopListener returns, whatever is being accepted, closed or cancelled when it
\* is called, provided handlers return when their context ends.
StopTerminates == \A s \in Stopper : stop[s] = "cancel" ~> stop[s] = "returned"

\* A session whose context ended, for whatever reason, gets its connection closed
\* and gives its slot back: nothing relies on the client or the handler.
EndedIsClosed ==
    \A c \in Conn : Created(c) /\ ctx[c] # "live" ~> tconn[c] = "closed" /\ ~HoldsSlot(c)

-------------------------------------------------------------------------------
(* What a comment or the README says and the code does not keep: TLC       *)
(* refutes each of these when it is added to the run named.                *)

\* TcpAdmission: GetActiveSessions "returns the open sessions" (server.go:120).  A
\* context that ends between newSession and add lets a closed session be registered.
RegistryOnlyOpen == \A c \in Conn : Registered(c) => ~Ended(c)

\* TcpReconnect: "The context is cancelled last" (session.go:207-209).  When a
\* parent context ends, the session's is done before closeWith has started.
ContextCancelledLast == \A c \in Conn : DoneMeansClosed(c)

\* TcpAdmission: the causes README.md:505 lists for a closed session.  Serve's
\* deferred cancel(nil) may come before the AfterFunc that passes the server's
\* cause on, and the sessions end with a bare context.Canceled.
StopCauseDocumented ==
    [][sctx = "ErrServerStopped" =>
          \A c \in Conn : Created(c) /\ ctx[c] = "live" => ctx'[c] # "Canceled"]_vars

\* TcpAdmission: "StopListener stops accepting" (tcp.go:142).  Called before Serve
\* has bound its socket, it leaves the socket open.
StoppedMeansUnbound ==
    (\E s \in Stopper : stop[s] = "returned") /\ serve = "returned" => ln # "open"

===============================================================================
