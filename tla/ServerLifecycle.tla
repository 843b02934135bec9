--------------------------- MODULE ServerLifecycle ---------------------------
(***************************************************************************)
(* The life of the server process after startup (main.go: run, runServer   *)
(* and serveServer): the main goroutine, the goroutine that serves, the    *)
(* goroutine of the cleanup ticker, the handlers of net/http, the context  *)
(* that a signal or the end of serving cancels, and the database that the  *)
(* deferred call in run closes.                                            *)
(***************************************************************************)
EXTENDS Naturals

CONSTANT
    Handlers        \* goroutines of net/http that serve requests

VARIABLES
    hasGrace,       \* GracePeriod > 0: Shutdown is called with a timeout
    main,           \* where the main goroutine is
    serve,          \* where the serving goroutine is
    cleanup,        \* where the cleanup goroutine is
    handler,        \* what each handler is doing
    ctxDone,        \* the context is cancelled
    inShutdown,     \* http.Server.Shutdown or Close was called
    serveErr,       \* the channel of capacity one: "empty", "nil" or "error"
    db,             \* the database handle
    result,         \* what run returns
    signalled, listenFailed, serveFailed, graceExpired    \* history

vars == <<hasGrace, main, serve, cleanup, handler, ctxDone, inShutdown, serveErr, db, result,
          signalled, listenFailed, serveFailed, graceExpired>>

history == <<hasGrace, signalled, listenFailed, serveFailed, graceExpired>>

Busy == {h \in Handlers : handler[h] \in {"running", "failing"}}

-----------------------------------------------------------------------------
(* The main goroutine *)

\* net.Listen, and the start of the two goroutines of serveServer.
Listen ==
    /\ main = "listen"
    /\ \/ /\ main' = "wait" /\ serve' = "serving" /\ cleanup' = "select"
          /\ UNCHANGED <<result, listenFailed>>
       \/ /\ main' = "close" /\ result' = "error" /\ listenFailed' = TRUE
          /\ UNCHANGED <<serve, cleanup>>
    /\ UNCHANGED <<hasGrace, handler, ctxDone, inShutdown, serveErr, db, signalled,
                   serveFailed, graceExpired>>

\* <-ctx.Done(), then Shutdown closes the listener and begins to wait.
BeginShutdown ==
    /\ main = "wait" /\ ctxDone
    /\ main' = "shutdown" /\ inShutdown' = TRUE
    /\ UNCHANGED <<serve, cleanup, handler, ctxDone, serveErr, db, result, history>>

\* Shutdown returns nil when no connection is active.
ShutdownReturns ==
    /\ main = "shutdown" /\ Busy = {}
    /\ main' = "join"
    /\ UNCHANGED <<serve, cleanup, handler, ctxDone, inShutdown, serveErr, db, result, history>>

\* The grace period is over: Shutdown returns the context's error, and Close
\* drops the connections; their handlers go on.
GraceExpires ==
    /\ main = "shutdown" /\ hasGrace
    /\ main' = "join" /\ graceExpired' = TRUE
    /\ UNCHANGED <<serve, cleanup, handler, ctxDone, inShutdown, serveErr, db, result,
                   hasGrace, signalled, listenFailed, serveFailed>>

\* Mutant: the cleanup goroutine is not in the wait group.
JoinServeOnly ==
    /\ main = "join" /\ serve = "done"
    /\ main' = "receive"
    /\ UNCHANGED <<serve, cleanup, handler, ctxDone, inShutdown, serveErr, db, result, history>>

\* wg.Wait: both goroutines have returned.
Join ==
    /\ main = "join" /\ serve = "done" /\ cleanup = "done"
    /\ main' = "receive"
    /\ UNCHANGED <<serve, cleanup, handler, ctxDone, inShutdown, serveErr, db, result, history>>

\* Mutant: the error is dropped.
ReceiveAndForget ==
    /\ main = "receive" /\ serveErr # "empty"
    /\ result' = "ok" /\ serveErr' = "empty" /\ main' = "close"
    /\ UNCHANGED <<serve, cleanup, handler, ctxDone, inShutdown, db, history>>

\* err := <-serveErr
Receive ==
    /\ main = "receive" /\ serveErr # "empty"
    /\ result' = IF serveErr = "error" THEN "error" ELSE "ok"
    /\ serveErr' = "empty" /\ main' = "close"
    /\ UNCHANGED <<serve, cleanup, handler, ctxDone, inShutdown, db, history>>

\* The deferred closeAndLogError(db) of run.
CloseDB ==
    /\ main = "close"
    /\ db' = "closed" /\ main' = "exit"
    /\ UNCHANGED <<serve, cleanup, handler, ctxDone, inShutdown, serveErr, result, history>>

\* run returns, and the process ends with whatever is still running.
Exit ==
    /\ main = "exit"
    /\ main' = "exited" /\ handler' = [h \in Handlers |-> "none"]
    /\ UNCHANGED <<serve, cleanup, ctxDone, inShutdown, serveErr, db, result, history>>

-----------------------------------------------------------------------------
(* The two goroutines of serveServer *)

\* server.Serve returns: ErrServerClosed after Shutdown, or an accept error.
ServeReturns ==
    /\ serve = "serving"
    /\ \/ inShutdown /\ serve' = "closed" /\ UNCHANGED serveFailed
       \/ ~inShutdown /\ serve' = "failed" /\ serveFailed' = TRUE
    /\ UNCHANGED <<main, cleanup, handler, ctxDone, inShutdown, serveErr, db, result,
                   hasGrace, signalled, listenFailed, graceExpired>>

\* Mutant: the channel has no buffer.
SendUnbuffered ==
    /\ serve \in {"closed", "failed"} /\ main = "receive"
    /\ serveErr' = IF serve = "failed" THEN "error" ELSE "nil"
    /\ serve' = "sent"
    /\ UNCHANGED <<main, cleanup, handler, ctxDone, inShutdown, db, result, history>>

\* The send on the buffered channel, which needs no receiver.
SendServeErr ==
    /\ serve \in {"closed", "failed"}
    /\ serveErr = "empty"
    /\ serveErr' = IF serve = "failed" THEN "error" ELSE "nil"
    /\ serve' = "sent"
    /\ UNCHANGED <<main, cleanup, handler, ctxDone, inShutdown, db, result, history>>

\* cancel(), the last thing the serving goroutine does.
CancelContext ==
    /\ serve = "sent"
    /\ ctxDone' = TRUE /\ serve' = "done"
    /\ UNCHANGED <<main, cleanup, handler, inShutdown, serveErr, db, result, history>>

\* The select of the cleanup goroutine: the ticker fires, or the context is
\* done; when both are ready either may be taken.
TickerFires ==
    /\ cleanup = "select" /\ main # "exited"
    /\ cleanup' = "cleaning"
    /\ UNCHANGED <<main, serve, handler, ctxDone, inShutdown, serveErr, db, result, history>>

CleanupReturns ==
    /\ cleanup = "cleaning"
    /\ cleanup' = "select"
    /\ UNCHANGED <<main, serve, handler, ctxDone, inShutdown, serveErr, db, result, history>>

CleanupStops ==
    /\ cleanup = "select" /\ ctxDone
    /\ cleanup' = "done"
    /\ UNCHANGED <<main, serve, handler, ctxDone, inShutdown, serveErr, db, result, history>>

-----------------------------------------------------------------------------
(* Requests and signals *)

\* net/http accepts a request until Shutdown; connections that are kept alive
\* outlast the failure of the listener.
StartRequest(h) ==
    /\ serve # "off" /\ ~inShutdown /\ handler[h] = "none"
    /\ handler' = [handler EXCEPT ![h] = "running"]
    /\ UNCHANGED <<main, serve, cleanup, ctxDone, inShutdown, serveErr, db, result, history>>

\* A transaction of a handler, which fails if the database has been closed.
UseDatabase(h) ==
    /\ handler[h] = "running" /\ db = "closed"
    /\ handler' = [handler EXCEPT ![h] = "failing"]
    /\ UNCHANGED <<main, serve, cleanup, ctxDone, inShutdown, serveErr, db, result, history>>

FinishRequest(h) ==
    /\ h \in Busy
    /\ handler' = [handler EXCEPT ![h] = "none"]
    /\ UNCHANGED <<main, serve, cleanup, ctxDone, inShutdown, serveErr, db, result, history>>

\* SIGINT or SIGTERM cancels the context.
Signal ==
    /\ main # "exited" /\ ~signalled
    /\ signalled' = TRUE /\ ctxDone' = TRUE
    /\ UNCHANGED <<main, serve, cleanup, handler, inShutdown, serveErr, db, result,
                   hasGrace, listenFailed, serveFailed, graceExpired>>

-----------------------------------------------------------------------------
\* The configuration sets a grace period or not.
Init ==
    /\ hasGrace \in BOOLEAN
    /\ main = "listen" /\ serve = "off" /\ cleanup = "off"
    /\ handler = [h \in Handlers |-> "none"]
    /\ ctxDone = FALSE /\ inShutdown = FALSE /\ serveErr = "empty"
    /\ db = "open" /\ result = "none"
    /\ signalled = FALSE /\ listenFailed = FALSE /\ serveFailed = FALSE
    /\ graceExpired = FALSE

MainStep == Listen \/ BeginShutdown \/ ShutdownReturns \/ GraceExpires \/ Join \/ Receive
                \/ CloseDB \/ Exit

ServeStep == ServeReturns \/ SendServeErr \/ CancelContext

Next ==
    \/ MainStep \/ ServeStep
    \/ TickerFires \/ CleanupReturns \/ CleanupStops
    \/ \E h \in Handlers : StartRequest(h) \/ UseDatabase(h) \/ FinishRequest(h)
    \/ Signal

\* Goroutines that can run do run.  The select must take the context's branch
\* in the end: it is always ready, the ticker's only once per interval (SF).
\* Serve returns after Shutdown but owes nobody an accept error.
Spec ==
    /\ Init /\ [][Next]_vars
    /\ WF_vars(MainStep) /\ WF_vars(inShutdown /\ ServeReturns)
    /\ WF_vars(SendServeErr) /\ WF_vars(CancelContext)
    /\ WF_vars(CleanupReturns) /\ SF_vars(CleanupStops)
    /\ \A h \in Handlers : WF_vars(FinishRequest(h))

-----------------------------------------------------------------------------
(* Properties *)

\* The database outlives its users: the ticker's cleanup never meets a closed
\* one, since run closes it after wg.Wait has seen the cleanup goroutine return,
\* and a request does only if it outlasts the grace period; without a grace
\* period Shutdown waits for every request.
DatabaseOutlivesUsers ==
    /\ cleanup = "cleaning" => db = "open"
    /\ (\E h \in Handlers : handler[h] = "failing") => hasGrace /\ graceExpired

\* run returns an error exactly if the process could not listen or serve; a
\* signal, a request that had to be cut off and a late cleanup are no errors.
ErrorIffServingFailed ==
    main = "exited" => (result = "error" <=> listenFailed \/ serveFailed)

\* A signal, or a listener that fails, ends the process: nobody waits for a
\* goroutine that waits for him, at any point of the shutdown.
ProcessEnds == (signalled \/ serveFailed \/ listenFailed) ~> main = "exited"
=============================================================================
