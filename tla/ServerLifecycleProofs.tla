------------------------ MODULE ServerLifecycleProofs ------------------------
(***************************************************************************)
(* That the database outlives everyone who uses it and that the result of  *)
(* run tells whether serving failed, for any number of requests.           *)
(***************************************************************************)
EXTENDS ServerLifecycle, TLAPS

\* Every variable keeps its type.
TypeOK ==
    /\ main \in {"listen", "wait", "shutdown", "join", "receive", "close", "exit", "exited"}
    /\ serve \in {"off", "serving", "closed", "failed", "sent", "done"}
    /\ cleanup \in {"off", "select", "cleaning", "done"}
    /\ handler \in [Handlers -> {"none", "running", "failing"}]
    /\ serveErr \in {"empty", "nil", "error"}
    /\ db \in {"open", "closed"} /\ result \in {"none", "ok", "error"}
    /\ hasGrace \in BOOLEAN /\ ctxDone \in BOOLEAN /\ inShutdown \in BOOLEAN
    /\ signalled \in BOOLEAN /\ listenFailed \in BOOLEAN /\ serveFailed \in BOOLEAN
    /\ graceExpired \in BOOLEAN

\* The main goroutine has Shutdown and Close behind it, and wg.Wait too.
AfterShutdown == main \in {"join", "receive", "close", "exit", "exited"}
AfterWait     == main \in {"receive", "close", "exit", "exited"}
AtTheEnd      == main \in {"close", "exit", "exited"}

\* The two goroutines exist from a successful net.Listen on, and are over when
\* wg.Wait has returned.
GoroutineInv ==
    /\ main = "listen" => ~listenFailed
    /\ main = "listen" \/ listenFailed <=> serve = "off"
    /\ serve = "off" <=> cleanup = "off"
    /\ listenFailed => AtTheEnd
    /\ AfterWait /\ serve # "off" => serve = "done" /\ cleanup = "done"

\* No request is under way when Shutdown has returned before its timeout, and
\* none begins after Shutdown was called.
RequestInv ==
    /\ serve = "off" => Busy = {}
    /\ main = "shutdown" \/ (AfterShutdown /\ serve # "off") => inShutdown
    /\ AfterShutdown => Busy = {} \/ graceExpired
    /\ graceExpired => hasGrace
    /\ db = "closed" => main \in {"exit", "exited"}
    /\ \A h \in Handlers : handler[h] = "failing" => db = "closed"

\* The error of Serve is in the goroutine, in the channel or in the result.
ErrorInv ==
    /\ serve \in {"off", "serving", "closed"} => ~serveFailed
    /\ serve = "failed" => serveFailed
    /\ serve \in {"sent", "done"} /\ ~AtTheEnd =>
          serveErr = IF serveFailed THEN "error" ELSE "nil"
    /\ AtTheEnd => result = IF listenFailed \/ serveFailed THEN "error" ELSE "ok"

Inv == TypeOK /\ GoroutineInv /\ RequestInv /\ ErrorInv

-----------------------------------------------------------------------------
\* What a state must satisfy to begin with.
LEMMA InitInv == Init => Inv
BY DEF Init, Inv, TypeOK, GoroutineInv, RequestInv, ErrorInv, AfterShutdown, AfterWait,
       AtTheEnd, Busy

\* Every step of a goroutine, a handler or a signal keeps the invariant.
LEMMA NextInv == Inv /\ [Next]_vars => Inv'
<1> SUFFICES ASSUME Inv, [Next]_vars PROVE Inv'
  OBVIOUS
<1> USE DEF Inv, TypeOK, GoroutineInv, RequestInv, ErrorInv, AfterShutdown, AfterWait, AtTheEnd,
            Busy, history
<1>1. CASE Listen
  <2>1. CASE /\ main' = "wait" /\ serve' = "serving" /\ cleanup' = "select"
             /\ UNCHANGED <<result, listenFailed>>
    BY <1>1, <2>1 DEF Listen
  <2>2. CASE /\ main' = "close" /\ result' = "error" /\ listenFailed' = TRUE
             /\ UNCHANGED <<serve, cleanup>>
    BY <1>1, <2>2 DEF Listen
  <2> QED
    BY <1>1, <2>1, <2>2 DEF Listen
<1>2. CASE BeginShutdown
  BY <1>2 DEF BeginShutdown
<1>3. CASE ShutdownReturns
  BY <1>3 DEF ShutdownReturns
<1>4. CASE GraceExpires
  BY <1>4 DEF GraceExpires
<1>5. CASE Join
  BY <1>5 DEF Join
<1>6. CASE Receive
  BY <1>6 DEF Receive
<1>7. CASE CloseDB
  BY <1>7 DEF CloseDB
<1>8. CASE Exit
  BY <1>8 DEF Exit
<1>9. CASE ServeReturns
  <2>1. CASE inShutdown /\ serve' = "closed" /\ UNCHANGED serveFailed
    BY <1>9, <2>1 DEF ServeReturns
  <2>2. CASE ~inShutdown /\ serve' = "failed" /\ serveFailed' = TRUE
    BY <1>9, <2>2 DEF ServeReturns
  <2> QED
    BY <1>9, <2>1, <2>2 DEF ServeReturns
<1>10. CASE SendServeErr
  BY <1>10 DEF SendServeErr
<1>11. CASE CancelContext
  BY <1>11 DEF CancelContext
<1>12. CASE TickerFires
  BY <1>12 DEF TickerFires
<1>13. CASE CleanupReturns
  BY <1>13 DEF CleanupReturns
<1>14. CASE CleanupStops
  BY <1>14 DEF CleanupStops
<1>15. ASSUME NEW h \in Handlers, StartRequest(h) PROVE Inv'
  BY <1>15 DEF StartRequest
<1>16. ASSUME NEW h \in Handlers, UseDatabase(h) PROVE Inv'
  BY <1>16 DEF UseDatabase
<1>17. ASSUME NEW h \in Handlers, FinishRequest(h) PROVE Inv'
  BY <1>17 DEF FinishRequest
<1>18. CASE Signal
  BY <1>18 DEF Signal
<1>19. CASE UNCHANGED vars
  BY <1>19 DEF vars
<1> QED
  BY <1>1, <1>2, <1>3, <1>4, <1>5, <1>6, <1>7, <1>8, <1>9, <1>10, <1>11, <1>12, <1>13,
     <1>14, <1>15, <1>16, <1>17, <1>18, <1>19
     DEF Next, MainStep, ServeStep

\* The invariant holds in every state that the process reaches.
LEMMA Invariance == Spec => []Inv
BY InitInv, NextInv, PTL DEF Spec

\* The cleanup goroutine never meets a closed database, and a request does only
\* if it outlasts the grace period.
THEOREM DatabaseSafe == Spec => []DatabaseOutlivesUsers
<1>1. Inv => DatabaseOutlivesUsers
  BY DEF Inv, GoroutineInv, RequestInv, DatabaseOutlivesUsers, AfterShutdown,
         AfterWait, AtTheEnd, Busy, TypeOK
<1> QED
  BY <1>1, Invariance, PTL

\* run returns an error exactly if the process could not listen or serve.
THEOREM ResultRight == Spec => []ErrorIffServingFailed
<1>1. Inv => ErrorIffServingFailed
  BY DEF Inv, ErrorInv, ErrorIffServingFailed, AtTheEnd, TypeOK
<1> QED
  BY <1>1, Invariance, PTL
=============================================================================
