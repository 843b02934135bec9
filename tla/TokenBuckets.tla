----------------------------- MODULE TokenBuckets -----------------------------
(***************************************************************************)
(* What the rate limiter promises: every client has a token bucket of its  *)
(* own that fills with time and pays for each admitted request.  A bucket  *)
(* is forgotten, and so is full again, only after SweepAge without a       *)
(* request, or, one at a time, after IdleAge when the table of clients is  *)
(* full.  To stay with whole numbers a request costs Window units and      *)
(* Requests units flow in per clock tick.                                  *)
(***************************************************************************)
EXTENDS Naturals

CONSTANTS Clients, Requests, Window, Burst, SweepAge, IdleAge

VARIABLE level        \* units in the bucket of each client

Cap == Burst * Window

AtMost(a, b) == IF a =< b THEN a ELSE b

Init == level = [c \in Clients |-> Cap]

\* Time passes.
Fill == level' = [c \in Clients |-> AtMost(Cap, level[c] + Requests)]

\* The clients whose bucket holds what flows in during the given time: all those
\* without a request for so long are among them.
Regained(age) == {c \in Clients : level[c] >= AtMost(Cap, age * Requests)}

\* A request of client c is admitted, which costs a token, or refused, after the
\* buckets in swept, c's among them or not, and those in evicted start afresh.
Serve(c, cost, swept, evicted) ==
    LET fresh == [d \in Clients |-> IF d \in swept \cup evicted THEN Cap ELSE level[d]] IN
    /\ c \notin evicted
    /\ cost =< fresh[c]
    /\ level' = [fresh EXCEPT ![c] = @ - cost]

Next ==
    \/ Fill
    \/ \E c \in Clients, cost \in {0, Window}, swept \in SUBSET Regained(SweepAge),
          evicted \in {{}} \cup {{d} : d \in Regained(IdleAge)} :
             Serve(c, cost, swept, evicted)

Spec == Init /\ [][Next]_level
=============================================================================
