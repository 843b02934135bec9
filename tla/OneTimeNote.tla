----------------------------- MODULE OneTimeNote -----------------------------
(***************************************************************************)
(* What the service promises, without tickets, clocks or databases: a note *)
(* is sealed, and from then on it can be burned at most once.  Burning     *)
(* removes the note from the store in the same step that hands it to one   *)
(* opener; the opener gives it to one reader or loses it; a sealed note    *)
(* may also be dropped (expiry).  A note that left the store never returns.*)
(***************************************************************************)
EXTENDS Naturals

CONSTANT Ids        \* names under which notes are sealed

VARIABLES
    count,          \* how many notes were sealed under each id so far
    sealed,         \* notes in the store; the n-th note of an id is <<id, n>>
    held,           \* burned notes on their way to a reader
    given           \* notes that reached a reader

notes == <<count, sealed, held, given>>

Init ==
    /\ count = [id \in Ids |-> 0]
    /\ sealed = {} /\ held = {} /\ given = {}

\* No unopened note is overwritten: an id is free when it is sealed again.
Seal(id) ==
    /\ \A n \in sealed : n[1] # id
    /\ count' = [count EXCEPT ![id] = @ + 1]
    /\ sealed' = sealed \cup {<<id, count[id] + 1>>}
    /\ UNCHANGED <<held, given>>

Burn(n) ==
    /\ n \in sealed
    /\ sealed' = sealed \ {n}
    /\ held' = held \cup {n}
    /\ UNCHANGED <<count, given>>

Give(n) ==
    /\ n \in held
    /\ held' = held \ {n}
    /\ given' = given \cup {n}
    /\ UNCHANGED <<count, sealed>>

Drop(gone) ==
    /\ gone \subseteq sealed
    /\ sealed' = sealed \ gone
    /\ UNCHANGED <<count, held, given>>

Lose(gone) ==
    /\ gone \subseteq held
    /\ held' = held \ gone
    /\ UNCHANGED <<count, sealed, given>>

Next ==
    \/ \E id \in Ids : Seal(id)
    \/ \E n \in sealed : Burn(n)
    \/ \E n \in held : Give(n)
    \/ \E gone \in SUBSET sealed : Drop(gone)
    \/ \E gone \in SUBSET held : Lose(gone)

Spec == Init /\ [][Next]_notes
=============================================================================
