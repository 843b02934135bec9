--------------------------- MODULE CreatePageProofs ---------------------------
(***************************************************************************)
(* What the create page shows, for any number of overlapping attempts: a   *)
(* link that opens the text submitted for it, nothing once it was hidden,  *)
(* and a word about the end of every attempt.                              *)
(***************************************************************************)
EXTENDS CreatePage, TLAPS

\* Every variable keeps its type; a link that is shown has the id of its key.
TypeOK ==
    /\ life \in {"shown", "hidden", "stale"} /\ view \in {"form", "result"}
    /\ text \in Texts \cup {Empty}
    /\ active \in BOOLEAN /\ expiration \in BOOLEAN /\ disabled \in BOOLEAN
    /\ error \in BOOLEAN /\ hasUnsavedDraft \in BOOLEAN
    /\ step \in [Attempts -> Steps] /\ net \in [Attempts -> Message]
    /\ plaintext \in [Attempts -> Texts \cup {Empty}]
    /\ saved \in [Attempts -> Texts \cup {Empty}]

\* The messages that can be on their way at each await of createNote.
NetInv(a) ==
    /\ step[a] = "ticket" =>
          net[a] \in {"ticketRequest", "ticket", "badTicket", "refused", "failed"}
    /\ step[a] = "save" => net[a] \in {"saveRequest", "saved", "otherId", "refused", "failed"}
    /\ step[a] = "read" => net[a] \in {"saved", "otherId"}
    /\ step[a] = "explain" => net[a] = "refused"
    /\ step[a] \in {"new", "encrypt", "done"} => net[a] = "none"

\* An attempt has a text once it goes on, and the server has that text or none.
AttemptInv(a) ==
    /\ NetInv(a)
    /\ Running(a) => plaintext[a] # Empty
    /\ step[a] = "new" => saved[a] = Empty
    /\ saved[a] # Empty => saved[a] = plaintext[a]
    /\ net[a] \in {"saved", "otherId"} => saved[a] # Empty

\* A link is that of an attempt which is over and has its note at the server,
\* and stands in place of the form.
LinkInv ==
    link # Empty => /\ view = "result"
                    /\ \E a \in Attempts : /\ link = [id |-> a, key |-> a]
                                           /\ saved[a] # Empty

Inv == TypeOK /\ (\A a \in Attempts : AttemptInv(a)) /\ LinkInv

-----------------------------------------------------------------------------
\* The page as it is loaded: no attempt, no link.
LEMMA InitInv == Init => Inv
BY TextsAssumption DEF Init, Inv, TypeOK, AttemptInv, LinkInv, NetInv, Running, Steps, Message

\* The handlers of the form, the link and the page itself touch no attempt.
LEMMA FormStepInv ==
    ASSUME Inv, \/ Input \/ SelectExpiration \/ EditCustomExpiration \/ CopyOrShareLink
                \/ PageHide \/ PageShow \/ UNCHANGED vars
    PROVE  Inv'
<1> USE TextsAssumption DEF Inv, TypeOK, AttemptInv, NetInv, LinkInv, Running, form
<1>1. CASE Input
  BY <1>1 DEF Input
<1>2. CASE SelectExpiration
  BY <1>2 DEF SelectExpiration
<1>3. CASE EditCustomExpiration
  BY <1>3 DEF EditCustomExpiration
<1>4. CASE CopyOrShareLink
  BY <1>4 DEF CopyOrShareLink
<1>5. CASE PageHide
  BY <1>5 DEF PageHide
<1>6. CASE PageShow
  BY <1>6 DEF PageShow
<1>7. CASE UNCHANGED vars
  BY <1>7 DEF vars
<1> QED
  BY <1>1, <1>2, <1>3, <1>4, <1>5, <1>6, <1>7

\* A submission takes its text from the field, and goes on only with one.
LEMMA SubmitInv ==
    ASSUME Inv, NEW a \in Attempts, ClickSave(a) \/ CtrlEnter(a)
    PROVE  Inv'
<1> USE TextsAssumption DEF Inv, TypeOK, AttemptInv, LinkInv, Running, form, Steps, Message
<1>1. CreateNote(a) /\ view = "form"
  BY DEF ClickSave, CtrlEnter
<1>2. CASE Rejected
  BY <1>1, <1>2 DEF CreateNote, NetInv
<1>3. CASE ~Rejected
  <2>1. TypeOK'
    BY <1>1, <1>3 DEF CreateNote, NetInv, Rejected
  <2>2. AttemptInv(a)'
    BY <1>1, <1>3 DEF CreateNote, NetInv, Rejected
  <2>3. ASSUME NEW b \in Attempts, b # a PROVE AttemptInv(b)'
    BY <1>1, <1>3, <2>3 DEF CreateNote, NetInv, Rejected
  <2>4. LinkInv'
    BY <1>1, <1>3 DEF CreateNote, NetInv, Rejected
  <2> QED
    BY <2>1, <2>2, <2>3, <2>4
<1> QED
  BY <1>2, <1>3

\* Every continuation of createNote keeps the invariant.
LEMMA ContinuationInv ==
    ASSUME Inv, NEW a \in Attempts, Continuation(a)
    PROVE  Inv'
<1> USE TextsAssumption DEF Inv, TypeOK, AttemptInv, LinkInv, Running, form, Steps, Message,
                            NetInv, Fail, Continue
<1>1. CASE TicketSettles(a)
  <2>1. TypeOK'
    BY <1>1 DEF TicketSettles
  <2>2. AttemptInv(a)'
    BY <1>1 DEF TicketSettles
  <2>3. ASSUME NEW b \in Attempts, b # a PROVE AttemptInv(b)'
    BY <1>1, <2>3 DEF TicketSettles
  <2>4. LinkInv'
    BY <1>1 DEF TicketSettles
  <2> QED
    BY <2>1, <2>2, <2>3, <2>4
<1>2. CASE Encrypt(a)
  <2>1. TypeOK'
    BY <1>2 DEF Encrypt
  <2>2. AttemptInv(a)'
    BY <1>2 DEF Encrypt
  <2>3. ASSUME NEW b \in Attempts, b # a PROVE AttemptInv(b)'
    BY <1>2, <2>3 DEF Encrypt
  <2>4. LinkInv'
    BY <1>2 DEF Encrypt
  <2> QED
    BY <2>1, <2>2, <2>3, <2>4
<1>3. CASE SaveSettles(a)
  <2>1. TypeOK'
    BY <1>3 DEF SaveSettles
  <2>2. AttemptInv(a)'
    BY <1>3 DEF SaveSettles
  <2>3. ASSUME NEW b \in Attempts, b # a PROVE AttemptInv(b)'
    BY <1>3, <2>3 DEF SaveSettles
  <2>4. LinkInv'
    BY <1>3 DEF SaveSettles
  <2> QED
    BY <2>1, <2>2, <2>3, <2>4
<1>4. CASE Explain(a)
  BY <1>4 DEF Explain
<1>5. CASE ReadSaved(a)
  <2>1. CASE Fail(a)
    BY <1>5, <2>1 DEF ReadSaved
  <2>2. CASE SavedId(a) = a /\ active /\ ShowLink(a)
    <3>1. saved[a] # Empty /\ saved' = saved
      BY <1>5 DEF ReadSaved
    <3>2. link' = [id |-> a, key |-> a] /\ view' = "result"
      BY <2>2 DEF ShowLink
    <3>3. LinkInv'
      BY <3>1, <3>2
    <3>4. TypeOK' /\ \A b \in Attempts : AttemptInv(b)'
      BY <1>5, <2>2 DEF ReadSaved, ShowLink
    <3> QED
      BY <3>3, <3>4
  <2>3. CASE /\ SavedId(a) = a /\ ~active
             /\ step' = [step EXCEPT ![a] = "done"]
             /\ disabled' = FALSE
             /\ UNCHANGED <<form, error>>
    BY <1>5, <2>3 DEF ReadSaved
  <2> QED
    BY <1>5, <2>1, <2>2, <2>3 DEF ReadSaved
<1> QED
  BY <1>1, <1>2, <1>3, <1>4, <1>5 DEF Continuation

\* Every answer of the server keeps the invariant.
LEMMA ServerInv ==
    ASSUME Inv, NEW a \in Attempts, Server(a)
    PROVE  Inv'
<1> USE TextsAssumption DEF Inv, TypeOK, AttemptInv, LinkInv, Running, form, Steps, Message,
                            NetInv
<1>1. CASE ServerIssuesTicket(a)
  BY <1>1 DEF ServerIssuesTicket
<1>2. CASE ServerSaves(a)
  BY <1>2 DEF ServerSaves
<1> QED
  BY <1>1, <1>2 DEF Server

\* So does every step.
LEMMA NextInv == Inv /\ [Next]_vars => Inv'
BY FormStepInv, SubmitInv, ContinuationInv, ServerInv DEF Next

\* The invariant holds in every state that the page reaches.
LEMMA Invariance == Spec => []Inv
BY InitInv, NextInv, PTL DEF Spec

\* The link in the page opens the text that was submitted for it.
THEOREM LinkRight == Spec => []LinkIsSaved
<1>1. Inv => LinkIsSaved
  BY DEF Inv, LinkInv, AttemptInv, LinkIsSaved
<1> QED
  BY <1>1, Invariance, PTL

\* A page that was hidden shows neither a text nor a link.
THEOREM HiddenPageSilent == Spec => []HiddenPageEmpty
<1> USE DEF HiddenPageEmpty, form
<1>1. Init => HiddenPageEmpty
  BY DEF Init
<1>2. ASSUME HiddenPageEmpty, [Next]_vars PROVE HiddenPageEmpty'
  <2> USE <1>2
  <2>1. CASE Input
    BY <2>1 DEF Input
  <2>2. CASE SelectExpiration \/ EditCustomExpiration \/ CopyOrShareLink
    BY <2>2 DEF SelectExpiration, EditCustomExpiration, CopyOrShareLink
  <2>3. CASE PageHide
    BY <2>3 DEF PageHide
  <2>4. CASE PageShow
    BY <2>4 DEF PageShow
  <2>5. ASSUME NEW a \in Attempts, ClickSave(a) \/ CtrlEnter(a) PROVE HiddenPageEmpty'
    BY <2>5 DEF ClickSave, CtrlEnter, CreateNote
  <2>6. ASSUME NEW a \in Attempts, Continuation(a) PROVE HiddenPageEmpty'
    BY <2>6 DEF Continuation, TicketSettles, Encrypt, SaveSettles, Explain, ReadSaved,
                ShowLink, Fail, Continue
  <2>7. ASSUME NEW a \in Attempts, Server(a) PROVE HiddenPageEmpty'
    BY <2>7 DEF Server, ServerIssuesTicket, ServerSaves
  <2>8. CASE UNCHANGED vars
    BY <2>8 DEF vars
  <2> QED
    BY <2>1, <2>2, <2>3, <2>4, <2>5, <2>6, <2>7, <2>8 DEF Next
<1> QED
  BY <1>1, <1>2, PTL DEF Spec

\* No submission begins in a page that shows a link.
THEOREM LinkKept == Spec => NoAttemptAfterLink
<1>1. ASSUME Inv, [Next]_vars, NEW a \in Attempts, link # Empty, step[a] = "new"
      PROVE  step'[a] = "new"
  <2>1. view = "result"
    BY <1>1 DEF Inv, LinkInv
  <2>2. step \in [Attempts -> Steps]
    BY <1>1 DEF Inv, TypeOK
  <2>3. CASE UNCHANGED step
    BY <1>1, <2>3
  <2>4. ASSUME NEW b \in Attempts, Continuation(b) PROVE step'[a] = "new"
    <3>1. step[b] # "new" /\ \E s \in Steps : step' = [step EXCEPT ![b] = s]
      BY <2>4 DEF Continuation, TicketSettles, Encrypt, SaveSettles, Explain, ReadSaved,
                  ShowLink, Fail, Continue, Steps
    <3> QED
      BY <1>1, <2>2, <3>1
  <2> QED
    BY <1>1, <2>1, <2>3, <2>4
       DEF Next, vars, Input, SelectExpiration, EditCustomExpiration, CopyOrShareLink, PageHide,
           PageShow, ClickSave, CtrlEnter, Server, ServerIssuesTicket, ServerSaves
<1>2. Inv /\ [Next]_vars =>
         [\A a \in Attempts : link # Empty /\ step[a] = "new" => step'[a] = "new"]_vars
  BY <1>1
<1> QED
  BY <1>2, Invariance, PTL DEF Spec, NoAttemptAfterLink

\* The end of an attempt is told in a page that is still active.
THEOREM OutcomeTold == Spec => OutcomeReported
<1>1. ASSUME Inv, [Next]_vars, NEW a \in Attempts,
             step[a] # "done", step'[a] = "done", active
      PROVE  error' \/ (link' = [id |-> a, key |-> a] /\ view' = "result")
  <2>1. step \in [Attempts -> Steps]
    BY <1>1 DEF Inv, TypeOK
  <2>2. CASE UNCHANGED step
    BY <1>1, <2>2
  <2>3. ASSUME NEW b \in Attempts, CreateNote(b)
        PROVE  error' \/ (link' = [id |-> a, key |-> a] /\ view' = "result")
    BY <1>1, <2>1, <2>3 DEF CreateNote
  <2>4. ASSUME NEW b \in Attempts, Continuation(b)
        PROVE  error' \/ (link' = [id |-> a, key |-> a] /\ view' = "result")
    <3>1. CASE b # a
      BY <1>1, <2>1, <2>4, <3>1
         DEF Continuation, TicketSettles, Encrypt, SaveSettles, Explain, ReadSaved, ShowLink,
             Fail, Continue
    <3>2. CASE b = a
      <4>1. CASE Fail(a)
        BY <4>1 DEF Fail
      <4>2. CASE ~Fail(a)
        BY <1>1, <2>1, <2>4, <3>2, <4>2
           DEF Continuation, TicketSettles, Encrypt, SaveSettles, Explain, ReadSaved, ShowLink,
               Continue
      <4> QED
        BY <4>1, <4>2
    <3> QED
      BY <3>1, <3>2
  <2> QED
    BY <1>1, <2>2, <2>3, <2>4
       DEF Next, vars, Input, SelectExpiration, EditCustomExpiration, CopyOrShareLink, PageHide,
           PageShow, ClickSave, CtrlEnter, Server, ServerIssuesTicket, ServerSaves
<1>2. Inv /\ [Next]_vars =>
         [\A a \in Attempts : step[a] # "done" /\ step'[a] = "done" /\ active =>
             error' \/ (link' = [id |-> a, key |-> a] /\ view' = "result")]_vars
  BY <1>1
<1> QED
  BY <1>2, Invariance, PTL DEF Spec, OutcomeReported
=============================================================================
