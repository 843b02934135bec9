------------------------------ MODULE CreatePage ------------------------------
(***************************************************************************)
(* The page that creates notes (create-note.js, with browser-lifecycle.js  *)
(* and setButtonBusy of dom.js).  createNote runs to its next await in one *)
(* step; typing, another submission, pagehide and the network come in      *)
(* between.  Nothing keeps two attempts apart: the input handler enables   *)
(* the button during an attempt, and Ctrl+Enter does not look at it.       *)
(*                                                                         *)
(* An attempt stands for everything that is drawn for it: the id and the   *)
(* burn token of its ticket and the AES key.                               *)
(***************************************************************************)
EXTENDS Naturals

CONSTANTS
    Texts,          \* what a user writes
    LargeTexts,     \* the texts whose payload would exceed maxNoteSize
    MaxAttempts,    \* bound on the submissions of one page
    Empty           \* the empty field, and no link

ASSUME TextsAssumption ==
    /\ LargeTexts \subseteq Texts /\ Empty \notin Texts /\ Empty \notin Nat
    /\ MaxAttempts \in Nat

Attempts == 1..MaxAttempts

VARIABLES
    life,           \* "shown", "hidden", or "stale": from the cache, will reload
    active,         \* pageActive
    text,           \* content.value
    expiration,     \* expirationValue holds a legal number of seconds
    disabled,       \* submitButton.disabled
    view,           \* the visible section: "form" or "result"
    link,           \* noteLink.value: the id (0: of another note) and the key
    error,          \* the error panel is visible
    hasUnsavedDraft,
    step,           \* the await at which each attempt is
    plaintext,      \* the text that each attempt took from the field
    net,            \* the request or response of each attempt
    saved           \* the server's notes: the text encrypted in each

vars == <<life, active, text, expiration, disabled, view, link, error, hasUnsavedDraft,
          step, plaintext, net, saved>>

form == <<text, expiration, view, link, hasUnsavedDraft>>

Running(a) == step[a] \notin {"new", "done"}

Steps == {"new", "ticket", "encrypt", "save", "explain", "read", "done"}

Message == {"none", "ticketRequest", "ticket", "badTicket", "saveRequest", "saved",
            "otherId", "refused", "failed"}

-----------------------------------------------------------------------------
(* The form *)

\* The input handler, with updateSizeStatus.
Input ==
    /\ life # "hidden" /\ view = "form"
    /\ \E t \in Texts \cup {Empty} :
          /\ text' = t
          /\ hasUnsavedDraft' = (t # Empty)
          /\ disabled' = (t \in LargeTexts)
    /\ UNCHANGED <<life, active, expiration, view, link, error, step, plaintext, net, saved>>

\* A click on an expiration option, or on the toggle of the custom expiration,
\* which starts from the present value and is illegal if that was.
SelectExpiration ==
    /\ life # "hidden" /\ view = "form"
    /\ expiration' \in {TRUE, expiration}
    /\ error' = FALSE
    /\ UNCHANGED <<life, active, text, disabled, view, link, hasUnsavedDraft, step,
                   plaintext, net, saved>>

\* refreshCustomExpiration: a new custom amount or unit, legal or not.
EditCustomExpiration ==
    /\ life # "hidden" /\ view = "form"
    /\ expiration' \in BOOLEAN
    /\ UNCHANGED <<life, active, text, disabled, view, link, error, hasUnsavedDraft,
                   step, plaintext, net, saved>>

\* The checks of createNote, the one of readExpiration among them.
Rejected == text = Empty \/ text \in LargeTexts \/ ~expiration

\* createNote up to the request for a ticket.
CreateNote(a) ==
    /\ step[a] = "new" /\ \A b \in 1..(a - 1) : step[b] # "new"
    /\ plaintext' = [plaintext EXCEPT ![a] = text]
    /\ IF Rejected
       THEN /\ error' = TRUE
            /\ step' = [step EXCEPT ![a] = "done"]
            /\ UNCHANGED <<disabled, net>>
       ELSE /\ error' = FALSE
            /\ disabled' = TRUE
            /\ step' = [step EXCEPT ![a] = "ticket"]
            /\ net' = [net EXCEPT ![a] = "ticketRequest"]
    /\ UNCHANGED <<life, active, form, saved>>

ClickSave(a) == life # "hidden" /\ view = "form" /\ ~disabled /\ CreateNote(a)

\* Ctrl+Enter in the text area: requestSubmit, whatever the button's state.
CtrlEnter(a) == life # "hidden" /\ view = "form" /\ CreateNote(a)

\* copyResultLink and shareResultLink, which may fail.
CopyOrShareLink ==
    /\ life # "hidden" /\ view = "result"
    /\ error' \in BOOLEAN
    /\ UNCHANGED <<life, active, form, disabled, step, plaintext, net, saved>>

-----------------------------------------------------------------------------
(* The continuations of createNote *)

\* Mutant: the catch clause says nothing.
FailSilently(a) ==
    /\ step' = [step EXCEPT ![a] = "done"]
    /\ disabled' = FALSE
    /\ UNCHANGED <<form, error>>

\* The catch and finally clauses.
Fail(a) ==
    /\ step' = [step EXCEPT ![a] = "done"]
    /\ error' = TRUE /\ disabled' = FALSE
    /\ UNCHANGED form

Continue(a, next) ==
    /\ step' = [step EXCEPT ![a] = next]
    /\ UNCHANGED <<form, error, disabled>>

\* requestCreateTicket settles.
TicketSettles(a) ==
    /\ step[a] = "ticket" /\ net[a] \notin {"none", "ticketRequest"}
    /\ IF net[a] = "ticket" THEN Continue(a, "encrypt") ELSE Fail(a)
    /\ net' = [net EXCEPT ![a] = "none"]
    /\ UNCHANGED <<life, active, plaintext, saved>>

\* encryptString, which fails without secure crypto; then the request to save.
Encrypt(a) ==
    /\ step[a] = "encrypt"
    /\ \/ Fail(a) /\ UNCHANGED net
       \/ Continue(a, "save") /\ net' = [net EXCEPT ![a] = "saveRequest"]
    /\ UNCHANGED <<life, active, plaintext, saved>>

\* Mutant: a rejected fetch is not caught.
SaveSettlesUncaught(a) ==
    /\ step[a] = "save" /\ net[a] \notin {"none", "saveRequest", "failed"}
    /\ Continue(a, IF net[a] = "refused" THEN "explain" ELSE "read")
    /\ UNCHANGED <<life, active, plaintext, net, saved>>

\* The fetch of the save request settles.
SaveSettles(a) ==
    /\ step[a] = "save" /\ net[a] \notin {"none", "saveRequest"}
    /\ IF net[a] = "failed"
       THEN Fail(a) /\ net' = [net EXCEPT ![a] = "none"]
       ELSE Continue(a, IF net[a] = "refused" THEN "explain" ELSE "read") /\ UNCHANGED net
    /\ UNCHANGED <<life, active, plaintext, saved>>

\* saveErrorMessage has read the body of a refusal.
Explain(a) ==
    /\ step[a] = "explain"
    /\ Fail(a)
    /\ net' = [net EXCEPT ![a] = "none"]
    /\ UNCHANGED <<life, active, plaintext, saved>>

\* The id that the response to the save request names.
SavedId(a) == IF net[a] = "otherId" THEN 0 ELSE a

\* Mutant: the form stays.
ShowLinkKeepsForm(a) ==
    /\ link' = [id |-> SavedId(a), key |-> a] /\ text' = Empty /\ hasUnsavedDraft' = FALSE
    /\ step' = [step EXCEPT ![a] = "done"]
    /\ disabled' = FALSE
    /\ UNCHANGED <<expiration, error, view>>

\* The link is shown in place of the form, and the draft is cleared.
ShowLink(a) ==
    /\ link' = [id |-> SavedId(a), key |-> a]
    /\ text' = Empty /\ hasUnsavedDraft' = FALSE /\ view' = "result"
    /\ step' = [step EXCEPT ![a] = "done"]
    /\ disabled' = FALSE
    /\ UNCHANGED <<expiration, error>>

\* Mutants: pageActive is not asked; the ids are not compared.
ReadSavedLate(a) ==
    /\ step[a] = "read"
    /\ IF SavedId(a) = a THEN ShowLink(a) ELSE Fail(a)
    /\ net' = [net EXCEPT ![a] = "none"]
    /\ UNCHANGED <<life, active, plaintext, saved>>

ReadSavedAnyId(a) ==
    /\ step[a] = "read"
    /\ IF active THEN ShowLink(a) ELSE Fail(a)
    /\ net' = [net EXCEPT ![a] = "none"]
    /\ UNCHANGED <<life, active, plaintext, saved>>

\* readCreateNoteResponse, whose body may be cut off, the comparison of the ids
\* and the rest of createNote.
ReadSaved(a) ==
    /\ step[a] = "read"
    /\ \/ Fail(a)
       \/ SavedId(a) = a /\ active /\ ShowLink(a)
       \/ /\ SavedId(a) = a /\ ~active
          /\ step' = [step EXCEPT ![a] = "done"]
          /\ disabled' = FALSE
          /\ UNCHANGED <<form, error>>
    /\ net' = [net EXCEPT ![a] = "none"]
    /\ UNCHANGED <<life, active, plaintext, saved>>

-----------------------------------------------------------------------------
(* The browser, the network and the server *)

\* pagehide: initCreateNotePage and initBrowserLifecycle listen to it.
PageHide ==
    /\ life = "shown"
    /\ life' = "hidden" /\ active' = FALSE
    /\ text' = Empty /\ link' = Empty /\ hasUnsavedDraft' = FALSE
    /\ UNCHANGED <<expiration, disabled, view, error, step, plaintext, net, saved>>

\* pageshow of a page from the cache; the reload, which comes a little later,
\* begins another page and is not modelled.
PageShow ==
    /\ life = "hidden"
    /\ life' = "stale"
    /\ UNCHANGED <<active, form, disabled, error, step, plaintext, net, saved>>

ServerIssuesTicket(a) ==
    /\ net[a] = "ticketRequest"
    /\ \E reply \in {"ticket", "badTicket", "refused", "failed"} :
          net' = [net EXCEPT ![a] = reply]
    /\ UNCHANGED <<life, active, form, disabled, error, step, plaintext, saved>>

\* HandleCreateNote stores the note, or refuses it; the response may get lost
\* or name another note.
ServerSaves(a) ==
    /\ net[a] = "saveRequest"
    /\ \/ /\ saved' = [saved EXCEPT ![a] = plaintext[a]]
          /\ \E reply \in {"saved", "otherId", "failed"} : net' = [net EXCEPT ![a] = reply]
       \/ /\ \E reply \in {"refused", "failed"} : net' = [net EXCEPT ![a] = reply]
          /\ UNCHANGED saved
    /\ UNCHANGED <<life, active, form, disabled, error, step, plaintext>>

-----------------------------------------------------------------------------
\* The page as initCreateNotePage leaves it.
Init ==
    /\ life = "shown" /\ active = TRUE
    /\ text = Empty /\ expiration = TRUE /\ disabled = FALSE /\ view = "form"
    /\ link = Empty /\ error = FALSE /\ hasUnsavedDraft = FALSE
    /\ step = [a \in Attempts |-> "new"]
    /\ plaintext = [a \in Attempts |-> Empty]
    /\ net = [a \in Attempts |-> "none"]
    /\ saved = [a \in Attempts |-> Empty]

Continuation(a) ==
    TicketSettles(a) \/ Encrypt(a) \/ SaveSettles(a) \/ Explain(a) \/ ReadSaved(a)

Server(a) == ServerIssuesTicket(a) \/ ServerSaves(a)

Next ==
    \/ Input \/ SelectExpiration \/ EditCustomExpiration \/ CopyOrShareLink
    \/ PageHide \/ PageShow
    \/ \E a \in Attempts :
          ClickSave(a) \/ CtrlEnter(a) \/ Continuation(a) \/ Server(a)

\* The continuations of a page that is not in the page cache run, and every
\* fetch settles, if only by a timeout.
Spec ==
    /\ Init /\ [][Next]_vars
    /\ \A a \in Attempts : WF_vars(life # "hidden" /\ Continuation(a)) /\ WF_vars(Server(a))

-----------------------------------------------------------------------------
(* Properties *)

\* A page that was hidden gives nothing away: its text is cleared, and the link
\* of an attempt that ends later is not shown in it.
HiddenPageEmpty == (life = "hidden" => text = Empty) /\ (~active => link = Empty)

\* The link in the page belongs to a note that the server has, with the text
\* that the attempt took from the field, whatever was typed or submitted
\* meanwhile and whatever the network did to other attempts.
LinkIsSaved ==
    link # Empty => /\ link.id = link.key
                    /\ saved[link.id] # Empty /\ saved[link.id] = plaintext[link.key]

\* A page that is still active tells how an attempt ended, by the link of its
\* own note or by an error.
OutcomeReported ==
    [][\A a \in Attempts : step[a] # "done" /\ step'[a] = "done" /\ active =>
          error' \/ (link' = [id |-> a, key |-> a] /\ view' = "result")]_vars

\* A link that is shown is not lost to a later submission: none begins once a
\* link is there.  (Attempts that are already under way may still replace it.)
NoAttemptAfterLink ==
    [][\A a \in Attempts : link # Empty /\ step[a] = "new" => step'[a] = "new"]_vars

\* Every attempt comes to its end in a page that is not put away.
AttemptsEnd == \A a \in Attempts : Running(a) ~> ~Running(a) \/ life = "hidden"
=============================================================================
