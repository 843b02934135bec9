------------------------------- MODULE ViewPage -------------------------------
(***************************************************************************)
(* The page that opens a note (view-note.js, with browser-lifecycle.js and *)
(* the helpers it imports), in several tabs that hold a link to the same   *)
(* note.  A click handler runs to its first await in one step, and so does *)
(* each continuation; the network, the reverse proxy, the server, the      *)
(* browser's page cache and the reader act in between.                     *)
(*                                                                         *)
(* The server appears only as what NoteService promises of one note: a     *)
(* request with the right burn token takes it out of the store.            *)
(***************************************************************************)
EXTENDS Naturals

CONSTANTS
    Tabs,       \* browser tabs
    Links       \* the kinds of link fragments that are opened, see Fragments

\* "good"; "badKey" and "badToken": well formed, but not of this note;
\* "malformed": parseSecretFragment throws; "none": there is no fragment.
Fragments == {"good", "badKey", "badToken", "malformed", "none"}

ASSUME LinksAssumption == Links \subseteq Fragments

VARIABLES
    stored,     \* the note is in the database
    page,       \* the state of each tab's page
    net,        \* the request or the response of each tab's fetch
    orphan,     \* an open request with the right token whose page is gone
    shown       \* history: the note was put into the page of some reader

vars == <<stored, page, net, orphan, shown>>

-----------------------------------------------------------------------------
(* The state of a page *)

\* life: "stale" is a page taken out of the page cache that will reload.
\* link: history, the fragment the page was loaded with.
\* active: pageActive; busy: the confirm button is disabled.
\* step: the await of retrieveNote that is pending.
Page == [life : {"closed", "shown", "hidden", "stale"},
         link : Fragments, fragment : Fragments, cancelled : BOOLEAN,
         active : BOOLEAN, started : BOOLEAN,
         secret : Fragments \ {"malformed"}, secretError : BOOLEAN,
         busy : BOOLEAN, step : {"idle", "fetch", "read", "decrypt"},
         panel : {"confirmation", "display", "error"}, actionError : BOOLEAN,
         field : {"empty", "note"}]

\* openState and the panels as the server renders them and initViewNotePage
\* leaves them; on this page initBrowserLifecycle does not touch the fragment.
Loaded(fragment) ==
    [life |-> "shown", link |-> fragment, fragment |-> fragment, cancelled |-> FALSE,
     active |-> TRUE, started |-> FALSE, secret |-> "none", secretError |-> FALSE,
     busy |-> FALSE, step |-> "idle", panel |-> "confirmation", actionError |-> FALSE,
     field |-> "empty"]

Closed == [Loaded("none") EXCEPT !.life = "closed", !.active = FALSE]

Message == {"none", "request", "payload", "404", "429", "5xx", "failed"}

\* parseSecretFragment and the burn token inside its result.
HasRightToken(secret) == secret \in {"good", "badKey"}

\* clearAnchor
ClearAnchor(p) == [p EXCEPT !.fragment = "none"]

\* Mutant: a fragment that does not parse is left in the URL.
BeginOpeningNoFinally(p) ==
    IF p.started THEN p
    ELSE IF p.fragment = "malformed" THEN [p EXCEPT !.started = TRUE, !.secretError = TRUE]
    ELSE ClearAnchor([p EXCEPT !.started = TRUE, !.secret = p.fragment])

\* beginOpening: only the first click reads the fragment, and it is cleared
\* whether or not it parses.
BeginOpening(p) ==
    IF p.started THEN p
    ELSE ClearAnchor([p EXCEPT !.started = TRUE,
                      !.secret = IF p.fragment = "malformed" THEN "none" ELSE p.fragment,
                      !.secretError = p.fragment = "malformed"])

\* showNoteError, and the end of retrieveNote with its finally clause.
NoteError(p) == [p EXCEPT !.panel = "error", !.actionError = FALSE, !.step = "idle",
                          !.busy = FALSE]

\* Mutant: the button stays disabled.
RetryableErrorStaysBusy(p) == [p EXCEPT !.panel = "confirmation", !.actionError = TRUE,
                                        !.step = "idle"]

\* showRetryableError, and the end of retrieveNote.
RetryableError(p) == [p EXCEPT !.panel = "confirmation", !.actionError = TRUE,
                               !.step = "idle", !.busy = FALSE]

\* Mutant: pageActive is not asked.
DisplayAlways(p) == [p EXCEPT !.field = "note", !.panel = "display", !.actionError = FALSE,
                              !.step = "idle", !.busy = FALSE]

\* The rest of retrieveNote once decryptString has succeeded.
Display(p) ==
    IF p.active
    THEN [p EXCEPT !.field = "note", !.panel = "display", !.actionError = FALSE,
                   !.step = "idle", !.busy = FALSE]
    ELSE [p EXCEPT !.step = "idle", !.busy = FALSE]

-----------------------------------------------------------------------------
(* The page's handlers *)

\* A click on View Note.  The page's note id may be malformed and fetch may be
\* missing: retrieveNote then gives up before the request.
ClickConfirm(t) ==
    LET p == BeginOpening([page[t] EXCEPT !.actionError = FALSE]) IN
    /\ page[t].life \in {"shown", "stale"}
    /\ page[t].panel = "confirmation" /\ ~page[t].busy
    /\ \/ /\ page' = [page EXCEPT ![t] = NoteError(p)]
          /\ UNCHANGED net
       \/ /\ ~p.secretError /\ p.secret # "none"
          /\ page' = [page EXCEPT ![t] = [p EXCEPT !.busy = TRUE, !.step = "fetch"]]
          /\ net' = [net EXCEPT ![t] = "request"]
    /\ UNCHANGED <<stored, orphan, shown>>

\* A click on Cancel; the navigation that follows hides the page later on.
ClickCancel(t) ==
    /\ page[t].life \in {"shown", "stale"} /\ page[t].panel = "confirmation"
    /\ page' = [page EXCEPT ![t] = [ClearAnchor(@) EXCEPT !.cancelled = TRUE]]
    /\ UNCHANGED <<stored, net, orphan, shown>>

\* Mutant: a rejected fetch is not caught.
FetchSettlesUncaught(t) ==
    /\ page[t].step = "fetch" /\ net[t] \notin {"none", "request", "failed"}
    /\ page' = [page EXCEPT ![t] =
          IF net[t] \in {"429", "5xx"} THEN RetryableError(@)
          ELSE IF net[t] = "404" THEN NoteError(@)
          ELSE [@ EXCEPT !.step = "read"]]
    /\ net' = [net EXCEPT ![t] = "none"]
    /\ UNCHANGED <<stored, orphan, shown>>

\* fetch settles: it rejects, or there is a response to look at.
FetchSettles(t) ==
    /\ page[t].step = "fetch" /\ net[t] \notin {"none", "request"}
    /\ page' = [page EXCEPT ![t] =
          IF net[t] \in {"failed", "429", "5xx"} THEN RetryableError(@)
          ELSE IF net[t] = "404" THEN NoteError(@)
          ELSE [@ EXCEPT !.step = "read"]]
    /\ net' = [net EXCEPT ![t] = "none"]
    /\ UNCHANGED <<stored, orphan, shown>>

\* readOpenNotePayload: the body may be cut off, or not be what it should.
ReadPayload(t) ==
    /\ page[t].step = "read"
    /\ \/ page' = [page EXCEPT ![t] = NoteError(@)]
       \/ page' = [page EXCEPT ![t].step = "decrypt"]
    /\ UNCHANGED <<stored, net, orphan, shown>>

\* decryptString: it fails with another key, and may fail for other reasons.
Decrypt(t) ==
    /\ page[t].step = "decrypt"
    /\ \/ /\ page' = [page EXCEPT ![t] = NoteError(@)]
          /\ UNCHANGED shown
       \/ /\ page[t].secret = "good"
          /\ page' = [page EXCEPT ![t] = Display(@)]
          /\ shown' = (shown \/ page'[t].field = "note")
    /\ UNCHANGED <<stored, net, orphan>>

\* pagehide: initViewNotePage and initBrowserLifecycle listen to it.
PageHide(t) ==
    /\ page[t].life = "shown"
    /\ page' = [page EXCEPT ![t].life = "hidden", ![t].active = FALSE, ![t].field = "empty"]
    /\ UNCHANGED <<stored, net, orphan, shown>>

\* pageshow of a page from the cache: location.reload(), which takes a while.
PageShow(t) ==
    /\ page[t].life = "hidden"
    /\ page' = [page EXCEPT ![t].life = "stale"]
    /\ UNCHANGED <<stored, net, orphan, shown>>

-----------------------------------------------------------------------------
(* The browser and the network *)

OpenLink(t) ==
    /\ page[t].life = "closed"
    /\ \E fragment \in Links : page' = [page EXCEPT ![t] = Loaded(fragment)]
    /\ UNCHANGED <<stored, net, orphan, shown>>

\* A page goes for good: its request may be on its way to the server.
Leave(t, next) ==
    /\ page' = [page EXCEPT ![t] = next]
    /\ net' = [net EXCEPT ![t] = "none"]
    /\ orphan' = (orphan \/ (net[t] = "request" /\ HasRightToken(page[t].secret)))
    /\ UNCHANGED <<stored, shown>>

\* The reload of a stale page, or the reader's: the URL is what it was.
Reload(t) ==
    /\ page[t].life \in {"hidden", "stale"}
    /\ Leave(t, Loaded(page[t].fragment))

Discard(t) ==
    /\ page[t].life = "hidden"
    /\ Leave(t, Closed)

\* Mutant: the note is read and not burned.
ServerReads(t) ==
    /\ net[t] = "request"
    /\ net' = [net EXCEPT ![t] =
          IF stored /\ HasRightToken(page[t].secret) THEN "payload" ELSE "404"]
    /\ UNCHANGED <<stored, page, orphan, shown>>

\* HandleOpenNote behind the rate limiter: a failure of the server leaves the
\* note in the store.
ServerOpens(t) ==
    /\ net[t] = "request"
    /\ \/ /\ stored /\ HasRightToken(page[t].secret)
          /\ stored' = FALSE
          /\ net' = [net EXCEPT ![t] = "payload"]
       \/ /\ ~(stored /\ HasRightToken(page[t].secret))
          /\ net' = [net EXCEPT ![t] = "404"]
          /\ UNCHANGED stored
       \/ /\ \E refusal \in {"429", "5xx"} : net' = [net EXCEPT ![t] = refusal]
          /\ UNCHANGED stored
    /\ UNCHANGED <<page, orphan, shown>>

\* A request or a response is lost; the proxy may answer in the server's place.
NetworkFails(t) ==
    /\ net[t] \notin {"none", "failed", "5xx"}
    /\ \E outcome \in {"failed", "5xx"} : net' = [net EXCEPT ![t] = outcome]
    /\ UNCHANGED <<stored, page, orphan, shown>>

OrphanArrives ==
    /\ orphan
    /\ orphan' = FALSE
    /\ stored' \in {stored, FALSE}
    /\ UNCHANGED <<page, net, shown>>

\* The cleanup goroutine removes the note when it has expired.
Expire ==
    /\ stored
    /\ stored' = FALSE
    /\ UNCHANGED <<page, net, orphan, shown>>

-----------------------------------------------------------------------------
Init ==
    /\ stored = TRUE /\ orphan = FALSE /\ shown = FALSE
    /\ page = [t \in Tabs |-> Closed]
    /\ net = [t \in Tabs |-> "none"]

PageStep(t) == FetchSettles(t) \/ ReadPayload(t) \/ Decrypt(t)

Reader(t) ==
    \/ OpenLink(t) \/ ClickConfirm(t) \/ ClickCancel(t)
    \/ PageHide(t) \/ PageShow(t) \/ Reload(t) \/ Discard(t)

Next ==
    \/ \E t \in Tabs : Reader(t) \/ PageStep(t) \/ ServerOpens(t) \/ NetworkFails(t)
    \/ OrphanArrives \/ Expire

\* The continuations of a page that is not in the page cache run, and a fetch
\* settles in the end, with an answer or, by the timeouts of the browser and
\* the server, with an error.  The reader owes nothing, not even to come back
\* to a hidden page.
Spec ==
    /\ Init /\ [][Next]_vars
    /\ \A t \in Tabs : /\ WF_vars(page[t].life # "hidden" /\ PageStep(t))
                       /\ WF_vars(ServerOpens(t))

-----------------------------------------------------------------------------
(* Properties *)

\* A page that was hidden holds no plaintext until it is reloaded, even if the
\* response or the decryption comes after the fields were cleared.
HiddenPageEmpty == \A t \in Tabs : ~page[t].active => page[t].field = "empty"

\* README: "The fragment remains until the recipient selects View Note or
\* Cancel ... The browser then clears the fragment before opening the note".
\* This holds across reloads and tab restoration, and for links that do not
\* parse.
FragmentUntilChoice ==
    \A t \in Tabs :
       page[t].fragment = IF page[t].started \/ page[t].cancelled THEN "none"
                          ELSE page[t].link

\* When retrieveNote is over, the reader of an active page can see how it
\* ended: the note, a final error, or an error with a button that works and the
\* secret for another try still in the page.
OutcomeVisible ==
    \A t \in Tabs : LET p == page[t] IN
       p.active /\ p.started /\ p.step = "idle" =>
          \/ p.panel = "display" /\ p.field = "note"
          \/ p.panel = "error" /\ p.field = "empty"
          \/ p.panel = "confirmation" /\ p.actionError /\ ~p.busy /\ p.secret # "none"

\* Opening comes to an end in every page that is not put away.
OpeningEnds ==
    \A t \in Tabs : page[t].step # "idle" ~> page[t].step = "idle" \/ page[t].life = "hidden"

\* From end to end the note is read at most once: it is in the store, or on its
\* way to one page, or in that page, and a retry, a second tab, a reload or a
\* request that outlives its page never gets it again.
TheNote == <<"note", 1>>
OnItsWay(t) == net[t] = "payload" \/ page[t].step \in {"read", "decrypt"}

EndToEnd == INSTANCE OneTimeNote WITH
    Ids    <- {"note"},
    count  <- [id \in {"note"} |-> 1],
    sealed <- IF stored THEN {TheNote} ELSE {},
    held   <- IF \E t \in Tabs : OnItsWay(t) THEN {TheNote} ELSE {},
    given  <- IF shown THEN {TheNote} ELSE {}

ReadAtMostOnce == [][EndToEnd!Next]_(EndToEnd!notes)
=============================================================================
