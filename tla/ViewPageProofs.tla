---------------------------- MODULE ViewPageProofs ----------------------------
(***************************************************************************)
(* What the view page shows and keeps, for any number of tabs that hold a  *)
(* link to the same note, and that the note is read at most once from end  *)
(* to end: the page implements OneTimeNote.                                *)
(***************************************************************************)
EXTENDS ViewPage, TLAPS

\* Every variable keeps its type.
TypeOK ==
    /\ stored \in BOOLEAN /\ orphan \in BOOLEAN /\ shown \in BOOLEAN
    /\ page \in [Tabs -> Page] /\ net \in [Tabs -> Message]

\* retrieveNote runs in a page that asks for confirmation, with its button
\* disabled and a secret in hand; a note is in the page only if it is displayed
\* and the page was not hidden.
OpeningOK(p) ==
    /\ p.step # "idle" => /\ p.life # "closed" /\ p.started /\ p.busy
                          /\ p.panel = "confirmation" /\ p.secret # "none"
    /\ p.field = "note" => p.panel = "display" /\ p.active

\* The parts of FragmentUntilChoice and OutcomeVisible that are about one page.
FragmentOK(p) == p.fragment = IF p.started \/ p.cancelled THEN "none" ELSE p.link

OutcomeOK(p) ==
    p.active /\ p.started /\ p.step = "idle" =>
       \/ p.panel = "display" /\ p.field = "note"
       \/ p.panel = "error" /\ p.field = "empty"
       \/ p.panel = "confirmation" /\ p.actionError /\ ~p.busy /\ p.secret # "none"

PageOK(p) == OpeningOK(p) /\ FragmentOK(p) /\ OutcomeOK(p)

\* A request or response belongs to a page that waits for it.
NetOK(t) == net[t] # "none" => page[t].step = "fetch"

\* The note is in one place at most: in the store, on its way to one tab, or
\* with its reader.
OnePlace ==
    /\ \A t, u \in Tabs : OnItsWay(t) /\ OnItsWay(u) => t = u
    /\ (\E t \in Tabs : OnItsWay(t)) => ~stored /\ ~shown
    /\ shown => ~stored

PagesOK == \A t \in Tabs : PageOK(page[t]) /\ NetOK(t)

Inv == TypeOK /\ PagesOK /\ OnePlace

-----------------------------------------------------------------------------
(* The operators on a page *)

\* A page that was just loaded, or is closed, is in order.
LEMMA LoadedOK ==
    ASSUME NEW fragment \in Fragments
    PROVE  Loaded(fragment) \in Page /\ PageOK(Loaded(fragment))
BY DEF Loaded, Page, PageOK, OpeningOK, FragmentOK, OutcomeOK, Fragments

\* So is a closed one.
LEMMA ClosedOK == Closed \in Page /\ PageOK(Closed) /\ Closed.step = "idle"
BY DEF Closed, Loaded, Page, PageOK, OpeningOK, FragmentOK, OutcomeOK, Fragments

\* A click clears the fragment of the URL, the first one into the secret.
LEMMA BeginOpeningOK ==
    ASSUME NEW p \in Page, PageOK(p), p.panel = "confirmation", ~p.busy,
           NEW q, q = BeginOpening([p EXCEPT !.actionError = FALSE])
    PROVE  /\ q \in Page /\ q.started /\ FragmentOK(q)
           /\ q.panel = "confirmation" /\ q.step = "idle" /\ q.field = "empty"
<1> DEFINE r == [p EXCEPT !.actionError = FALSE]
<1>1. /\ r \in Page /\ r.step = "idle" /\ r.field = "empty" /\ FragmentOK(r)
      /\ r.panel = "confirmation" /\ r.started = p.started
  BY DEF Page, PageOK, OpeningOK, FragmentOK
<1>2. CASE p.started
  BY <1>1, <1>2 DEF BeginOpening
<1>3. CASE ~p.started
  <2> DEFINE s == IF r.fragment = "malformed" THEN "none" ELSE r.fragment
             e == r.fragment = "malformed"
  <2>1. q = ClearAnchor([r EXCEPT !.started = TRUE, !.secret = s, !.secretError = e])
    BY <1>1, <1>3 DEF BeginOpening
  <2>2. s \in Fragments \ {"malformed"} /\ e \in BOOLEAN
    BY <1>1 DEF Page, Fragments
  <2> HIDE DEF r, s, e
  <2>3. q = [r EXCEPT !.started = TRUE, !.secret = s, !.secretError = e, !.fragment = "none"]
    BY <2>1, <1>1 DEF ClearAnchor, Page
  <2>4. "none" \in Fragments
    BY DEF Fragments
  <2> QED
    BY <1>1, <2>2, <2>3, <2>4 DEF Page, FragmentOK
<1> QED
  BY <1>2, <1>3

\* The two kinds of errors and the display end retrieveNote in good order.
LEMMA NoteErrorOK ==
    ASSUME NEW p \in Page, FragmentOK(p), p.field = "empty"
    PROVE  NoteError(p) \in Page /\ PageOK(NoteError(p)) /\ NoteError(p).step = "idle"
BY DEF NoteError, Page, PageOK, OpeningOK, FragmentOK, OutcomeOK

\* An error that can be retried leaves the secret for the next click.
LEMMA RetryableErrorOK ==
    ASSUME NEW p \in Page, FragmentOK(p), p.field = "empty", p.secret # "none"
    PROVE  /\ RetryableError(p) \in Page /\ PageOK(RetryableError(p))
           /\ RetryableError(p).step = "idle"
BY DEF RetryableError, Page, PageOK, OpeningOK, FragmentOK, OutcomeOK

\* The note goes into an active page only.
LEMMA DisplayOK ==
    ASSUME NEW p \in Page, FragmentOK(p), p.field = "empty"
    PROVE  /\ Display(p) \in Page /\ PageOK(Display(p)) /\ Display(p).step = "idle"
           /\ Display(p).field = "note" <=> p.active
BY DEF Display, Page, PageOK, OpeningOK, FragmentOK, OutcomeOK

-----------------------------------------------------------------------------
(* The steps *)

\* What the step of one tab does to the note: the note stays where it is or is
\* lost, goes to the reader of this tab, or leaves the store for this tab.
Move(t) ==
    /\ \A u \in Tabs \ {t} : OnItsWay(u)' <=> OnItsWay(u)
    /\ \/ UNCHANGED <<stored, shown>> /\ (OnItsWay(t)' => OnItsWay(t))
       \/ OnItsWay(t) /\ ~OnItsWay(t)' /\ shown' = TRUE /\ UNCHANGED stored
       \/ stored /\ OnItsWay(t)' /\ stored' = FALSE /\ UNCHANGED shown

\* A step of a tab replaces its page and its message and leaves the others.
LEMMA TabStep ==
    ASSUME TypeOK, PagesOK, NEW t \in Tabs, NEW q \in Page, NEW m \in Message,
           PageOK(q), m # "none" => q.step = "fetch",
           page' = [page EXCEPT ![t] = q], net' = [net EXCEPT ![t] = m]
    PROVE  /\ page' \in [Tabs -> Page] /\ net' \in [Tabs -> Message] /\ PagesOK'
           /\ \A u \in Tabs \ {t} : OnItsWay(u)' <=> OnItsWay(u)
           /\ OnItsWay(t)' <=> (m = "payload" \/ q.step \in {"read", "decrypt"})
<1>1. page' \in [Tabs -> Page] /\ net' \in [Tabs -> Message]
  BY DEF TypeOK
<1>2. page'[t] = q /\ net'[t] = m
  BY DEF TypeOK
<1>3. \A u \in Tabs \ {t} : page'[u] = page[u] /\ net'[u] = net[u]
  BY DEF TypeOK
<1>4. PagesOK'
  BY <1>2, <1>3 DEF PagesOK, NetOK
<1> QED
  BY <1>1, <1>2, <1>3, <1>4 DEF OnItsWay

\* A page with a pending retrieveNote has no note in it.
LEMMA PendingEmpty ==
    ASSUME NEW p \in Page, PageOK(p), p.step # "idle"
    PROVE  p.field = "empty" /\ p.secret # "none" /\ FragmentOK(p)
BY DEF Page, PageOK, OpeningOK

\* The steps of one tab keep types and pages in order and move the note.
LEMMA ReaderStep ==
    ASSUME TypeOK, PagesOK, NEW t \in Tabs, Reader(t)
    PROVE  TypeOK' /\ PagesOK' /\ Move(t)
<1> DEFINE p == page[t]
<1>1. p \in Page /\ net[t] \in Message /\ PageOK(p) /\ NetOK(t)
  BY DEF TypeOK, PagesOK
<1>2. net = [net EXCEPT ![t] = net[t]]
  BY DEF TypeOK
<1>3. "none" \in Message /\ "request" \in Message
  BY DEF Message
<1>4. CASE OpenLink(t)
  <2>1. PICK fragment \in Links : page' = [page EXCEPT ![t] = Loaded(fragment)]
    BY <1>4 DEF OpenLink
  <2>2. Loaded(fragment) \in Page /\ PageOK(Loaded(fragment)) /\ Loaded(fragment).step = "idle"
    BY LoadedOK, LinksAssumption DEF Loaded
  <2>3. net[t] = "none" /\ p.step = "idle"
    BY <1>1, <1>4 DEF OpenLink, NetOK, PageOK, OpeningOK
  <2>4. net' = net /\ UNCHANGED <<stored, orphan, shown>>
    BY <1>4 DEF OpenLink
  <2> QED
    BY <1>1, <1>2, <2>1, <2>2, <2>3, <2>4, TabStep DEF TypeOK, Move
<1>5. CASE ClickConfirm(t)
  <2> DEFINE q == BeginOpening([p EXCEPT !.actionError = FALSE])
  <2>1. net[t] = "none" /\ p.step = "idle" /\ p.panel = "confirmation" /\ ~p.busy
    BY <1>1, <1>5 DEF ClickConfirm, NetOK, PageOK, OpeningOK
  <2>2. /\ q \in Page /\ q.started /\ FragmentOK(q)
        /\ q.panel = "confirmation" /\ q.step = "idle" /\ q.field = "empty"
    BY <1>1, <2>1, BeginOpeningOK
  <2>3. UNCHANGED <<stored, orphan, shown>>
    BY <1>5 DEF ClickConfirm
  <2>4. CASE page' = [page EXCEPT ![t] = NoteError(q)] /\ UNCHANGED net
    <3>1. NoteError(q) \in Page /\ PageOK(NoteError(q)) /\ NoteError(q).step = "idle"
      BY <2>2, NoteErrorOK
    <3> QED
      BY <1>1, <1>2, <1>3, <2>1, <2>3, <2>4, <3>1, TabStep DEF TypeOK, Move
  <2>5. CASE /\ q.secret # "none"
             /\ page' = [page EXCEPT ![t] = [q EXCEPT !.busy = TRUE, !.step = "fetch"]]
             /\ net' = [net EXCEPT ![t] = "request"]
    <3> DEFINE r == [q EXCEPT !.busy = TRUE, !.step = "fetch"]
    <3>0. q.life # "closed"
      BY <1>5, <1>1 DEF ClickConfirm, BeginOpening, ClearAnchor, Page
    <3> HIDE DEF q
    <3>1. r \in Page /\ r.step = "fetch" /\ PageOK(r)
      BY <2>2, <2>5, <3>0 DEF Page, PageOK, OpeningOK, FragmentOK, OutcomeOK
    <3> HIDE DEF r
    <3>2. page' = [page EXCEPT ![t] = r] /\ net' = [net EXCEPT ![t] = "request"]
      BY <2>5 DEF r
    <3>3. /\ page' \in [Tabs -> Page] /\ net' \in [Tabs -> Message] /\ PagesOK'
          /\ \A u \in Tabs \ {t} : OnItsWay(u)' <=> OnItsWay(u)
          /\ ~OnItsWay(t)'
      BY <1>3, <3>1, <3>2, TabStep
    <3> QED
      BY <2>3, <3>3 DEF TypeOK, Move
  <2> QED
    BY <1>5, <2>4, <2>5 DEF ClickConfirm
<1>6. CASE ClickCancel(t)
  <2> DEFINE r == [ClearAnchor(p) EXCEPT !.cancelled = TRUE]
  <2>1. r \in Page /\ PageOK(r) /\ r.step = p.step
    <3>1. r = [p EXCEPT !.fragment = "none", !.cancelled = TRUE]
      BY <1>1 DEF ClearAnchor, Page
    <3>2. "none" \in Fragments
      BY DEF Fragments
    <3> HIDE DEF p, r
    <3> QED
      BY <1>1, <3>1, <3>2 DEF Page, PageOK, OpeningOK, FragmentOK, OutcomeOK
  <2>2. page' = [page EXCEPT ![t] = r] /\ net' = net /\ UNCHANGED <<stored, orphan, shown>>
    BY <1>6 DEF ClickCancel, TypeOK
  <2> HIDE DEF r
  <2> QED
    BY <1>1, <1>2, <2>1, <2>2, TabStep DEF TypeOK, Move, OnItsWay, NetOK
<1>7. CASE PageHide(t)
  <2> DEFINE r == [p EXCEPT !.life = "hidden", !.active = FALSE, !.field = "empty"]
  <2>1. r \in Page /\ PageOK(r) /\ r.step = p.step
    BY <1>1 DEF Page, PageOK, OpeningOK, FragmentOK, OutcomeOK
  <2>2. page' = [page EXCEPT ![t] = r] /\ net' = net /\ UNCHANGED <<stored, orphan, shown>>
    BY <1>7 DEF PageHide, TypeOK, Page
  <2> HIDE DEF r
  <2> QED
    BY <1>1, <1>2, <2>1, <2>2, TabStep DEF TypeOK, Move, OnItsWay, NetOK
<1>8. CASE PageShow(t)
  <2> DEFINE r == [p EXCEPT !.life = "stale"]
  <2>1. r \in Page /\ PageOK(r) /\ r.step = p.step
    BY <1>1 DEF Page, PageOK, OpeningOK, FragmentOK, OutcomeOK
  <2>2. page' = [page EXCEPT ![t] = r] /\ net' = net /\ UNCHANGED <<stored, orphan, shown>>
    BY <1>8 DEF PageShow, TypeOK
  <2> HIDE DEF r
  <2> QED
    BY <1>1, <1>2, <2>1, <2>2, TabStep DEF TypeOK, Move, OnItsWay, NetOK
<1>9. ASSUME NEW q \in Page, PageOK(q), q.step = "idle", Leave(t, q)
      PROVE  TypeOK' /\ PagesOK' /\ Move(t)
  <2>1. /\ page' = [page EXCEPT ![t] = q] /\ net' = [net EXCEPT ![t] = "none"]
        /\ UNCHANGED <<stored, shown>> /\ orphan' \in BOOLEAN
    BY <1>9 DEF Leave, TypeOK
  <2> QED
    BY <1>3, <1>9, <2>1, TabStep DEF TypeOK, Move
<1>10. CASE Reload(t)
  <2>1. p.fragment \in Fragments
    BY <1>1 DEF Page
  <2>2. Loaded(p.fragment).step = "idle"
    BY DEF Loaded
  <2> QED
    BY <1>9, <1>10, <2>1, <2>2, LoadedOK DEF Reload
<1>11. CASE Discard(t)
  BY <1>9, <1>11, ClosedOK DEF Discard
<1> QED
  BY <1>4, <1>5, <1>6, <1>7, <1>8, <1>10, <1>11 DEF Reader

\* The continuations of retrieveNote do, too.
LEMMA PageStepStep ==
    ASSUME TypeOK, PagesOK, NEW t \in Tabs, PageStep(t)
    PROVE  TypeOK' /\ PagesOK' /\ Move(t)
<1> DEFINE p == page[t]
<1>1. p \in Page /\ net[t] \in Message /\ PageOK(p) /\ NetOK(t)
  BY DEF TypeOK, PagesOK
<1>2. net = [net EXCEPT ![t] = net[t]]
  BY DEF TypeOK
<1>3. "none" \in Message
  BY DEF Message
<1>4. p.step # "idle"
  BY DEF PageStep, FetchSettles, ReadPayload, Decrypt
<1>5. p.field = "empty" /\ p.secret # "none" /\ FragmentOK(p)
  BY <1>1, <1>4, PendingEmpty
<1>6. ASSUME NEW s \in {"read", "decrypt"}
      PROVE  LET q == [p EXCEPT !.step = s] IN q \in Page /\ PageOK(q) /\ q.step = s
  <2> HIDE DEF p
  <2> QED
    BY <1>1, <1>4 DEF Page, PageOK, OpeningOK, FragmentOK, OutcomeOK
<1>7. /\ NoteError(p) \in Page /\ PageOK(NoteError(p)) /\ NoteError(p).step = "idle"
      /\ RetryableError(p) \in Page /\ PageOK(RetryableError(p))
      /\ RetryableError(p).step = "idle"
      /\ Display(p) \in Page /\ PageOK(Display(p)) /\ Display(p).step = "idle"
  BY <1>1, <1>5, NoteErrorOK, RetryableErrorOK, DisplayOK
<1>8. CASE FetchSettles(t)
  <2> DEFINE q == IF net[t] \in {"failed", "429", "5xx"} THEN RetryableError(p)
                  ELSE IF net[t] = "404" THEN NoteError(p)
                  ELSE [p EXCEPT !.step = "read"]
  <2>1. q \in Page /\ PageOK(q) /\ (q.step = "idle" \/ (q.step = "read" /\ net[t] = "payload"))
    BY <1>1, <1>6, <1>7, <1>8 DEF FetchSettles, Message
  <2>2. /\ page' = [page EXCEPT ![t] = q] /\ net' = [net EXCEPT ![t] = "none"]
        /\ UNCHANGED <<stored, orphan, shown>>
    BY <1>8 DEF FetchSettles, TypeOK
  <2> HIDE DEF q
  <2>3. /\ page' \in [Tabs -> Page] /\ net' \in [Tabs -> Message] /\ PagesOK'
        /\ \A u \in Tabs \ {t} : OnItsWay(u)' <=> OnItsWay(u)
        /\ OnItsWay(t)' => q.step = "read"
    BY <1>3, <2>1, <2>2, TabStep
  <2> QED
    BY <2>1, <2>2, <2>3 DEF TypeOK, Move, OnItsWay
<1>9. ASSUME p.step \in {"read", "decrypt"} PROVE net[t] = "none" /\ OnItsWay(t)
  BY <1>1, <1>9 DEF NetOK, OnItsWay
<1>10. CASE ReadPayload(t)
  <2>1. PICK q \in {NoteError(p), [p EXCEPT !.step = "decrypt"]} :
           page' = [page EXCEPT ![t] = q]
    BY <1>10 DEF ReadPayload, TypeOK
  <2>2. q \in Page /\ PageOK(q)
    BY <1>6, <1>7, <2>1
  <2>3. net[t] = "none" /\ OnItsWay(t) /\ net' = net /\ UNCHANGED <<stored, orphan, shown>>
    BY <1>9, <1>10 DEF ReadPayload
  <2>4. /\ page' \in [Tabs -> Page] /\ net' \in [Tabs -> Message] /\ PagesOK'
        /\ \A u \in Tabs \ {t} : OnItsWay(u)' <=> OnItsWay(u)
    BY <1>1, <1>2, <2>1, <2>2, <2>3, TabStep
  <2> QED
    BY <2>3, <2>4 DEF TypeOK, Move
<1>11. CASE Decrypt(t)
  <2>1. PICK q \in {NoteError(p), Display(p)} :
          /\ page' = [page EXCEPT ![t] = q]
          /\ shown' = shown \/ shown' = TRUE
    BY <1>11 DEF Decrypt, TypeOK
  <2>2. q \in Page /\ PageOK(q) /\ q.step = "idle"
    BY <1>7, <2>1
  <2>3. net[t] = "none" /\ OnItsWay(t) /\ net' = net /\ UNCHANGED <<stored, orphan>>
    BY <1>9, <1>11 DEF Decrypt
  <2>4. /\ page' \in [Tabs -> Page] /\ net' \in [Tabs -> Message] /\ PagesOK'
        /\ \A u \in Tabs \ {t} : OnItsWay(u)' <=> OnItsWay(u)
        /\ ~OnItsWay(t)'
    BY <1>1, <1>2, <2>1, <2>2, <2>3, TabStep
  <2> QED
    BY <2>1, <2>3, <2>4 DEF TypeOK, Move
<1> QED
  BY <1>8, <1>10, <1>11 DEF PageStep

\* So do the server and the network; only the server takes the note out of the
\* store, for the page that asked.
LEMMA NetworkStep ==
    ASSUME TypeOK, PagesOK, NEW t \in Tabs, ServerOpens(t) \/ NetworkFails(t)
    PROVE  TypeOK' /\ PagesOK' /\ Move(t)
<1>1. page[t] \in Page /\ net[t] \in Message /\ PageOK(page[t]) /\ NetOK(t)
  BY DEF TypeOK, PagesOK
<1>2. page' = page /\ page = [page EXCEPT ![t] = page[t]] /\ UNCHANGED <<orphan, shown>>
  BY DEF TypeOK, ServerOpens, NetworkFails
<1>3. net[t] # "none" /\ page[t].step = "fetch"
  BY <1>1 DEF ServerOpens, NetworkFails, NetOK
<1>4. PICK m \in Message \ {"none", "request"} :
         /\ net' = [net EXCEPT ![t] = m]
         /\ IF m = "payload" THEN stored /\ stored' = FALSE ELSE UNCHANGED stored
  BY DEF ServerOpens, NetworkFails, Message
<1>5. /\ page' \in [Tabs -> Page] /\ net' \in [Tabs -> Message] /\ PagesOK'
      /\ \A u \in Tabs \ {t} : OnItsWay(u)' <=> OnItsWay(u)
      /\ OnItsWay(t)' <=> m = "payload"
  BY <1>1, <1>2, <1>3, <1>4, TabStep
<1> QED
  BY <1>2, <1>4, <1>5 DEF TypeOK, Move

\* A note that is in one place at most is so after a move.
LEMMA MoveOnePlace ==
    ASSUME TypeOK, OnePlace, NEW t \in Tabs, Move(t)
    PROVE  OnePlace'
BY DEF TypeOK, OnePlace, Move

\* A move is a step of OneTimeNote: the note is burned, given or lost.
LEMMA MoveRefines ==
    ASSUME TypeOK, OnePlace, NEW t \in Tabs, Move(t)
    PROVE  [EndToEnd!Next]_(EndToEnd!notes)
<1> DEFINE sealed == IF stored THEN {TheNote} ELSE {}
           held   == IF \E u \in Tabs : OnItsWay(u) THEN {TheNote} ELSE {}
           given  == IF shown THEN {TheNote} ELSE {}
<1>1. CASE UNCHANGED <<stored, shown>> /\ OnItsWay(t)' /\ OnItsWay(t)
  <2>1. held' = held /\ sealed' = sealed /\ given' = given
    BY <1>1 DEF Move, TheNote
  <2> QED
    BY <2>1 DEF EndToEnd!notes
<1>2. CASE UNCHANGED <<stored, shown>> /\ ~OnItsWay(t)' /\ ~OnItsWay(t)
  <2>1. held' = held /\ sealed' = sealed /\ given' = given
    BY <1>2 DEF Move, TheNote
  <2> QED
    BY <2>1 DEF EndToEnd!notes
<1>3. CASE UNCHANGED <<stored, shown>> /\ ~OnItsWay(t)' /\ OnItsWay(t)
  <2>1. held = {TheNote} /\ held' = {} /\ sealed' = sealed /\ given' = given
    BY <1>3 DEF Move, OnePlace, TheNote
  <2>2. EndToEnd!Lose({TheNote})
    BY <2>1 DEF EndToEnd!Lose
  <2> QED
    BY <2>1, <2>2 DEF EndToEnd!Next
<1>4. CASE OnItsWay(t) /\ ~OnItsWay(t)' /\ shown' = TRUE /\ UNCHANGED stored
  <2>1. /\ held = {TheNote} /\ held' = {} /\ sealed' = sealed
        /\ given = {} /\ given' = {TheNote}
    BY <1>4 DEF Move, OnePlace, TheNote
  <2>2. EndToEnd!Give(TheNote)
    BY <2>1 DEF EndToEnd!Give
  <2> QED
    BY <2>1, <2>2 DEF EndToEnd!Next
<1>5. CASE stored /\ OnItsWay(t)' /\ stored' = FALSE /\ UNCHANGED shown
  <2>1. /\ sealed = {TheNote} /\ sealed' = {} /\ held = {} /\ held' = {TheNote}
        /\ given' = given
    BY <1>5 DEF OnePlace, TheNote
  <2>2. EndToEnd!Burn(TheNote)
    BY <2>1 DEF EndToEnd!Burn
  <2> QED
    BY <2>1, <2>2 DEF EndToEnd!Next
<1> QED
  BY <1>1, <1>2, <1>3, <1>4, <1>5 DEF Move

\* A request that outlives its page and the cleanup only take the note away.
LEMMA DropStep ==
    ASSUME Inv, OrphanArrives \/ Expire
    PROVE  Inv' /\ [EndToEnd!Next]_(EndToEnd!notes)
<1>1. UNCHANGED <<page, net, shown>> /\ stored' \in {stored, FALSE} /\ orphan' \in BOOLEAN
  BY DEF OrphanArrives, Expire, Inv, TypeOK
<1>2. Inv'
  <2>1. TypeOK'
    BY <1>1 DEF Inv, TypeOK
  <2>2. PagesOK'
    BY <1>1 DEF Inv, PagesOK, NetOK
  <2>3. OnePlace'
    <3>1. \A u \in Tabs : OnItsWay(u)' <=> OnItsWay(u)
      BY <1>1 DEF OnItsWay
    <3>2. (stored' => stored) /\ (shown' <=> shown)
      <4>1. CASE stored' = stored
        BY <1>1, <4>1
      <4>2. CASE stored' = FALSE
        BY <1>1, <4>2
      <4> QED
        BY <1>1, <4>1, <4>2
    <3> QED
      BY <3>1, <3>2 DEF Inv, OnePlace
  <2> QED
    BY <2>1, <2>2, <2>3 DEF Inv
<1> DEFINE sealed == IF stored THEN {TheNote} ELSE {}
           held   == IF \E u \in Tabs : OnItsWay(u) THEN {TheNote} ELSE {}
           given  == IF shown THEN {TheNote} ELSE {}
<1>3. PICK gone \in SUBSET sealed : sealed' = sealed \ gone
  <2>1. CASE stored' = stored
    BY <2>1
  <2>2. CASE stored' = FALSE
    BY <2>2
  <2> QED
    BY <1>1, <2>1, <2>2
<1>4. held' = held /\ given' = given
  BY <1>1 DEF OnItsWay
<1>5. EndToEnd!Drop(gone)
  BY <1>3, <1>4 DEF EndToEnd!Drop
<1> QED
  BY <1>2, <1>3, <1>5 DEF EndToEnd!Next

-----------------------------------------------------------------------------
\* All tabs are closed and the note is in the store.
LEMMA InitInv == Init => Inv
<1> SUFFICES ASSUME Init PROVE Inv
  OBVIOUS
<1>1. TypeOK
  BY ClosedOK DEF Init, TypeOK, Message
<1>2. PagesOK
  BY ClosedOK DEF Init, PagesOK, NetOK
<1>3. OnePlace
  BY ClosedOK DEF Init, OnePlace, OnItsWay
<1> QED
  BY <1>1, <1>2, <1>3 DEF Inv

\* Every step keeps the invariant and is one of OneTimeNote.
LEMMA NextInv ==
    ASSUME Inv, [Next]_vars
    PROVE  Inv' /\ [EndToEnd!Next]_(EndToEnd!notes)
<1>1. ASSUME NEW t \in Tabs, Reader(t) \/ PageStep(t) \/ ServerOpens(t) \/ NetworkFails(t)
      PROVE  Inv' /\ [EndToEnd!Next]_(EndToEnd!notes)
  <2>1. TypeOK' /\ PagesOK' /\ Move(t)
    BY <1>1, ReaderStep, PageStepStep, NetworkStep DEF Inv
  <2> QED
    BY <2>1, MoveOnePlace, MoveRefines DEF Inv
<1>2. CASE UNCHANGED vars
  <2>1. Inv'
    BY <1>2 DEF vars, Inv, TypeOK, PagesOK, NetOK, OnePlace, OnItsWay
  <2>2. UNCHANGED EndToEnd!notes
    BY <1>2 DEF vars, EndToEnd!notes, OnItsWay
  <2> QED
    BY <2>1, <2>2
<1> QED
  BY <1>1, <1>2, DropStep DEF Next

\* The invariant holds in every state of the tabs.
LEMMA Invariance == Spec => []Inv
BY InitInv, NextInv, PTL DEF Spec

\* A page that was hidden holds no plaintext.
THEOREM HiddenPageSilent == Spec => []HiddenPageEmpty
<1>1. Inv => HiddenPageEmpty
  BY DEF Inv, TypeOK, Page, PagesOK, PageOK, OpeningOK, HiddenPageEmpty
<1> QED
  BY <1>1, Invariance, PTL

\* The fragment stays in the URL until the reader's choice, and no longer.
THEOREM FragmentKept == Spec => []FragmentUntilChoice
<1>1. Inv => FragmentUntilChoice
  BY DEF Inv, PagesOK, PageOK, FragmentOK, FragmentUntilChoice
<1> QED
  BY <1>1, Invariance, PTL

\* The reader of an active page sees how opening the note ended.
THEOREM OutcomeTold == Spec => []OutcomeVisible
<1>1. Inv => OutcomeVisible
  BY DEF Inv, PagesOK, PageOK, OutcomeOK, OutcomeVisible
<1> QED
  BY <1>1, Invariance, PTL

\* From end to end, through any number of tabs, retries, reloads and lost
\* messages, the note is read at most once.
THEOREM Refinement == Spec => ReadAtMostOnce
<1>1. Inv /\ [Next]_vars => [EndToEnd!Next]_(EndToEnd!notes)
  BY NextInv
<1> QED
  BY <1>1, Invariance, PTL DEF Spec, ReadAtMostOnce
=============================================================================
