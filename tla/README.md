# One Time Note: specification, model checking and proofs

TLA+ models of the one-time-note server and of its two browser pages, the TLC
runs that check them on small instances, and TLAPS proofs of the main results
for every instance. `PROJECT.json` lists the runs, the source lines behind each
definition, the hazards and the theorems.

## The system

| Part | State | Operations | Meets the others through |
|---|---|---|---|
| Note service (`note_service.go`) | buckets `metadata`, `notes`, `used_tickets` | `CreateNote`, `OpenNote`, `Cleanup`, `StartupMaintenance` | bbolt transactions, called by handlers and the cleanup goroutine |
| Tickets (`ticket.go`, `burn_token.go`) | none; signed by the root key | `CreateTicket`, `verifyTicket` | read the root key, checked before a create |
| Root key (`root_key.go`) | one record | `EnsureRootKeys` | signs tickets, keys the verifiers of notes |
| Database (`database.go`) | the file, its schema version | `openDB` | everything that survives a crash |
| Handlers (`handlers.go`) | none | create ticket, create note, open note, pages | order of the checks, statuses |
| Ids and sizes (`common.go`, `note_id.go`, `handlers.go`, `create-note.js`) | none | `ParseNoteID`, `decodeStrictJSON`, the page's estimate | paths, request bodies and limits |
| Rate limiter (`rate_limiter.go`) | map of token buckets | `AllowRequest` | in front of every handler |
| Trusted proxies (`proxy.go`) | the request's `HTTPContext` | `TrustedProxyMiddleware` | the limiter's client key, the origin of the links |
| Routing and middleware (`main.go`, `middleware.go`, `route_classifier.go`, `http_helpers.go`) | the response writer | the chain of `newServerHandler` | wraps every handler |
| Configuration (`config.go`, `main.go`) | `Config`, fixed after startup | `loadDevelopmentEnv`, `NewConfigWithOptions` | read by all of the above |
| Views (`views.go`) | parsed templates | `View`, `NotFound` | pages |
| Static assets (`static_assets.go`) | the version of the build | `NewAssetVersion`, `HandleStaticAssets` | pages, browser cache |
| Server process (`main.go`) | goroutines, context, channel | `run`, `serveServer` | starts and stops all of the above |
| View page (`view-note.js`, `browser-lifecycle.js`) | secret, panels, fields | View Note, Cancel, pagehide, pageshow | fetches the open handler |
| Create page (`create-note.js`) | draft, attempts, link | input, submit, pagehide | fetches the ticket and create handlers |

What is hard here: `verifyTicket` and the clock readings of `CreateNote`,
`OpenNote` and `Cleanup` come before the transactions that rely on them; a full
database makes a create clean up and try again among other creators; commits
fail and the process dies between a commit and the response; the limiter
forgets buckets; six middleware wrappers are right only in their order, and
what they decide comes from headers that a client may write too; pages and
their scripts come from different deployments; the shutdown waits for
goroutines that use the database; the pages go on after an `await` in a world
where the user has left, typed, submitted again or opened a second tab.

## Modules

* `OneTimeNote` – the promise: a note is sealed, burned at most once in the
  step that hands it to one opener, given to one reader or lost, or dropped; it
  never returns.
* `NoteService` – tickets, notes, root key, database, handlers, startup, the
  cleanup goroutine, the clock, failing commits and crashes. Each `db.Update`
  is one step, since bbolt runs write transactions one at a time and commits
  all or nothing. Everything before a transaction is a step of its own:
  `BeginCreateNote` (checks and `verifyTicket`), `StampNote` (second clock
  reading), `TryCreate` (the transaction), `SweepReadsClock` and `SweepCommits`
  (cleanup on a full database), again `TryCreate`, `Reply`. `BeginOpenNote`
  reads the clock, `OpenNote` is the transaction. A payload is named
  `<<id, n>>`, the n-th note stored under an id, so that two notes under one id
  are told apart. HMACs are ideal: `BurnTokenVerifier(key, token)` is the pair.
  `MCNoteService` adds the symmetry of ids, tokens and handlers.
  Theorems: `NoteServiceProofs`.
* `NoteIDText`, `NoteRequest` – canonical base64url of ids, where bytes and
  characters are sequences of bits that are grouped anew, and the lengths a
  note has on its way: the text, the page's estimate, the envelope that
  `encryptString` makes, the JSON body, the limits of `decodeStrictJSON` and of
  `CreateNote`. `MCNoteRequest` chooses texts, limits and paths;
  `NoteRequestProofs` has the theorems.
* `TokenBuckets` – the promise of the limiter: one bucket per client, never
  forgotten, except that a client may get back what it spent before a pause of
  the sweep's age, or, in a full table, of the idle age.
* `RateLimiter` – `AllowRequest` as one step (it holds the mutex throughout):
  sweep, room or eviction, the bucket, the retry time as the `Retry-After`
  header prints it. Tokens are counted in units of which `Requests` flow in per
  tick and a request costs `Window`, so no fractions occur. `MCRateLimiter`
  adds the symmetry of clients; `RateLimiterProofs` has the theorems.
* `Config` – operators: what `NewConfigWithOptions` makes of an environment,
  error or configuration, every setting that can be refused included. The word
  in which sizes are multiplied is the constant `MaxInt`; the units are
  `Kilo` and `Kibi`.
* `Startup` – `loadDevelopmentEnv` and the parsing of the configuration as steps
  of a process, for every flag, process environment and `.env` file.
* `ServerHandler` (extends `Startup`) – a server with the configuration startup
  gave it, and a request from a client through proxies, one hop per step, then
  through the chain of `newServerHandler`, one step per middleware, to the mux,
  the handler, the response writer and the log. `MCServerHandler` chooses the
  environments, networks and requests; `ServerHandlerProofs` has the theorems
  about startup and about requests.
* `StaticAssets` – builds that replace one another, pages that load the files
  named by their version, and a browser cache that keeps immutable files.
  `MCStaticAssets` chooses names and contents; `StaticAssetsProofs` has the
  theorems.
* `ServerLifecycle` – the goroutines of `run` and `serveServer`, the context,
  the channel `serveErr`, the handlers of net/http and the database handle,
  with and without a grace period. Theorems: `ServerLifecycleProofs`.
* `ViewPage` – several tabs with links to one note. Each handler and each
  continuation after an `await` is a step. A page that is put into the page
  cache may come back (`PageShow`) and reload later; a page that is gone may
  leave a request behind (`orphan`). The server is what `OneTimeNote` promises.
  Theorems: `ViewPageProofs`.
* `CreatePage` – one page with several attempts to save. An attempt stands for
  its ticket's id and token and its key. Nothing in the code keeps attempts
  apart (the input handler enables the button, Ctrl+Enter ignores it), and so
  the model lets them overlap. Theorems: `CreatePageProofs`.

Definitions whose comment says *Mutant* are wrong on purpose: each replaces the
definition after it to show that a property can fail.

## Runs

| Run | Checks | Bounds |
|---|---|---|
| `note_service` | types; one delivery; stored notes openable; markers outlive tickets; notes leave only burned or expired; no reuse of a valid ticket; refinement of `OneTimeNote` | 1 id, 2 tokens, 2 handlers, one kind of body for each status, a lifetime that is legal and one too long, 1 failed commit, 1 crash, clock 1..3, set back once |
| `shared_storage` | 409 means used, notes leave only burned or expired, on a full database | 2 ids in a database for 1, 2 handlers, the other kinds of body, a lifetime that is legal and one too short, 1 failed commit, clock 1..3 |
| `service_live` | expired records are removed, requests end (liveness) | 2 ids in a database for 1, 1 handler, 1 failed commit, 1 crash |
| `ticket_one_use` | violated: see Findings | 1 id, clock 1..3 |
| `note_request` | what the page accepts fits the server's limits; an id has one text | texts and limits around 256, 1024 and 1500 bytes; all paths of up to 4 characters |
| `rate_limiter` | bounded map and balances, refinement of `TokenBuckets`, `Retry-After` is honoured | 3 clients, 2 buckets, clock 1..9, a bucket that takes 12 ticks to fill and is swept after 8 |
| `server` | sizes as written, links shown, development only with `--dev`; the sender pays, the service is guarded, health checks answered, links lead back, nothing private cached, the log says what was sent | sizes around 0, `MaxInt / Kibi` and `MaxInt`, six links of each kind, all modes and origins; 5 clients, up to 2 proxies in two spellings, every kind of header; all routes, unclean paths and names that the file server redirects; the layout and the error page failing to parse or to execute, in any combination |
| `server_link_local` | violated: see Findings | one client, one proxy |
| `static_assets` | a page is of one build, a current page is complete | 2 files, contents up to 2 bytes, 2 redeployments |
| `server_lifecycle` | the database outlives its users, result, the process ends (liveness) | 2 requests, with and without a grace period |
| `view_page` | hidden page empty, fragment until choice, outcome visible, read at most once, opening ends (liveness) | 2 tabs, all kinds of link, any number of losses and reloads |
| `create_page` | hidden page empty, link is saved, outcome reported, no attempt after a link, attempts end (liveness) | 2 attempts, 3 texts, one too large |

Why the bounds are enough. One id and two handlers have every race for one
note (two opens, open and create, two creates with one ticket, each with the
cleanup), and a clock to 3 lets a ticket and a note of lifetime 1 expire with a
tick to spare for the cleanup; two ids matter only through the capacity, which
`shared_storage` and `service_live` set to 1, and a commit that fails in
`shared_storage` may be that of the cleanup in the middle of a create. The limiter needs a third client
to fill two slots and a clock long enough for a sweep and a refill. In `server`
one setting at a time takes all its values, because a setting that is refused
stops the program on its own, and settings that depend on the mode meet every
mode; requests go to the five servers whose settings bear on them (`Traffic`:
every journey to the four environments of `Served` in production, every route to
the blank environment in both modes). A request is served alone, since the chain
keeps nothing between requests but the limiter, which has its own module. With
two proxies an untrusted one can stand before a trusted one; `MaxInt` is 1023
and `Kibi` 4, so that products of three units overflow as they do with 2^63 and
1024. Two tabs, and two attempts, have every pairwise race; the pages have no
other bound. Deadlock checking is off where the system may stop: a process that
exits, a start that fails, a request that is answered.

Fairness. Goroutines that can run do run (weak fairness per handler, of startup
and of the cleanup goroutine); a dead process is restarted, as the deployment's
restart policy does; the ticker fires again and again; only finitely many
commits fail. Nobody owes the service a request. In `ServerLifecycle` the
`select` takes the branch of the context in the end (strong fairness): that
branch stays ready, while the ticker's is ready once per interval, and Go picks
among ready branches at random. In the pages, continuations run unless the page
is in the page cache, and a fetch settles, if only through the timeouts of the
browser and of the server (30 s for writing).

What the runs assume and say beyond the properties:

* `MarkerOutlivesTicket`, `NoReuseWhileValid` and `NoteLeavesBurnedOrExpired`
  speak of executions in which the clock has not been set back: otherwise a
  marker can be removed before its ticket expires by the new time. Delivery,
  refinement and openability hold with set-backs too.
* `validateRateSpec` accepts rates whose bucket takes longer to fill than it is
  kept (1/min with burst 5000, TTL one hour): there a client that pauses for the
  TTL starts again with a full bucket. `TokenBuckets` allows exactly that, and an
  eviction from a full table what a client would not have regained in a minute;
  the run uses such a rate. With `Burst * Window <= TTL * Requests`, as with the
  default (60/min, burst 120), the sweep gives nothing away.
* `SenderPays` and `ServiceGuarded` rest on the deployment (`README.md`,
  `deploy/caddy/Caddyfile`): the outermost proxy sets `X-Forwarded-Proto` and
  `-Host` itself, and overwrites `X-Forwarded-For` or extends it. A client whose
  own address lies in a trusted range has no stranger on its way and may say
  what it likes. Health checks skip the check of the scheme.
* `ImplementsOneTimeNote` is checked with room to spare; that it also holds on a
  full database, with its cleanup and retry, is the theorem `Refinement`.
* `NoteLeavesBurnedOrExpired`: an open request that came before the note expired
  gets it although it waited for the write lock past that moment, because
  `OpenNote` reads the clock first. One that came later never does, and no note is
  deleted before its time on an old reading.
* `LinksShown` lets links after an empty pair be dropped without a word. That is
  what `config_test.go` (`TestNewConfigStopsLegalLinksAtFirstEmptyPair`) and the
  repository's README ("contiguous") ask for; the property is that nothing before
  the first empty pair is lost, and that half a pair or a sixth link stops the
  program.
* `NothingPrivateCached`: three kinds of answer go out without `no-store`, and the
  property names them: static files, refusals of the cross-origin protection
  (403), and redirects of the mux to the clean form of a path (301 or 307), which
  repeat only what the client asked for. `HandleStaticAssets` sets the immutable
  header before the file server runs. The file server takes it back when it serves
  an error (404, 416, and in development 403 or 500), but not on the 206, 304 or
  412 of a conditional or partial request, nor on the 301 that answers a directory
  or any name ending in `/index.html`, file or not. Such a redirect may therefore
  be kept for a year, under the path of one version of the files.
* `LoggedAsSent` has one exception: the status page of a 404 whose own template
  fails is sent as 404 and logged as 500. In development the template may fail to
  parse or to execute, in production only to execute: `NewViews` parses every
  template and executes none, so that a page may answer 500 there too.
* The page reckons with a protected header of 35 bytes, and the header has 23:
  texts in this margin (16 characters of base64) are refused by the page although
  the server would take them. The other direction is `AcceptedTextFits`.
* "507 only if no expired note took the room" is not stated: a creator that is
  slow between its stamp and its transaction may store a note that is stale
  already, after the cleanup of another.
* `CreatePage`: two overlapping attempts both store notes, and the second link
  replaces the first; text typed during a save is cleared with the saved text.
  Each link shown is right, and nothing documented is contradicted.

## Findings

`ticket_one_use` – `README.md` calls the creation ticket "one-use". Two requests
with the same ticket can both pass `verifyTicket` just before it expires; one
stores its note, the note is opened, the ticket expires, a cleanup removes the
marker, and the other request finds no trace of the first and stores a second
note. The transaction does not check the ticket's expiry again. While the
ticket is valid this cannot happen (`NoReuseWhileValid`, proved).

`server_link_local` – `README.md` counts link-local addresses among the ranges
that are trusted by default. A connection from `fe80::/10` has a zone, which
`remoteAddrIP` keeps, and a `netip.Prefix` contains no address with a zone: such
a proxy gets 400.

Met while modelling, and not a run: `README.md:75` says that plain `go run .`
fails unless production-required settings are present. `NewConfigWithOptions`
requires no setting in production: the blank environment starts (`server`).

## Proofs

Each theorem holds for arbitrary values of the constants, under the assumptions
named in the modules, which TLC evaluates on the instances:

* `NoteService`: arbitrary sets of ids, tokens and handlers and arbitrary bounds,
  where times and bounds are natural numbers, lifetimes are positive, and `Nil`
  is none of the values it is told apart from.
* `NoteRequest`: every length of text, every configured limit and all tickets of
  the widths that `signTicket` produces; ids of any positive length and any widths
  of bytes and characters that are as 4 to 3. Line breaks and characters outside
  the alphabet are not of the alphabet, and an error is no id. Nothing is assumed
  of the text in the path.
* `RateLimiter`: any clients and every rate `validateRateSpec` accepts; times are
  natural numbers and a second is an even number of ticks, because `Retry-After`
  is rounded to the nearest second.
* `Config`, `Startup`, `ServerHandler`: any networks, addresses, hosts and
  templates, any set of environments in which every variable can be read and one
  pair of links more than is shown, and any requests (`TrafficAssumption`: a
  client, a list of proxies, headers). `Nil`, `Junk` and `Error` are none of the
  values they stand beside: Go tells them apart by type.
* `StaticAssets`: any files with distinct names and any builds of them, which may
  lack files. Names and contents have no zero byte, as the scripts, the style
  sheet and the SVG that are embedded have none; with a binary file that has
  one, `NewAssetVersion` would not tell all builds apart.
* `ServerLifecycle`, `ViewPage`, `CreatePage`: any number of requests, tabs and
  attempts.

| Module | Theorem | Says |
|---|---|---|
| `NoteServiceProofs` | `TypeCorrect` | `Spec => []TypeOK` |
| | `OneDelivery` | `Spec => []OneDeliveryPerNote` |
| | `Refinement` | `Spec` implements `OneTimeNote` |
| | `Openable` | `Spec => []StoredNotesOpenable` |
| | `ConflictSound` | `Spec => ConflictMeansUsed` |
| | `MarkersKept` | `Spec => []MarkerOutlivesTicket` |
| | `NoReuse` | `Spec => NoReuseWhileValid` |
| | `NotesKept` | `Spec => NoteLeavesBurnedOrExpired` |
| `NoteRequestProofs` | `TextFits` | `Spec => []AcceptedTextFits` |
| | `CanonicalText` | `ParseNoteID(value) = id` if and only if `value` is `B64Encode(id)` |
| | `OneText` | `Spec => []OneTextPerID` |
| `StaticAssetsProofs` | `HashInputTellsBuildsApart` | builds with the same `HashInput` are the same |
| | `OneBuild` | `Spec => []PageOfOneBuild` |
| | `CurrentComplete` | `Spec => CurrentPageComplete` |
| `RateLimiterProofs` | `TableBounded` | `Spec => []BucketsBounded` |
| | `Refinement` | `Spec` implements `TokenBuckets` |
| | `PromiseKept` | `Spec => RetryAfterHonoured` |
| `ServerHandlerProofs` | `SenderCharged` | `Spec => []SenderPays` |
| | `ServiceIsGuarded` | `Spec => []ServiceGuarded` |
| | `HealthChecked` | `Spec => []HealthAnswered` |
| | `LinksReturn` | `Spec => []LinksLeadBack` |
| | `NothingCached` | `Spec => []NothingPrivateCached` |
| | `LogTrue` | `Spec => []LoggedAsSent` |
| | `DevelopmentExplicit` | `Spec => []DevelopmentIsExplicit` |
| | `SizesRight` | `Spec => []SizesAsWritten` |
| | `LinksAreShown` | `Spec => []LinksShown` |
| `ServerLifecycleProofs` | `DatabaseSafe` | `Spec => []DatabaseOutlivesUsers` |
| | `ResultRight` | `Spec => []ErrorIffServingFailed` |
| `ViewPageProofs` | `HiddenPageSilent` | `Spec => []HiddenPageEmpty` |
| | `FragmentKept` | `Spec => []FragmentUntilChoice` |
| | `OutcomeTold` | `Spec => []OutcomeVisible` |
| | `Refinement` | `Spec => ReadAtMostOnce`: the pages implement `OneTimeNote` |
| `CreatePageProofs` | `LinkRight` | `Spec => []LinkIsSaved` |
| | `HiddenPageSilent` | `Spec => []HiddenPageEmpty` |
| | `LinkKept` | `Spec => NoAttemptAfterLink` |
| | `OutcomeTold` | `Spec => OutcomeReported` |

The arguments, by component.

*Note service.* `Types` strengthens `TypeOK` by what the local variables of a
handler hold at each of its labels. `NoteInv` says where a note can be: numbered
no higher than the count of its id, under its own id in the store, in the hands
of a handler only while it replies, and in one place only. `NextNoteStep` first
classifies every step by what it does to notes (nothing, store, burn, reply,
drop), and `NoteStepInv` and `StepAbstract` then argue over those five cases,
which also are the steps of `OneTimeNote`. `KeyInv` ties
tickets, creates under way and stored records to the root key and to each other;
it needs that a create under way carries the data of an issued ticket, which the
signature gives (`VerifiedTicketIssued`). `ClockInv` says that, as long as the
clock has not been set back, no reading held by a cleanup or a handler is ahead
of the clock, and a used ticket has its marker until it expires; a set-back makes
its hypothesis false for good, so that it is inductive without any assumption on
the number of set-backs.

*Sizes of a request.* `TextFits` rests on where the lengths of a request come
from (`SizeInv`), on the estimate being no less than the envelope
(`EstimateCovers`) and on the greatest length of a ticket (`TicketFits`).

*The text of an id.* In one direction the comparison at the end of `b64Decode` is
the whole argument: what is accepted is what the id prints. In the other,
`RoundTrip` follows a bit: bit `p` of an id is in character `p \div CharBits`, at
place `p % CharBits`, and `DecodeString` looks for it there (`PlaceOfBit`,
`BitOfPlace`); the filling is beyond the last byte, so no bit of the id is taken
from it. `Lengths` splits the length of an id by its remainder modulo 3: the
length of the text is none that `DecodeString` refuses, and `DecodedLen` gives the
length of the id back. The inductive invariant of `OneText` is that the handler's
id, once there is one, is what `ParseNoteID` makes of the path.

*Static assets.* The heart is `HashInputTellsBuildsApart`. Take the first file in
which two builds differ. Up to it both have written the same bytes (`SameSoFar`).
If both have the file, their entries differ: a zero byte ends the name, and one
ends the content, so that the shorter content would end where the longer goes on
(`EntryUnique`). If only one has it, the other has written nothing more, or the
entry of a later file, which has another name (`FirstDifference`). What follows
never changes what was written (`FlatteningGrows`). Inductions along the walk are
made with sets of numbers and their least elements (`Induction`), since the
library's induction theorems cannot be applied here. With it, `Inv` is inductive:
the versions of the server and the page are those of their builds, and each file
in the cache belongs to a build with the version it is kept under. Neither
property is inductive alone, because a page trusts a cache filled by pages and
servers that are gone.

*Rate limiter.* No bucket was used or seen after now (`Table`), the table is
finite and within its limit (`Bounded`), and a bucket whose client was told when
to come back holds the price of a request by then (`PromiseInv`). The last is
the strengthening `RetryAfterHonoured` needs: it survives other clients, ticks,
sweeps and evictions because a bucket that is forgotten is full when it comes
back. The refinement shows that a request is a step of the abstract bucket after
the forgetting of `SweepStep`, and that an eviction gives a client no more than a
pause would (`IdleRegained`). `RetryAfterSuffices` is the arithmetic of a header
rounded to the nearest second.

*Startup and requests.* `StartInv` follows the process: a server that serves has
the configuration `NewConfig` made, in production of the operator's environment
alone and with templates that parse (`ViewOK`: then a page fails only when it is
executed), and one that failed had an error.
`RequestInv` is about the network: with `RouteOK` the headers a request carries
match the way it really took, place by place, from the outermost proxy on,
whatever the client wrote before. `PassageInv` says what holds at each middleware
behind the point that establishes it: the metadata that was accepted and the key
that was charged (`TrustedAs`), that nothing has been written yet (`Unanswered`),
and what the response of each handler looks like (`Answered`): what is sent and
what is kept for the log, with the cause of a failure (`TruthKept`), and what
caches may keep (`CacheKept`); `Logged` ties the log to it. From these:
`SenderFound`, the right-to-left search of `forwardedClientIP` finds the nearest
stranger of the real route, because a chain cut at any trusted place has the same
tail; `TrustedProxyOK`, what `TrustedProxyMiddleware` lets through; `HandleOK`,
the status, cache header and logged status of every route. The sizes rest on
`SuffixOK` (which of the overlapping suffixes is taken), `ProductOK` (the guard
`amount > MaxInt / multiplier` is exact) and `OnlySizesRefused` (with only sizes
set nothing else stops the program); the links on `LinkStopOK`, which is about
the first empty pair.

*Process.* `GoroutineInv` ties the two goroutines to the point `run` has reached,
`RequestInv` says that after `Shutdown` a request is left only if the grace period
is over, and `ErrorInv` where the error of `Serve` is: in the goroutine, in the
channel, or received.

*Pages.* In the view page a running `retrieveNote` sits in a page that asks for
confirmation, with its button disabled and a secret in hand (`OpeningOK`), a
message is on its way only to a page that waits for it (`NetOK`), and the note
is in one place (`OnePlace`): stored, on its way to one tab, or past. Every step
of a tab is put into one of a few moves of the note (`Move`), which are the
steps of `OneTimeNote`. In the create page each attempt has a text once it goes
on, the server has that text or none (`AttemptInv`, `NetInv`), and the link
belongs to a note that is saved (`LinkInv`); nothing relates two attempts, which
is why they may overlap.

Only model-checked, and why: liveness (`ExpiredRecordsRemoved`, `RequestsEnd`,
`ProcessEnds`, `OpeningEnds`, `AttemptsEnd`), which needs fairness and `ENABLED`,
and these are out of the prover's reach. Every invariant and every action
property that a run checks is also a theorem, except the two that the runs
`ticket_one_use` and `server_link_local` refute.

## Not modelled

Logging except for the statuses it reports. File modes and directories of the
database, which are I/O. Host, port, database path and display texts, which are
copied as they are; variables that hold only whitespace, which the code treats as
empty. HEAD requests, a header repeated in several lines
(`Header.Get` reads the first one; proxies write one line, as Caddy does), a remote
address that does not parse (`proxy.go:22`; net/http always gives one that does),
the labels of routes in the log, and the security headers
other than `Strict-Transport-Security`, which are constants. What templates
print, and `Views.Error`, which nothing calls. Static files edited under a fixed
version in development; the hash of the version is one-to-one. The arithmetic
and layout of the expiration controls, and copying and downloading in the view
page. JSON syntax and cryptography are ideal; base64url is modelled for ids only.
Records that do not decode cannot be produced by the modelled code;
`ValidMetadata` is still checked where the code checks it.

## Plan

1. Done: `NoteService` with its abstract specification and theorems, the rate
   limiter, the process, both pages.
2. Done: configuration and startup, proxies, middleware and routes, views,
   static assets, ids and sizes; the limiter with every legal rate.
3. Done: theorems about the limiter, startup and requests, the process and both
   pages.
4. Done: that the input of `NewAssetVersion` and the text of an id are
   one-to-one, and from it `PageOfOneBuild`, `CurrentPageComplete` and
   `OneTextPerID`.
