---------------------------- MODULE ServerHandler ----------------------------
(***************************************************************************)
(* A request on its way from a client through reverse proxies and the      *)
(* middleware of newServerHandler to a handler and back: TrustedProxy,     *)
(* Logging, SecurityHeaders, RateLimit, CSRF, the mux and the views        *)
(* (proxy.go, middleware.go, route_classifier.go, http_helpers.go,         *)
(* views.go).  The server runs with the configuration that Startup makes   *)
(* of the operator's environment.                                          *)
(*                                                                         *)
(* A forwarding header is the sequence of its comma-separated values: an   *)
(* address in any of the accepted spellings, Junk, or Nil for an empty     *)
(* value.  All values stand in one line, as reverse proxies write them:    *)
(* Header.Get reads no other line.                                         *)
(***************************************************************************)
EXTENDS Startup

CONSTANTS
    Nets4, Nets6,       \* IPv4 networks, and the /64 networks of IPv6
    HostParts,          \* the rest of an address
    Hosts,              \* the host names that requests are made to
    Templates,          \* the template files that may be broken
    Traffic(_, _, _)    \* bound: what is sent to a server that was started with
                        \* a flag, an environment and an .env file, see Send

\* "mapped" is an IPv4 address written as an IPv6 one, "zoned" an IPv6 address
\* with the interface it is valid on.
Address == [net : Nets4, host : HostParts, form : {"plain", "mapped"}]
           \cup [net : Nets6, host : HostParts, form : {"plain", "zoned"}]

ASSUME PrefixesAssumption ==
    \A p \in DefaultTrustedProxies \cup LoopbackPrefixes : p \subseteq Address

ASSUME TemplatesAssumption == Templates \subseteq {"layout", "create", "note", "error"}

VARIABLES
    broken,         \* templates that do not parse, and that fail when executed
    req,            \* the request, as the network and the server see it
    ctx,            \* HTTPContext
    w,              \* the response
    log             \* the status that LoggingMiddleware logs, Nil if nothing

vars == <<config, broken, req, ctx, w, log>>

-----------------------------------------------------------------------------
(* Addresses *)

Unmap(a) == IF a.form = "mapped" THEN [a EXCEPT !.form = "plain"] ELSE a

\* netip.Prefix.Contains: a prefix has no zone and contains no address with one.
Contains(prefix, a) == a.form # "zoned" /\ a \in prefix

PrefixContains(prefixes, a) == \E p \in prefixes : Contains(p, Unmap(a))

\* clientKey: an IPv4 address, or the /64 of an IPv6 address.
ClientKey(a) == IF a.net \in Nets4 THEN <<a.net, a.host>> ELSE <<a.net>>

\* Nil is no address and no client key.
ASSUME AddressAssumption ==
    /\ Nil \notin Address /\ Junk \notin Address
    /\ Nil \notin {ClientKey(a) : a \in Address} \cup {<<"health">>, <<"unknown">>}

-----------------------------------------------------------------------------
(* Forwarded metadata *)

\* The values of a header that are not empty, each at its place.
CommaValues(header) == [i \in {j \in DOMAIN header : header[j] # Nil} |-> header[i]]

\* The element of a set of positions that is farthest to the right.
Rightmost(is) == CHOOSE i \in is : \A j \in is : i >= j

Agree(values)  == \A i, j \in DOMAIN values : values[i] = values[j]
Common(values) == values[CHOOSE i \in DOMAIN values : TRUE]

ParseXForwardedHeaders(xFor, xProto, xHost) ==
    LET chain  == CommaValues(xFor)
        protos == CommaValues(xProto)
        hosts  == CommaValues(xHost)
    IN  IF \/ {} \in {DOMAIN chain, DOMAIN protos, DOMAIN hosts}
           \/ \E i \in DOMAIN chain : chain[i] = Junk
           \/ ~Agree(protos) \/ ~Agree(hosts)
        THEN Error
        ELSE [forChain |-> [i \in DOMAIN chain |-> Unmap(chain[i])],
              proto |-> Common(protos), host |-> Common(hosts)]

ParseForwardedMetadata(r) ==
    IF r.forwarded THEN Error ELSE ParseXForwardedHeaders(r.xFor, r.xProto, r.xHost)

\* Mutant: the address that the client claims.
ForwardedClientIPFirst(chain, proxies) ==
    IF \A i \in DOMAIN chain : PrefixContains(proxies, chain[i]) THEN Error
    ELSE chain[CHOOSE i \in DOMAIN chain : \A j \in DOMAIN chain : i =< j]

\* forwardedClientIP: the last address of the chain that is not a proxy's.
ForwardedClientIP(chain, proxies) ==
    LET untrusted == {i \in DOMAIN chain : ~PrefixContains(proxies, chain[i])}
    IN IF untrusted = {} THEN Error ELSE chain[Rightmost(untrusted)]

ForwardedPublicOrigin(host) ==
    IF host = Junk THEN Error
    ELSE ParsePublicOrigin([scheme |-> "https", host |-> host, more |-> FALSE], FALSE)

NotHttps(meta) == meta.proto # "https"

\* Mutant: the host is not compared.
HostMismatchNever(origin) == FALSE

HostMismatch(origin) == cfg.publicOrigin # Nil /\ origin.host # cfg.publicOrigin.host

IsHealthCheckRequest(r) == r.method = "GET" /\ r.path = "/healthz"

NoContext == [key |-> <<"unknown">>, origin |-> Nil, reason |-> Nil]

Reject(reason) == [NoContext EXCEPT !.reason = reason]

\* TrustedProxyMiddleware, given the address the request came from.
TrustedProxy(r, remote) ==
    LET meta   == ParseForwardedMetadata(r)
        origin == ForwardedPublicOrigin(meta.host)
        client == ForwardedClientIP(meta.forChain, cfg.trustedProxies)
    IN  IF IsHealthCheckRequest(r) /\ PrefixContains(cfg.healthCheckSources, remote)
        THEN [NoContext EXCEPT !.key = <<"health">>]
        ELSE IF cfg.isDevelopment THEN [NoContext EXCEPT !.key = ClientKey(remote)]
        ELSE IF ~PrefixContains(cfg.trustedProxies, remote) THEN Reject("untrusted_proxy_source")
        ELSE IF meta = Error THEN Reject("invalid_forwarded_metadata")
        ELSE IF NotHttps(meta) THEN Reject("forwarded_proto_not_https")
        ELSE IF origin = Error THEN Reject("invalid_forwarded_origin")
        ELSE IF HostMismatch(origin) THEN Reject("forwarded_host_mismatch")
        ELSE IF client = Error THEN Reject("invalid_forwarded_chain")
        ELSE [key |-> ClientKey(client), reason |-> Nil,
              origin |-> IF cfg.publicOrigin # Nil THEN cfg.publicOrigin ELSE origin]

-----------------------------------------------------------------------------
(* Routes *)

ApiPaths == {"/api/config", "/api/tickets", "/api/notes/{id}", "/api/notes/{id}/open",
             "/api/other"}

\* Below the version that runs: a file, a directory, a name that ends with
\* /index.html, and one that the file server does not find.
CurrentPaths == {"/static/current/file", "/static/current/dir", "/static/current/index.html",
                 "/static/current/missing"}

StaticPaths == CurrentPaths \cup
    {"/static/current/..", "/static/stale/file", "/static/file", "/static//file"}

\* Paths that are not as path.Clean would write them.
UncleanPaths == {"//", "//api/tickets", "//static/current/file", "/static//file"}

AssetPaths == StaticPaths \cup {"/favicon.ico", "/.well-known/file"}

Paths == ApiPaths \cup AssetPaths \cup UncleanPaths \cup
         {"/", "/note/{id}", "/note/bad", "/healthz", "/other"}

NoteService == {"HandleCreateTicket", "HandleCreateNote", "HandleOpenNote"}

\* The mux of newServerHandler; of its own accord it redirects to the clean path.
Mux(method, path) ==
    CASE path \in UncleanPaths -> "Redirect"
      [] method = "GET" /\ path = "/" -> "HandleCreateNoteView"
      [] method = "GET" /\ path \in {"/note/{id}", "/note/bad"} -> "HandlePreviewNote"
      [] method = "GET" /\ path = "/api/config" -> "HandleGetConfig"
      [] method = "POST" /\ path = "/api/notes/{id}" -> "HandleCreateNote"
      [] method = "POST" /\ path = "/api/notes/{id}/open" -> "HandleOpenNote"
      [] method = "POST" /\ path = "/api/tickets" -> "HandleCreateTicket"
      [] method = "GET" /\ path \in StaticPaths \ UncleanPaths -> "HandleStaticAssets"
      [] method = "GET" /\ path = "/healthz" -> "healthz"
      [] OTHER -> "NotFound"

IsStaticAssetRequest(r) == r.method = "GET" /\ r.path \in AssetPaths

\* Mutant: the method does not matter.
ExemptByPath(r) == r.path \in AssetPaths \cup ApiPaths \cup {"/healthz"}

\* Requests that RateLimitMiddleware lets pass unseen.
Exempt(r) == IsHealthCheckRequest(r) \/ IsStaticAssetRequest(r)

-----------------------------------------------------------------------------
(* Responses *)

\* Nil is no handler, no error, no reason, no host and no status.
ASSUME NilAssumption ==
    /\ Nil \notin Int
    /\ Nil \notin NoteService \cup {"HandleCreateNoteView", "HandlePreviewNote",
                  "HandleGetConfig", "HandleStaticAssets", "healthz", "NotFound", "Redirect"}
    /\ Nil \notin {"parse", "execute", "service"}
    /\ Nil \notin {"untrusted_proxy_source", "invalid_forwarded_metadata",
                  "forwarded_proto_not_https", "invalid_forwarded_origin",
                  "forwarded_host_mismatch", "invalid_forwarded_chain"}
    /\ Nil \notin {"http", "https"} /\ Nil # Junk /\ Nil \notin Hosts

\* HTTPContextMiddleware presets the status that is logged; err is HTTPContext.Err.
NoResponse == [sent |-> 0, status |-> 200, cache |-> "none", hsts |-> FALSE, handler |-> Nil,
               err |-> Nil]

\* Mutant: the first call also decides what is logged.
WriteHeaderOnce(writer, code, cache) ==
    IF writer.sent # 0 THEN writer
    ELSE [writer EXCEPT !.sent = code, !.cache = cache, !.status = code]

\* loggingResponseWriter.WriteHeader: the first call decides what is sent, the
\* last one what is logged.
WriteHeader(writer, code, cache) ==
    [writer EXCEPT !.sent   = IF @ = 0 THEN code ELSE @,
                   !.cache  = IF writer.sent = 0 THEN cache ELSE @,
                   !.status = code]

\* Write: a status of 200 is implied.
WriteBody(writer, cache) ==
    IF writer.sent = 0 THEN [writer EXCEPT !.sent = 200, !.cache = cache] ELSE writer

\* Mutant: headers are set after the status.
WriteJSONLate(writer, code) == WriteHeader(writer, code, "none")

WriteJSON(writer, code) == WriteHeader(writer, code, "no-store")

\* writeErrorResponse: JSON or text, not to be stored either way.
WriteErrorResponse(writer, code) == WriteJSON(writer, code)

\* writeInternalJSONError of the note service's handlers.
WriteInternalJSONError(writer) == [WriteJSON(writer, 500) EXCEPT !.err = "service"]

InternalServerError(writer, err) == [WriteHeader(writer, 500, "no-store") EXCEPT !.err = err]

Affected(name, templates) == {name, "layout"} \cap templates # {}

\* Views.View and execute, which runs the template before it writes anything.  The
\* templates in use are those parsed at startup, or in development the files.
View(writer, name) ==
    IF Affected(name, broken.parse) THEN InternalServerError(writer, "parse")
    ELSE IF Affected(name, broken.execute) THEN InternalServerError(writer, "execute")
    ELSE WriteBody(writer, "no-store")

NotFound(writer) == View(WriteHeader(writer, 404, "no-store"), "error")

\* What the file server may answer about a path below the version that runs: a
\* file, a part of it or what its conditions ask for; for a directory a redirect,
\* since the path has lost its last slash; for index.html a redirect, whether or
\* not there is one.  It takes the header back when it serves an error.
FileServer(path) ==
    CASE path = "/static/current/file" -> {200, 206, 304, 412} \X {"immutable"}
                                          \cup {<<416, "none">>}
      [] path \in {"/static/current/dir", "/static/current/index.html"} ->
            {<<301, "immutable">>}
      [] OTHER -> (IF cfg.isDevelopment THEN {403, 404, 500} ELSE {404}) \X {"none"}

\* HandleStaticAssets: another version or a name that leads out is not found.
StaticAsset(writer, path) ==
    {WriteHeader(writer, a[1], a[2]) :
        a \in IF path \in CurrentPaths THEN FileServer(path) ELSE {<<404, "none">>}}

-----------------------------------------------------------------------------
(* The way there *)

Idle == [at |-> "idle"]

\* What a client sends: itself, the proxies on the way, the method and the path,
\* whether it speaks TLS and is on a page of another origin, and the headers.
Message ==
    [client : Address, via : Seq(Address), request : {"GET", "POST"} \X Paths,
     tls : BOOLEAN, cross : BOOLEAN, host : Hosts \cup {Junk}, proto : {"http", "https"},
     xFor : Seq(Address \cup {Nil, Junk}), forwarded : BOOLEAN]

ASSUME TrafficAssumption ==
    \A flag \in BOOLEAN, environment \in Processes, dotEnv \in Files :
        Traffic(flag, environment, dotEnv) \subseteq Message

\* A client sends a request, to the server or by way of proxies; it may write
\* forwarding headers of its own.
Send ==
    /\ phase = "serving" /\ req.at = "idle"
    /\ \E m \in Traffic(dev, process, file) :
          req' = [at |-> "wire", method |-> m.request[1], path |-> m.request[2],
                  tls |-> m.tls, cross |-> m.cross, wanted |-> m.host,
                  route |-> <<m.client>>, ahead |-> m.via, charged |-> Nil,
                  xFor |-> m.xFor, xProto |-> <<m.proto>>, xHost |-> <<m.host>>,
                  forwarded |-> m.forwarded]
    /\ UNCHANGED <<config, broken, ctx, w, log>>

\* A proxy passes the request on.  The first one owns X-Forwarded-Proto and
\* -Host and replaces or extends X-Forwarded-For; further proxies extend it,
\* and may report the scheme of their own connection as well.
Forward ==
    /\ req.at = "wire" /\ req.ahead # <<>>
    /\ LET peer  == req.route[Len(req.route)]
           moved == [req EXCEPT !.route = Append(@, Head(req.ahead)), !.ahead = Tail(@)] IN
       \E strip \in BOOLEAN :
          req' = IF Len(req.route) = 1
                 THEN [moved EXCEPT !.xFor = Append(IF strip THEN <<>> ELSE @, peer),
                         !.xProto = <<IF req.tls THEN "https" ELSE "http">>,
                         !.xHost = <<req.wanted>>,
                         !.forwarded = IF strip THEN FALSE ELSE @]
                 ELSE [moved EXCEPT !.xFor = Append(@, peer),
                         !.xProto = IF strip THEN @ ELSE Append(@, "http")]
    /\ UNCHANGED <<config, broken, ctx, w, log>>

-----------------------------------------------------------------------------
(* The server *)

SecurityHeaders(writer) == [writer EXCEPT !.hsts = ~cfg.isDevelopment]

\* HTTPContextMiddleware, TrustedProxyMiddleware and, for what passes it,
\* SecurityHeadersMiddleware; a rejected request is not logged as a request.
Arrive ==
    /\ req.at = "wire" /\ req.ahead = <<>>
    /\ ctx' = TrustedProxy(req, Unmap(req.route[Len(req.route)]))
    /\ IF ctx'.reason # Nil
       THEN req' = [req EXCEPT !.at = "done"] /\ w' = WriteErrorResponse(w, 400)
       ELSE req' = [req EXCEPT !.at = "limiter"] /\ w' = SecurityHeaders(w)
    /\ UNCHANGED <<config, broken, log>>

\* RateLimitMiddleware; the limiter's answer is the business of RateLimiter.
RateLimit ==
    /\ req.at = "limiter"
    /\ \/ Exempt(req) /\ req' = [req EXCEPT !.at = "csrf"] /\ w' = w
       \/ /\ ~Exempt(req)
          /\ \/ req' = [req EXCEPT !.at = "csrf", !.charged = ctx.key] /\ w' = w
             \/ /\ req' = [req EXCEPT !.at = "answered"]
                /\ w' = WriteErrorResponse(w, 429)
    /\ UNCHANGED <<config, broken, ctx, log>>

\* CSRFMiddleware: http.CrossOriginProtection refuses what would change state.
CSRF ==
    /\ req.at = "csrf"
    /\ IF req.cross /\ req.method = "POST"
       THEN req' = [req EXCEPT !.at = "answered"] /\ w' = WriteHeader(w, 403, "none")
       ELSE req' = [req EXCEPT !.at = "mux"] /\ w' = w
    /\ UNCHANGED <<config, broken, ctx, log>>

\* The handler that the mux finds.  What the note service answers is the
\* business of NoteService; its handlers write JSON.
Handle ==
    /\ req.at = "mux"
    /\ req' = [req EXCEPT !.at = "answered"]
    /\ LET h  == Mux(req.method, req.path)
           w0 == [w EXCEPT !.handler = h] IN
       \/ h = "HandleCreateNoteView" /\ w' = View(w0, "create")
       \/ h = "HandlePreviewNote" /\ w' = IF req.path = "/note/bad" THEN NotFound(w0)
                                          ELSE View(w0, "note")
       \/ h = "HandleGetConfig" /\ w' = WriteJSON(w0, 200)
       \/ h \in NoteService /\ w' \in {WriteJSON(w0, 200), WriteJSON(w0, 400),
                                        WriteInternalJSONError(w0)}
       \/ h = "HandleStaticAssets" /\ w' \in StaticAsset(w0, req.path)
       \/ h = "Redirect" /\ \E code \in {301, 307} : w' = WriteHeader(w0, code, "none")
       \/ h = "healthz" /\ w' = WriteHeader(w0, 200, "no-store")
       \/ h = "NotFound" /\ w' = NotFound(w0)
    /\ UNCHANGED <<config, broken, ctx, log>>

\* isSuccessfulStaticRoute: the route is that of the clean path.
IsSuccessfulStaticRoute(r, code) ==
    /\ r.method = "GET" /\ r.path \in StaticPaths \cup {"//static/current/file"}
    /\ code < 400

\* The end of LoggingMiddleware; successful static requests are not logged.
Log ==
    /\ req.at = "answered"
    /\ req' = [req EXCEPT !.at = "done"]
    /\ log' = IF IsSuccessfulStaticRoute(req, w.status) THEN Nil ELSE w.status
    /\ UNCHANGED <<config, broken, ctx, w>>

\* Nothing of a request outlives it.
Finish ==
    /\ req.at = "done"
    /\ req' = Idle /\ ctx' = NoContext /\ w' = NoResponse /\ log' = Nil
    /\ UNCHANGED <<config, broken>>

\* NewViews: all templates parse, or in development none is looked at.  Neither
\* way is one executed.
NewViews(isDevelopment, templates) == isDevelopment \/ templates.parse = {}

\* A template fails in one way at most: what does not parse is not executed.
Breakages == {b \in [parse : SUBSET Templates, execute : SUBSET Templates] :
                 b.parse \cap b.execute = {}}

\* run: with its configuration the process parses the templates and serves.
BuildHandler ==
    /\ phase = "parsed"
    /\ broken' \in Breakages
    /\ phase' = IF NewViews(cfg.isDevelopment, broken') THEN "serving" ELSE "aborted"
    /\ UNCHANGED <<dev, process, file, env, cfg, req, ctx, w, log>>

\* A developer edits the templates while the server runs.
EditTemplate ==
    /\ phase = "serving" /\ cfg.isDevelopment
    /\ broken' \in Breakages
    /\ UNCHANGED <<config, req, ctx, w, log>>

Init ==
    /\ StartupInit
    /\ broken = [parse |-> {}, execute |-> {}]
    /\ req = Idle /\ ctx = NoContext /\ w = NoResponse /\ log = Nil

Next ==
    \/ Start /\ UNCHANGED <<broken, req, ctx, w, log>>
    \/ BuildHandler
    \/ Send \/ Forward \/ Arrive \/ RateLimit \/ CSRF \/ Handle \/ Log \/ Finish
    \/ EditTemplate

Spec == Init /\ [][Next]_vars

-----------------------------------------------------------------------------
(* Properties *)

InProduction == ~dev /\ req.at # "idle"
Done         == req.at = "done"
LastHop      == req.route[Len(req.route)]
Proxied      == Len(req.route) > 1

\* The addresses the request really came along that are not trusted as proxies.
Strangers == {i \in DOMAIN req.route : ~PrefixContains(cfg.trustedProxies, req.route[i])}

\* In production the limiter charges the nearest sender of the request that is
\* not a trusted proxy, IPv6 by its /64, whatever the client wrote into the
\* forwarding headers and however the addresses are spelled.  (A client that is
\* itself in a trusted range has no stranger on its way.)
SenderPays ==
    InProduction /\ req.charged # Nil /\ Strangers # {} =>
        req.charged = LET a == req.route[Rightmost(Strangers)]
                      IN IF a.net \in Nets4 THEN <<a.net, a.host>> ELSE <<a.net>>

\* The note service is reached only by requests that the limiter has seen and
\* that are not cross-origin, and in production every page and call comes from a
\* trusted proxy, and over TLS if a client talked to one.  Only then, or to a
\* health check, which skips the proxy's metadata, does the server answer with
\* Strict-Transport-Security.
ServiceGuarded ==
    Done =>
        /\ w.handler \in NoteService => req.charged # Nil /\ ~req.cross
        /\ InProduction /\ w.handler \notin {Nil, "healthz"} =>
              /\ PrefixContains(cfg.trustedProxies, LastHop)
              /\ Proxied => req.tls
        /\ w.hsts => \/ IsHealthCheckRequest(req)
                     \/ ~dev /\ (Proxied => req.tls)

\* A note's payload, a ticket, a page or an error about them is never stored by
\* a cache: without no-store go only static files, redirects to the clean form of
\* a path that the client wrote, and refusals of the cross-origin protection.
\* What may be kept for ever is an answer of the file server about the version
\* that runs, and never one that a file is missing or could not be read: the
\* header is set before the file server looks for the file.
NothingPrivateCached ==
    Done => /\ w.handler \notin {"HandleStaticAssets", "Redirect"} /\ w.sent # 403 =>
                  w.cache = "no-store"
            /\ w.cache = "immutable" =>
                  /\ w.handler = "HandleStaticAssets" /\ req.path \in CurrentPaths
                  /\ w.sent \in {200, 206, 301, 304, 412}

\* Every request is answered, and logged unless TrustedProxyMiddleware rejected it
\* or it found a static file or a redirect.  The status in the log is the one the
\* client got, with one exception: a page that fails after its 404 was written.
\* Nothing else tells the operator of a failure, and so each one, of a template or
\* of the service, is logged as 500 with its cause, and nothing else is (files on
\* a developer's disk apart).  In production no cause is a template that does not
\* parse; one that fails when it is executed may be.
LoggedAsSent ==
    Done => /\ w.sent # 0
            /\ log = Nil => \/ ctx.reason # Nil
                            \/ w.handler \in {"HandleStaticAssets", "Redirect"} /\ w.sent < 400
            /\ log # Nil => log = w.sent \/ (w.sent = 404 /\ w.err \in {"parse", "execute"})
            /\ w.err # Nil => log = 500
            /\ log = 500 => w.err # Nil \/ (dev /\ w.handler = "HandleStaticAssets")
            /\ w.err = "parse" => dev

\* A health check that comes from the host itself or from a trusted proxy is
\* answered whatever the configuration and the limiter say.
HealthAnswered ==
    Done /\ IsHealthCheckRequest(req)
    /\ (\/ PrefixContains(LoopbackPrefixes, LastHop)
        \/ ~dev /\ PrefixContains(cfg.trustedProxies, LastHop))
    => w.sent = 200 /\ req.charged = Nil

\* The links a page makes lead back to the host its browser asked for, by https,
\* and to the operator's public origin if there is one.
LinksLeadBack ==
    Done /\ ~dev /\ Proxied /\ w.handler = "HandleCreateNoteView" =>
        /\ ctx.origin = [scheme |-> "https", host |-> req.wanted]
        /\ env.publicOrigin # Nil => ctx.origin.host = env.publicOrigin.host

\* README: NOTE_TRUSTED_PROXIES is needed only for a proxy outside the default
\* private, loopback, link-local, and unique-local ranges.
DefaultRangesTrusted ==
    Done /\ ~dev /\ env.trustedProxies = Nil
    /\ (\E p \in DefaultTrustedProxies : \E a \in p :
           a.net = LastHop.net /\ a.host = LastHop.host)
    => ctx.reason # "untrusted_proxy_source"
=============================================================================
