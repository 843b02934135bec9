--------------------------- MODULE MCServerHandler ---------------------------
(***************************************************************************)
(* Environments, addresses and requests for ServerHandler.  At startup one *)
(* setting at a time takes every interesting value, since a setting that   *)
(* is refused stops the program on its own; the settings that depend on    *)
(* the mode meet every mode.  Requests go to the servers whose settings    *)
(* bear on them.                                                           *)
(***************************************************************************)
EXTENDS ServerHandler

CONSTANTS lo, lan, pub4, pub6, linkLocal, notes, other

A(net, host, form) == [net |-> net, host |-> host, form |-> form]
Prefix(net) == {A(net, h, "plain") : h \in HostParts}

MCDefaultTrustedProxies == {Prefix(lo), Prefix(lan), Prefix(linkLocal)}
MCLoopbackPrefixes == {Prefix(lo)}

-----------------------------------------------------------------------------
\* Around zero, around MaxInt \div 4, and around MaxInt.
Sizes ==
    [amount : (-1..45) \cup (252..258) \cup (1020..1026) \cup {Junk},
     unit : DOMAIN Multiplier \cup {"tb"}]

\* Complete, missing, half a pair, or a URL that is refused.
Links == {[title |-> "terms", url |-> "rooted"], [title |-> Nil, url |-> Nil],
          [title |-> "terms", url |-> Nil]}
BadLinks == {[title |-> Nil, url |-> "rooted"], [title |-> "terms", url |-> "script"]}

Rates == [requests : {-1, 0, 1, 60, 1000, 1001}, window : {0, 1, 60, 61}, burst : {0, 1, 5000, 5001}]

Origin == [scheme |-> "https", host |-> notes, more |-> FALSE]

\* The environments of the servers that requests are sent to: nothing set; an
\* origin and all proxies named, the first by its host address; an empty list of
\* proxies with probes from elsewhere; a proxy spelled as an IPv6 address.
Served ==
    {BlankEnvironment,
     [BlankEnvironment EXCEPT !.publicOrigin = Origin,
                              !.trustedProxies = {{A(lan, 1, "plain")}, Prefix(pub6)}],
     [BlankEnvironment EXCEPT !.trustedProxies = {}, !.healthCheckSources = {Prefix(lan)}],
     [BlankEnvironment EXCEPT !.environment = "production",
                              !.trustedProxies = {{A(lan, 1, "mapped")}, Prefix(lan)}]}

MCProcesses ==
    Served
    \cup {[BlankEnvironment EXCEPT !.maxNoteSize = s] : s \in Sizes}
    \cup {[BlankEnvironment EXCEPT !.maxDBSize = s] : s \in Sizes}
    \cup {[BlankEnvironment EXCEPT !.links = l] : l \in [1..6 -> Links]}
    \cup {[BlankEnvironment EXCEPT !.links[1] = l] : l \in BadLinks}
    \cup {[BlankEnvironment EXCEPT !.rateLimit = r] : r \in Rates \cup {Junk}}
    \cup {[BlankEnvironment EXCEPT !.gracePeriod = d] : d \in {Junk, -1, 0, 60, 61}}
    \cup {[BlankEnvironment EXCEPT !.cleanupInterval = d] : d \in {Junk, 59, 60, 86400, 86401}}
    \cup {[BlankEnvironment EXCEPT !.hideGitHubLink = b] : b \in {Junk, TRUE, FALSE}}
    \cup {[BlankEnvironment EXCEPT !.environment = e, !.trustedProxies = p,
                                   !.healthCheckSources = h, !.publicOrigin = o] :
             e \in {Nil, "production", "development", "staging"},
             p \in {Nil, Junk, {}, {Prefix(pub6)}}, h \in {Nil, Junk, {Prefix(lan)}},
             o \in {Nil, Junk} \cup [scheme : {Nil, "http", "https"}, host : {Nil, notes},
                                     more : BOOLEAN]}

MCFiles ==
    {Junk, BlankEnvironment,
     [BlankEnvironment EXCEPT !.environment = "production"],
     [BlankEnvironment EXCEPT !.environment = "development",
                              !.maxDBSize = [amount |-> 2, unit |-> "gib"],
                              !.links[1] = [title |-> "terms", url |-> "rooted"]]}
NoFile == {BlankEnvironment}

-----------------------------------------------------------------------------
\* Clients on the internet, on the local network and on the host itself.
Clients == {A(pub4, 1, "plain"), A(pub4, 2, "mapped"), A(pub6, 1, "plain"),
            A(lan, 2, "plain"), A(lo, 1, "plain")}

\* The proxy next to the server, spelled both ways, and one on the internet.
Proxies == {A(lan, 1, "plain"), A(lan, 1, "mapped"), A(pub6, 2, "plain")}

Chains(proxies, hops) == UNION {[1..n -> proxies] : n \in 0..hops}

\* Nothing, another client's address, a proxy's, a bad one, empty elements.
Written == {<<>>, <<A(pub4, 2, "plain")>>, <<A(lan, 1, "mapped")>>,
            <<Junk>>, <<Nil, A(pub4, 2, "plain")>>}

\* Every way to a page, a call that changes notes, and the health check.
Journeys ==
    [client : Clients, via : Chains(Proxies, 2),
     request : {<<"GET", "/">>, <<"POST", "/api/notes/{id}/open">>, <<"GET", "/healthz">>},
     tls : BOOLEAN, cross : BOOLEAN, xFor : Written, proto : {"http", "https"},
     host : {notes, other, Junk}, forwarded : BOOLEAN]

\* Every route, from the host itself or by way of a proxy.
Routes ==
    [client : {A(pub4, 1, "plain"), A(lo, 1, "plain")}, via : Chains({A(lan, 1, "plain")}, 1),
     request : {"GET", "POST"} \X Paths, tls : BOOLEAN, cross : BOOLEAN, xFor : {<<>>},
     proto : {"http", "https"}, host : {notes}, forwarded : {FALSE}]

MCTraffic(flag, environment, dotEnv) ==
    (IF ~flag /\ environment \in Served /\ dotEnv = BlankEnvironment THEN Journeys ELSE {})
    \cup (IF environment = BlankEnvironment /\ dotEnv = BlankEnvironment THEN Routes ELSE {})

\* A proxy that connects by its link-local address.
LinkLocalTraffic(flag, environment, dotEnv) ==
    {m \in [client : {A(pub4, 1, "plain")},
            via : Chains({A(lan, 1, "plain"), A(linkLocal, 1, "zoned")}, 1),
            request : {<<"GET", "/">>}, tls : {TRUE}, cross : {FALSE}, xFor : {<<>>},
            proto : {"https"}, host : {notes}, forwarded : {FALSE}] : ~flag}
BlankOnly == {BlankEnvironment}
=============================================================================
