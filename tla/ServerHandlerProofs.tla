------------------------- MODULE ServerHandlerProofs -------------------------
(***************************************************************************)
(* The start of the process and the way of a request through the           *)
(* middleware, for every environment, network, chain of proxies and        *)
(* request.                                                                *)
(***************************************************************************)
EXTENDS ServerHandler, SequenceTheorems, WellFoundedInduction, NaturalsInduction, TLAPS

Keys == {ClientKey(a) : a \in Address} \cup {<<"health">>, <<"unknown">>}
Charges == Keys \cup {Nil}
Places == {"wire", "limiter", "csrf", "mux", "answered", "done"}

Request ==
    [at : Places,
     method : {"GET", "POST"}, path : Paths, tls : BOOLEAN, cross : BOOLEAN,
     wanted : Hosts \cup {Junk}, route : Seq(Address), ahead : Seq(Address),
     charged : Charges,
     xFor : Seq(Address \cup {Nil, Junk}), xProto : Seq({"http", "https"}),
     xHost : Seq(Hosts \cup {Junk}), forwarded : BOOLEAN]

EnvironmentOK ==
    /\ env.maxNoteSize \in Size \cup {Nil} /\ env.maxDBSize \in Size \cup {Nil}
    /\ env.links = [i \in 1..(MaxConfiguredLinks + 1) |-> env.links[i]]

\* The process as run() leaves it at each phase; a server that serves was built
\* from a configuration, in production from the operator's environment alone
\* and with templates that parse (some may still fail when they are executed).
StartInv ==
    /\ dev \in BOOLEAN /\ process \in Processes /\ file \in Files
    /\ phase \in {"stopped", "loaded", "failed", "parsed", "serving", "aborted"}
    /\ phase \in {"stopped", "loaded"} => cfg = Nil
    /\ phase = "failed" => cfg = Error
    /\ phase \in {"parsed", "serving", "aborted"} => cfg = NewConfig(env, dev) /\ cfg # Error
    /\ phase \in {"loaded", "parsed", "serving", "aborted"} /\ ~dev => env = process
    /\ phase = "serving" /\ ~dev => broken.parse = {}
    /\ phase = "failed" /\ ~dev => NewConfig(env, dev) = Error
    /\ EnvironmentOK

\* The proxies have written down the way of the request, the scheme the client
\* spoke and the host it wanted.
RouteOK(r) ==
    /\ r.route # <<>> /\ r.xHost = <<r.wanted>>
    /\ Len(r.route) > 1 =>
          LET n == Len(r.route) - 1
              k == Len(r.xFor) - n
          IN  /\ r.xProto # <<>> /\ r.xProto[1] = IF r.tls THEN "https" ELSE "http"
              /\ k >= 0 /\ \A i \in 1..n : r.xFor[k + i] = r.route[i]

RequestInv ==
    req # Idle => phase = "serving" /\ req \in Request /\ RouteOK(req)

\* Health checks that have to be answered.
HealthFrom ==
    \/ PrefixContains(LoopbackPrefixes, LastHop)
    \/ ~dev /\ PrefixContains(cfg.trustedProxies, LastHop)

\* What TrustedProxyMiddleware lets pass in production, with the context c.
TrustedAs(c) ==
    /\ PrefixContains(cfg.trustedProxies, LastHop)
    /\ Proxied => req.tls
    /\ Strangers # {} => c.key = ClientKey(req.route[Rightmost(Strangers)])
    /\ Proxied => /\ c.origin = [scheme |-> "https", host |-> req.wanted]
                  /\ env.publicOrigin # Nil => c.origin.host = env.publicOrigin.host

\* The response before and after the handler.
Unanswered == w = [NoResponse EXCEPT !.hsts = ~dev] /\ log = Nil

\* What is sent is what is logged, unless a template failed after the 404; a 500
\* has a cause, and in production it is no template that does not parse.
TruthKept(r) ==
    /\ r.sent \in Nat \ {0}
    /\ \/ r.status = r.sent
       \/ r.sent = 404 /\ r.status = 500 /\ r.err \in {"parse", "execute"}
    /\ r.err # Nil => r.status = 500
    /\ r.status = 500 => r.err # Nil \/ (dev /\ r.handler = "HandleStaticAssets")
    /\ r.err = "parse" => dev

\* What caches may keep of a response to a request for a path.
CacheKept(r, path) ==
    /\ r.handler \notin {"HandleStaticAssets", "Redirect"} /\ r.sent # 403 =>
          r.cache = "no-store"
    /\ r.cache = "immutable" => /\ r.handler = "HandleStaticAssets" /\ path \in CurrentPaths
                                /\ r.sent \in {200, 206, 301, 304, 412}

Answered ==
    /\ w.hsts = ~dev
    /\ w.handler = Mux(req.method, req.path) \/ (w.handler = Nil /\ w.sent \in {403, 429})
    /\ TruthKept(w) /\ CacheKept(w, req.path)
    /\ w.handler \in NoteService => req.charged # Nil /\ ~req.cross
    /\ IsHealthCheckRequest(req) => w.sent = 200

Logged == log = IF IsSuccessfulStaticRoute(req, w.status) THEN Nil ELSE w.status

\* The request on its way through the middleware.
PassageInv ==
    /\ req.at \in {"idle", "wire"} => ctx = NoContext /\ w = NoResponse /\ log = Nil
    /\ req.at \in {"limiter", "csrf", "mux", "answered"} => ctx.reason = Nil
    /\ req.at \in {"limiter", "csrf", "mux"} => Unanswered
    /\ req.at \in {"wire", "limiter"} => req.charged = Nil
    /\ req.at \in {"csrf", "mux"} => Exempt(req) \/ req.charged # Nil
    /\ req.at = "mux" => ~req.cross \/ req.method = "GET"
    /\ req.at \in {"answered", "done"} /\ ctx.reason = Nil => Answered
    /\ req.at = "done" /\ ctx.reason = Nil => Logged
    /\ req.at \notin {"idle", "wire"} =>
          /\ Exempt(req) => req.charged = Nil
          /\ req.charged \in {Nil, ctx.key}
          /\ ctx.key \in Keys
          /\ ctx.reason = Nil => dev \/ IsHealthCheckRequest(req) \/ TrustedAs(ctx)
    /\ req.at = "done" /\ ctx.reason # Nil =>
          /\ w = WriteErrorResponse(NoResponse, 400) /\ log = Nil /\ req.charged = Nil
          /\ ~(IsHealthCheckRequest(req) /\ HealthFrom)

Inv == StartInv /\ RequestInv /\ PassageInv

-----------------------------------------------------------------------------
(* Operators *)

\* A set of positions that is not empty has a rightmost one.
LEMMA RightmostOK ==
    ASSUME NEW n \in Nat, NEW S \in SUBSET (1..n), S # {}
    PROVE  Rightmost(S) \in S /\ \A j \in S : Rightmost(S) >= j
<1> DEFINE T == {n - i : i \in S}
<1>1. T \subseteq Nat /\ T # {}
  <2>1. PICK i \in S : TRUE
    OBVIOUS
  <2>2. n - i \in T
    OBVIOUS
  <2>3. \A j \in S : n - j \in Nat
    OBVIOUS
  <2> QED
    BY <2>2, <2>3
<1>2. PICK x \in T : \A y \in T : ~(<<y, x>> \in OpToRel(<, Nat))
  BY <1>1, NatLessThanWellFounded, WFMin
<1>3. \A y \in T : ~(y < x)
  BY <1>1, <1>2 DEF OpToRel
<1>4. \E i \in S : \A j \in S : i >= j
  <2>1. PICK i \in S : x = n - i
    OBVIOUS
  <2>2. \A j \in S : i >= j
    BY <1>3, <2>1
  <2> QED
    BY <2>2
<1> QED
  BY <1>4 DEF Rightmost

\* There is only one.
LEMMA RightmostUnique ==
    ASSUME NEW S \in SUBSET Int, NEW m \in S, \A j \in S : m >= j
    PROVE  Rightmost(S) = m
<1>1. Rightmost(S) \in S /\ \A j \in S : Rightmost(S) >= j
  BY DEF Rightmost
<1> DEFINE x == Rightmost(S)
<1> HIDE DEF x
<1>2. x \in Int /\ m \in Int /\ x >= m /\ m >= x
  BY <1>1 DEF x
<1>3. x = m
  BY <1>2
<1> QED
  BY <1>3 DEF x

\* An address is the same client, and in the same prefixes, in every spelling.
LEMMA UnmapOK ==
    ASSUME NEW a \in Address
    PROVE  /\ Unmap(a) \in Address /\ Unmap(Unmap(a)) = Unmap(a)
           /\ ClientKey(Unmap(a)) = ClientKey(a)
           /\ \A P : PrefixContains(P, Unmap(a)) <=> PrefixContains(P, a)
<1>1. Unmap(a) \in Address /\ Unmap(a).form # "mapped"
  BY DEF Unmap, Address
<1>2. Unmap(a).net = a.net /\ Unmap(a).host = a.host
  BY DEF Unmap, Address
<1>3. Unmap(Unmap(a)) = Unmap(a)
  BY <1>1 DEF Unmap
<1> QED
  BY <1>1, <1>2, <1>3 DEF ClientKey, PrefixContains

\* The note service is behind POST requests to the API, the health check behind
\* its path.
LEMMA MuxOK ==
    ASSUME NEW method \in {"GET", "POST"}, NEW path \in Paths
    PROVE  /\ Mux(method, path) \in NoteService => method = "POST" /\ path \in ApiPaths
           /\ method = "GET" /\ path = "/healthz" => Mux(method, path) = "healthz"
           /\ method = "GET" /\ path \in StaticPaths \cup {"//static/current/file"} =>
                 Mux(method, path) \in {"HandleStaticAssets", "Redirect"}
<1>1. CASE method = "GET"
  <2>1. Mux(method, path) \notin NoteService
    BY <1>1 DEF Mux, NoteService
  <2>2. path = "/healthz" => Mux(method, path) = "healthz"
    BY <1>1 DEF Mux, StaticPaths, CurrentPaths, UncleanPaths
  <2>3. path \in StaticPaths \cup {"//static/current/file"} =>
          Mux(method, path) \in {"HandleStaticAssets", "Redirect"}
    BY <1>1 DEF Mux, StaticPaths, CurrentPaths, UncleanPaths
  <2> QED
    BY <1>1, <2>1, <2>2, <2>3
<1>2. CASE method = "POST"
  BY <1>2 DEF Mux, NoteService, ApiPaths, UncleanPaths
<1> QED
  BY <1>1, <1>2

-----------------------------------------------------------------------------
(* The configuration *)

\* The settings of a configuration that was accepted.
LEMMA ConfigOK ==
    ASSUME NEW e, NEW d \in BOOLEAN, NEW c, c = NewConfig(e, d), c # Error
    PROVE  /\ c.isDevelopment = d
           /\ c.legalLinks = ParseLegalLinks(e.links) /\ c.legalLinks # Error
           /\ c.maxNoteSize = ParseOptionalByteSize(e.maxNoteSize, MaxNoteSizeRange)
           /\ c.maxNoteSize # Error
           /\ c.maxDBSize = ParseOptionalByteSize(e.maxDBSize, MaxDBSizeRange)
           /\ c.maxDBSize # Error
           /\ c.publicOrigin = PublicOrigin(e, d) /\ c.publicOrigin # Error
           /\ LoopbackPrefixes \subseteq c.healthCheckSources
           /\ ~d => c.trustedProxies \subseteq c.healthCheckSources
<1> DEFINE isDevelopment == EnvironmentName(e, d) = "development"
           proxies == TrustedProxies(e, isDevelopment)
           health == HealthCheckSources(e, isDevelopment, proxies)
<1>1. EnvironmentAgrees(e, d) /\ health # Error
  BY DEF NewConfig
<1>2. /\ c.isDevelopment = isDevelopment
      /\ c.legalLinks = ParseLegalLinks(e.links) /\ c.legalLinks # Error
      /\ c.maxNoteSize = ParseOptionalByteSize(e.maxNoteSize, MaxNoteSizeRange)
      /\ c.maxNoteSize # Error
      /\ c.maxDBSize = ParseOptionalByteSize(e.maxDBSize, MaxDBSizeRange)
      /\ c.maxDBSize # Error
      /\ c.publicOrigin = PublicOrigin(e, isDevelopment) /\ c.publicOrigin # Error
      /\ c.trustedProxies = proxies /\ c.healthCheckSources = health
  BY DEF NewConfig
<1>3. isDevelopment = d
  <2>1. CASE d
    BY <1>1, <2>1 DEF EnvironmentAgrees
  <2>2. CASE ~d
    BY <1>1, <2>2 DEF EnvironmentAgrees
  <2> QED
    BY <2>1, <2>2
<1> HIDE DEF isDevelopment, proxies
<1>4. LoopbackPrefixes \subseteq health /\ (~isDevelopment => proxies \subseteq health)
  BY <1>1 DEF HealthCheckSources
<1> QED
  BY <1>2, <1>3, <1>4

\* Of the suffixes that a unit ends in, the longest comes first in the table.
LEMMA SuffixOK ==
    ASSUME NEW u
    PROVE  /\ Suffix(u) \in DOMAIN Multiplier
           /\ u \in DOMAIN Multiplier => Suffix(u) = u
<1> DEFINE hits == {i \in DOMAIN SuffixTable : SuffixTable[i] \in EndsIn(u)}
           first == CHOOSE i \in hits : \A j \in hits : i =< j
<1>1. DOMAIN Multiplier = {"gib", "gb", "mib", "mb", "kib", "kb", "b", "none"}
  BY DEF Multiplier
<1>2. /\ DOMAIN SuffixTable = 1..7
      /\ SuffixTable[1] = "gib" /\ SuffixTable[2] = "gb" /\ SuffixTable[3] = "mib"
      /\ SuffixTable[4] = "mb" /\ SuffixTable[5] = "kib" /\ SuffixTable[6] = "kb"
      /\ SuffixTable[7] = "b"
  BY DEF SuffixTable
<1>3. CASE u = "none"
  <2>1. hits = {}
    BY <1>3 DEF EndsIn
  <2> QED
    BY <1>1, <1>3, <2>1 DEF Suffix
<1>4. CASE u # "none"
  <2>1. 7 \in hits /\ hits # {}
    BY <1>2, <1>4 DEF EndsIn
  <2>2. Suffix(u) = SuffixTable[first]
    <3>1. EndsIn(u) = {u, "b"}
      BY <1>4 DEF EndsIn
    <3> QED
      BY <2>1 DEF Suffix
  <2>3. ASSUME NEW k \in 1..7, u = SuffixTable[k] PROVE first = k
    <3>1. hits = {k, 7}
      <4>1. k \in hits
        BY <1>2, <1>4, <2>3 DEF EndsIn
      <4>2. ASSUME NEW i \in hits PROVE i = k \/ i = 7
        <5>1. i \in 1..7 /\ (SuffixTable[i] = SuffixTable[k] \/ SuffixTable[i] = "b")
          BY <1>2, <1>4, <2>3 DEF EndsIn
        <5> HIDE DEF hits
        <5> QED
          BY <1>2, <5>1
      <4> HIDE DEF hits
      <4> QED
        BY <2>1, <4>1, <4>2
    <3> HIDE DEF hits
    <3> QED
      BY <3>1
  <2>4. ASSUME u \notin {"gib", "gb", "mib", "mb", "kib", "kb", "b"} PROVE first = 7
    <3>1. hits = {7}
      <4>1. ASSUME NEW i \in hits PROVE i = 7
        <5>1. i \in 1..7 /\ (SuffixTable[i] = u \/ SuffixTable[i] = "b")
          BY <1>2, <1>4 DEF EndsIn
        <5> HIDE DEF hits
        <5> QED
          BY <1>2, <2>4, <5>1
      <4> HIDE DEF hits
      <4> QED
        BY <2>1, <4>1
    <3> HIDE DEF hits
    <3> QED
      BY <3>1
  <2> HIDE DEF first
  <2>5. CASE u \in {"gib", "gb", "mib", "mb", "kib", "kb", "b"}
    <3>1. \E k \in 1..7 : u = SuffixTable[k]
      BY <1>2, <2>5
    <3>2. Suffix(u) = u
      BY <2>2, <2>3, <3>1
    <3> QED
      BY <1>1, <2>5, <3>2
  <2>6. CASE u \notin {"gib", "gb", "mib", "mb", "kib", "kb", "b"}
    BY <1>1, <1>2, <1>4, <2>2, <2>4, <2>6
  <2> QED
    BY <2>5, <2>6
<1> QED
  BY <1>3, <1>4

\* A unit is a positive number of bytes.
LEMMA MultiplierOK ==
    ASSUME NEW u \in DOMAIN Multiplier PROVE Multiplier[u] \in Nat \ {0}
<1>1. \A a, b \in Nat \ {0} : a * b \in Nat \ {0}
  OBVIOUS
<1>2. /\ Kilo \in Nat \ {0} /\ Kilo * Kilo \in Nat \ {0} /\ Kilo * Kilo * Kilo \in Nat \ {0}
      /\ Kibi \in Nat \ {0} /\ Kibi * Kibi \in Nat \ {0} /\ Kibi * Kibi * Kibi \in Nat \ {0}
  <2>1. Kilo \in Nat \ {0} /\ Kibi \in Nat \ {0}
    BY UnitsAssumption
  <2>2. Kilo * Kilo \in Nat \ {0} /\ Kibi * Kibi \in Nat \ {0}
    BY <1>1, <2>1
  <2> QED
    BY <1>1, <2>1, <2>2
<1> DEFINE k3 == Kilo * Kilo * Kilo
           k2 == Kilo * Kilo
           m3 == Kibi * Kibi * Kibi
           m2 == Kibi * Kibi
<1>3. Multiplier = [gib |-> m3, gb |-> k3, mib |-> m2, mb |-> k2, kib |-> Kibi, kb |-> Kilo,
                    b |-> 1, none |-> 1]
  BY DEF Multiplier
<1>4. {k3, k2, m3, m2, Kibi, Kilo, 1} \subseteq Nat \ {0}
  BY <1>2
<1> HIDE DEF k3, k2, m3, m2
<1> QED
  BY <1>3, <1>4

\* The product of a number and a unit that parseByteSize computes, if it
\* computes one, is the product.
LEMMA ProductOK ==
    ASSUME NEW a \in Int, NEW m \in Nat \ {0}
    PROVE  /\ (a > MaxInt \/ a < 0 \/ a > MaxInt \div m) <=> (a * m > MaxInt \/ a * m < 0)
           /\ a * m \in 0..MaxInt => Wrap(a * m) = a * m
<1> DEFINE d == MaxInt \div m
<1>0. MaxInt \in Nat
  BY UnitsAssumption
<1>1. d \in Nat /\ m * d =< MaxInt /\ MaxInt < m * d + m
  BY <1>0
<1> HIDE DEF d
<1>2. ASSUME a =< d, 0 =< a PROVE a * m =< MaxInt /\ a * m >= 0
  <2>1. PICK x \in Nat : d = a + x
    BY <1>1, <1>2
  <2>2. m * d = a * m + x * m /\ x * m >= 0 /\ a * m >= 0
    BY <1>2, <2>1
  <2> QED
    BY <1>0, <1>1, <2>2
<1>3. ASSUME a > d PROVE a * m > MaxInt
  <2>1. PICK x \in Nat : a = d + 1 + x
    BY <1>1, <1>3
  <2>2. a * m = m * d + m + x * m /\ x * m >= 0
    BY <1>1, <2>1
  <2> QED
    BY <1>0, <1>1, <2>2
<1>4. a < 0 => a * m < 0
  OBVIOUS
<1>5. d =< MaxInt
  <2>1. d =< m * d
    BY <1>1
  <2> QED
    BY <1>0, <1>1, <2>1
<1>6. (a > MaxInt \/ a < 0 \/ a > d) <=> (a * m > MaxInt \/ a * m < 0)
  BY <1>0, <1>1, <1>2, <1>3, <1>4, <1>5
<1>7. ASSUME NEW p \in 0..MaxInt PROVE Wrap(p) = p
  <2>1. p % (2 * (MaxInt + 1)) = p
    BY <1>0
  <2> QED
    BY <1>0, <2>1 DEF Wrap
<1> QED
  BY <1>6, <1>7 DEF d

\* What a size may be refused for.
Illegal(raw, legal) ==
    /\ raw # Nil
    /\ \/ raw.amount = Junk \/ raw.unit \notin DOMAIN Multiplier
       \/ Meaning(raw, 0) \notin legal

\* A size is refused for one of these reasons, or is what was written.
LEMMA ByteSizeOK ==
    ASSUME NEW raw \in Size \cup {Nil}, NEW range,
           range.min \in Nat, range.max \in Nat, range.max =< MaxInt,
           range.default \in range.min..range.max
    PROVE  LET v == ParseOptionalByteSize(raw, range)
               legal == range.min..range.max
           IN  \/ v \in legal /\ v = Meaning(raw, range.default)
               \/ v = Error /\ Illegal(raw, legal)
<1> DEFINE v == ParseOptionalByteSize(raw, range)
           legal == range.min..range.max
           p == ParseByteSize(raw)
           a == raw.amount
           u == raw.unit
           m == Multiplier[u]
<1>0. MaxInt \in Nat /\ Error \notin Int
  BY UnitsAssumption, ErrorAssumption
<1>1. CASE raw = Nil
  BY <1>1 DEF ParseOptionalByteSize, Meaning
<1>2. CASE raw # Nil /\ (a = Junk \/ u \notin DOMAIN Multiplier)
  <2>1. p = Error
    BY <1>2, SuffixOK DEF ParseByteSize
  <2>2. v = Error
    BY <1>2, <2>1 DEF ParseOptionalByteSize, InRange
  <2> QED
    BY <1>2, <2>2 DEF Illegal
<1>3. CASE raw # Nil /\ a # Junk /\ u \in DOMAIN Multiplier
  <2>1. a \in Int /\ m \in Nat \ {0} /\ Suffix(u) = u
    BY <1>3, SuffixOK, MultiplierOK DEF Size
  <2>2. Meaning(raw, range.default) = a * m /\ Meaning(raw, 0) = a * m /\ a * m \in Int
    BY <1>3, <2>1 DEF Meaning
  <2>3. p = IF a > MaxInt \/ a < 0 \/ a > MaxInt \div m THEN Error ELSE Wrap(a * m)
    BY <1>3, <2>1 DEF ParseByteSize
  <2>4. v = InRange(p, range)
    BY <1>3 DEF ParseOptionalByteSize
  <2> HIDE DEF p, v, m, a
  <2>5. CASE a * m > MaxInt \/ a * m < 0
    <3>1. v = Error
      BY <2>1, <2>3, <2>4, <2>5, ProductOK DEF InRange
    <3>2. a * m \notin legal
      BY <1>0, <2>2, <2>5
    <3> QED
      BY <1>3, <2>2, <3>1, <3>2 DEF Illegal, v
  <2>6. CASE ~(a * m > MaxInt \/ a * m < 0)
    <3>1. a * m \in 0..MaxInt
      BY <1>0, <2>2, <2>6
    <3>2. p = a * m
      BY <2>1, <2>3, <2>6, <3>1, ProductOK
    <3>3. v = IF a * m \in legal THEN a * m ELSE Error
      BY <1>0, <2>2, <2>4, <3>2 DEF InRange
    <3> QED
      BY <1>3, <2>2, <3>3 DEF Illegal, v
  <2> QED
    BY <2>5, <2>6
<1> QED
  BY <1>1, <1>2, <1>3

\* The ranges of the two sizes.
LEMMA SizeRangesOK ==
    /\ MaxNoteSizeRange.min = 1 /\ MaxNoteSizeRange.max = 10 * Kibi * Kibi
    /\ MaxNoteSizeRange.default = Kibi
    /\ MaxDBSizeRange.min = Kibi * Kibi /\ MaxDBSizeRange.max = 10 * Kibi * Kibi * Kibi
    /\ MaxDBSizeRange.default = Kibi * Kibi * Kibi
    /\ \A range \in {MaxNoteSizeRange, MaxDBSizeRange} :
          /\ range.min \in Nat /\ range.max \in Nat /\ range.max =< MaxInt
          /\ range.default \in range.min..range.max
<1> DEFINE k2 == Kibi * Kibi
           k3 == Kibi * Kibi * Kibi
<1>1. /\ MaxNoteSizeRange.min = 1 /\ MaxNoteSizeRange.max = 10 * Kibi * Kibi
      /\ MaxNoteSizeRange.default = Kibi
      /\ MaxDBSizeRange.min = Kibi * Kibi /\ MaxDBSizeRange.max = 10 * Kibi * Kibi * Kibi
      /\ MaxDBSizeRange.default = Kibi * Kibi * Kibi
  BY DEF MaxNoteSizeRange, MaxDBSizeRange
<1>2. Kibi \in Nat \ {0} /\ MaxInt \in Nat /\ 10 * Kibi * Kibi * Kibi =< MaxInt
  BY UnitsAssumption
<1>3. \A n \in Nat \ {0} : n * Kibi \in Nat \ {0} /\ n =< n * Kibi
  BY <1>2
<1>4. k2 \in Nat \ {0} /\ Kibi =< k2
  BY <1>2, <1>3
<1>5. k3 = k2 * Kibi
  BY <1>2
<1>6. k3 \in Nat \ {0} /\ k2 =< k3
  <2> HIDE DEF k2, k3
  <2> QED
    BY <1>3, <1>4, <1>5
<1>7. 10 * Kibi * Kibi = 10 * k2 /\ 10 * Kibi * Kibi * Kibi = 10 * k3
  BY <1>2
<1>8. /\ MaxNoteSizeRange.min = 1 /\ MaxNoteSizeRange.max = 10 * k2
      /\ MaxNoteSizeRange.default = Kibi /\ MaxDBSizeRange.min = k2
      /\ MaxDBSizeRange.max = 10 * k3 /\ MaxDBSizeRange.default = k3 /\ 10 * k3 =< MaxInt
  BY <1>1, <1>2, <1>7
<1> HIDE DEF k2, k3
<1>9. \A range \in {MaxNoteSizeRange, MaxDBSizeRange} :
          /\ range.min \in Nat /\ range.max \in Nat /\ range.max =< MaxInt
          /\ range.default \in range.min..range.max
  BY <1>2, <1>4, <1>6, <1>8
<1> QED
  BY <1>1, <1>9

\* An environment that .env completes has what the two have.
LEMMA LoadedOK ==
    ASSUME NEW e \in Processes, NEW f \in Files \ {Junk}
    PROVE  LET l == LoadDevelopmentEnv(e, f) IN
           /\ l.maxNoteSize \in Size \cup {Nil} /\ l.maxDBSize \in Size \cup {Nil}
           /\ l.links = [i \in 1..(MaxConfiguredLinks + 1) |-> l.links[i]]
<1> DEFINE l == LoadDevelopmentEnv(e, f)
           n == MaxConfiguredLinks + 1
           pair(i) == [title |-> Overlay(e.links[i].title, f.links[i].title),
                       url   |-> Overlay(e.links[i].url, f.links[i].url)]
<1>1. /\ {e.maxNoteSize, e.maxDBSize} \subseteq Size \cup {Nil}
      /\ {f.maxNoteSize, f.maxDBSize} \subseteq Size \cup {Nil}
      /\ e.links = [i \in 1..n |-> e.links[i]]
  BY EnvironmentAssumption
<1>2. {"maxNoteSize", "maxDBSize", "links"} \subseteq DOMAIN e
  BY EnvironmentAssumption DEF BlankEnvironment
<1>3. DOMAIN e.links = 1..n
  BY <1>1
<1>4. /\ l.maxNoteSize = Overlay(e.maxNoteSize, f.maxNoteSize)
      /\ l.maxDBSize = Overlay(e.maxDBSize, f.maxDBSize)
      /\ l.links = [i \in DOMAIN e.links |-> pair(i)]
  BY <1>2 DEF LoadDevelopmentEnv
<1> HIDE DEF l, n, pair
<1>5. l.links = [i \in 1..n |-> l.links[i]]
  BY <1>3, <1>4
<1> QED
  BY <1>1, <1>4, <1>5 DEF Overlay, l, n

\* parseLegalLinks stops at the first empty pair, or after the last link.
LEMMA LinkStopOK ==
    ASSUME NEW links
    PROVE  LET n == LinkStop(links) IN
           /\ n \in 1..6 /\ (n = 6 \/ ~LinkSet(links[n]))
           /\ \A j \in 1..(n - 1) : LinkSet(links[j])
<1> DEFINE Stops(i) == /\ i = 6 \/ ~LinkSet(links[i])
                       /\ \A j \in 1..(i - 1) : LinkSet(links[j])
           set(i) == LinkSet(links[i])
<1>1. \E i \in 1..6 : Stops(i)
  <2> HIDE DEF set
  <2>1. Stops(1) \/ set(1)
    BY DEF set
  <2>2. set(1) => Stops(2) \/ set(2)
    BY DEF set
  <2>3. set(1) /\ set(2) => Stops(3) \/ set(3)
    BY DEF set
  <2>4. set(1) /\ set(2) /\ set(3) => Stops(4) \/ set(4)
    BY DEF set
  <2>5. set(1) /\ set(2) /\ set(3) /\ set(4) => Stops(5) \/ set(5)
    BY DEF set
  <2>6. set(1) /\ set(2) /\ set(3) /\ set(4) /\ set(5) => Stops(6)
    BY DEF set
  <2> HIDE DEF Stops
  <2> QED
    BY <2>1, <2>2, <2>3, <2>4, <2>5, <2>6
<1>2. LinkStop(links) = CHOOSE i \in 1..6 : Stops(i)
  BY DEF LinkStop, MaxConfiguredLinks
<1> QED
  BY <1>1, <1>2

\* The links that are shown are those before the stop.
LEMMA LegalLinksOK ==
    ASSUME NEW links, links = [i \in 1..(MaxConfiguredLinks + 1) |-> links[i]],
           ParseLegalLinks(links) # Error
    PROVE  LET n == LinkStop(links) - 1
               shown == ParseLegalLinks(links) IN
           /\ Len(shown) = n /\ DOMAIN shown = 1..n
           /\ \A i \in 1..n : shown[i] = links[i] /\ links[i].title # Nil /\ links[i].url # Nil
           /\ n = 5 => ~LinkSet(links[6])
<1> DEFINE n == LinkStop(links) - 1
           S == {links[i] : i \in 1..6}
<1>1. LinkStop(links) \in 1..6 /\ n \in 0..5
  BY LinkStopOK
<1>2. /\ ParseLegalLinks(links) = SubSeq(links, 1, n)
      /\ \A i \in 1..n : links[i].title # Nil /\ links[i].url # Nil
      /\ ~TooManyLinks(links)
  BY DEF ParseLegalLinks
<1>3. links \in Seq(S) /\ Len(links) = 6
  <2>1. links \in [1..6 -> S] /\ DOMAIN links = 1..6
    BY DEF MaxConfiguredLinks
  <2> HIDE DEF S
  <2>2. links \in Seq(S)
    BY <2>1, SeqDef
  <2>3. Len(links) \in Nat /\ DOMAIN links = 1..Len(links)
    BY ONLY <2>2, LenProperties
  <2> QED
    BY ONLY <2>1, <2>2, <2>3
<1> DEFINE shown == SubSeq(links, 1, n)
<1> HIDE DEF S, n
<1>4. Len(shown) = n /\ DOMAIN shown = 1..n /\ \A i \in 1..n : shown[i] = links[i]
  BY <1>1, <1>3
<1>5. n = 5 => ~LinkSet(links[6])
  <2>1. n = 5 => LinkStop(links) > 5
    BY <1>1 DEF n
  <2> QED
    BY <1>2, <2>1 DEF TooManyLinks, MaxConfiguredLinks
<1> QED
  BY <1>2, <1>4, <1>5 DEF n

\* With nothing set but the sizes, only a size can stop the program.
LEMMA OnlySizesRefused ==
    ASSUME NEW e,
           e = [BlankEnvironment EXCEPT !.maxNoteSize = e.maxNoteSize,
                                        !.maxDBSize = e.maxDBSize],
           e.maxNoteSize \in Size \cup {Nil}, e.maxDBSize \in Size \cup {Nil},
           NewConfig(e, FALSE) = Error
    PROVE  \/ ParseOptionalByteSize(e.maxNoteSize, MaxNoteSizeRange) = Error
           \/ ParseOptionalByteSize(e.maxDBSize, MaxDBSizeRange) = Error
<1> DEFINE note == ParseOptionalByteSize(e.maxNoteSize, MaxNoteSizeRange)
           size == ParseOptionalByteSize(e.maxDBSize, MaxDBSizeRange)
           health == LoopbackPrefixes \cup DefaultTrustedProxies
<1> SUFFICES ASSUME note # Error, size # Error PROVE FALSE
  OBVIOUS
<1>1. /\ e.environment = Nil /\ e.hideGitHubLink = Nil /\ e.gracePeriod = Nil
      /\ e.cleanupInterval = Nil /\ e.publicOrigin = Nil /\ e.trustedProxies = Nil
      /\ e.healthCheckSources = Nil /\ e.rateLimit = Nil
      /\ e.links = [i \in 1..6 |-> [title |-> Nil, url |-> Nil]]
  <2> DEFINE note0 == e.maxNoteSize
             size0 == e.maxDBSize
             links == [i \in 1..6 |-> [title |-> Nil, url |-> Nil]]
             b == [environment |-> Nil, hideGitHubLink |-> Nil, gracePeriod |-> Nil,
                   cleanupInterval |-> Nil, maxNoteSize |-> Nil, maxDBSize |-> Nil,
                   publicOrigin |-> Nil, trustedProxies |-> Nil, healthCheckSources |-> Nil,
                   rateLimit |-> Nil, links |-> links]
  <2>1. BlankEnvironment = b
    BY DEF BlankEnvironment, MaxConfiguredLinks
  <2>2. e = [b EXCEPT !.maxNoteSize = note0, !.maxDBSize = size0]
    BY <2>1
  <2> HIDE DEF note0, size0, links
  <2>3. /\ e.environment = Nil /\ e.hideGitHubLink = Nil /\ e.gracePeriod = Nil
        /\ e.cleanupInterval = Nil /\ e.publicOrigin = Nil /\ e.trustedProxies = Nil
        /\ e.healthCheckSources = Nil /\ e.rateLimit = Nil /\ e.links = links
    BY ONLY <2>2 DEF b
  <2> QED
    BY <2>3 DEF links
<1>2. EnvironmentName(e, FALSE) = "production" /\ EnvironmentAgrees(e, FALSE)
  BY <1>1 DEF EnvironmentName, EnvironmentAgrees
<1>3. ParseOptionalBool(e.hideGitHubLink, FALSE) = FALSE
  BY <1>1 DEF ParseOptionalBool
<1>4. ParseLegalLinks(e.links) = <<>>
  <2> DEFINE links == [i \in 1..6 |-> [title |-> Nil, url |-> Nil]]
  <2>1. \A i \in 1..6 : ~LinkSet(links[i])
    BY DEF LinkSet
  <2> HIDE DEF links
  <2>2. LinkStop(links) = 1
    <3> DEFINE n == LinkStop(links)
    <3>1. n \in 1..6 /\ \A j \in 1..(n - 1) : LinkSet(links[j])
      BY LinkStopOK
    <3> HIDE DEF n
    <3>2. n = 1
      <4>1. ASSUME n > 1 PROVE FALSE
        <5>1. 1 \in 1..(n - 1) /\ 1 \in 1..6
          BY <3>1, <4>1
        <5> QED
          BY <2>1, <3>1, <5>1
      <4> QED
        BY <3>1, <4>1
    <3> QED
      BY <3>2 DEF n
  <2>3. ~TooManyLinks(links)
    BY <2>2 DEF TooManyLinks, MaxConfiguredLinks
  <2>4. ParseLegalLinks(links) = SubSeq(links, 1, 0)
    BY <2>2, <2>3 DEF ParseLegalLinks
  <2>5. SubSeq(links, 1, 0) = <<>>
    <3> DEFINE S == {links[i] : i \in 1..6}
    <3>1. links \in [1..6 -> S]
      BY DEF links
    <3> HIDE DEF S
    <3>2. links \in Seq(S)
      BY ONLY <3>1, SeqDef
    <3> QED
      BY ONLY <3>2
  <2> QED
    BY <1>1, <2>4, <2>5 DEF links
<1>5. /\ ParseOptionalDuration(e.gracePeriod, GracePeriodRange) \in Int
      /\ ParseOptionalDuration(e.cleanupInterval, CleanupIntervalRange) \in Int
  BY <1>1, UnitsAssumption
     DEF ParseOptionalDuration, GracePeriodRange, CleanupIntervalRange, Hour, Minute
<1>6. /\ PublicOrigin(e, FALSE) = Nil /\ TrustedProxies(e, FALSE) = DefaultTrustedProxies
      /\ ParseOptionalRate(e.rateLimit, DefaultRate) = DefaultRate
  BY <1>1 DEF PublicOrigin, TrustedProxies, ParseOptionalRate
<1>7. HealthCheckSources(e, FALSE, DefaultTrustedProxies) = health
  BY <1>1, NilAssumption DEF HealthCheckSources
<1>8. note \in Int /\ size \in Int
  <2>1. note \in MaxNoteSizeRange.min..MaxNoteSizeRange.max
    BY SizeRangesOK, ByteSizeOK
  <2>2. size \in MaxDBSizeRange.min..MaxDBSizeRange.max
    BY SizeRangesOK, ByteSizeOK
  <2> HIDE DEF note, size
  <2> QED
    BY <2>1, <2>2, SizeRangesOK
<1> DEFINE grace == ParseOptionalDuration(e.gracePeriod, GracePeriodRange)
           cleanup == ParseOptionalDuration(e.cleanupInterval, CleanupIntervalRange)
           dev0 == FALSE
           hide == FALSE
<1>9. (EnvironmentName(e, FALSE) = "development") = dev0
  BY <1>2
<1>10. NewConfig(e, FALSE) =
        [isDevelopment |-> dev0, showGitHubLink |-> ~hide, legalLinks |-> <<>>,
         gracePeriod |-> grace, cleanupInterval |-> cleanup, maxNoteSize |-> note,
         maxDBSize |-> size, publicOrigin |-> Nil, trustedProxies |-> DefaultTrustedProxies,
         healthCheckSources |-> health, rateLimit |-> DefaultRate]
  <2> HIDE DEF note, size, health, grace, cleanup
  <2> QED
    BY <1>2, <1>3, <1>4, <1>5, <1>6, <1>7, <1>8, <1>9, ErrorAssumption
       DEF NewConfig, note, size, health, grace, cleanup
<1> DEFINE show == ~hide
           C == [isDevelopment : BOOLEAN, showGitHubLink : BOOLEAN, legalLinks : {<<>>},
                 gracePeriod : Int, cleanupInterval : Int, maxNoteSize : Int,
                 maxDBSize : Int, publicOrigin : {Nil},
                 trustedProxies : {DefaultTrustedProxies}, healthCheckSources : {health},
                 rateLimit : {DefaultRate}]
<1>11. Error \notin C
  BY ErrorAssumption
<1>12. dev0 \in BOOLEAN /\ show \in BOOLEAN /\ grace \in Int /\ cleanup \in Int
  BY <1>5
<1> HIDE DEF note, size, grace, cleanup, health, dev0, show
<1>13. NewConfig(e, FALSE) =
        [isDevelopment |-> dev0, showGitHubLink |-> show, legalLinks |-> <<>>,
         gracePeriod |-> grace, cleanupInterval |-> cleanup, maxNoteSize |-> note,
         maxDBSize |-> size, publicOrigin |-> Nil, trustedProxies |-> DefaultTrustedProxies,
         healthCheckSources |-> health, rateLimit |-> DefaultRate]
  BY <1>10 DEF show
<1>14. NewConfig(e, FALSE) \in C
  <2> DEFINE c == NewConfig(e, FALSE)
             none == <<>>
  <2>1. c = [isDevelopment |-> dev0, showGitHubLink |-> show, legalLinks |-> none,
             gracePeriod |-> grace, cleanupInterval |-> cleanup, maxNoteSize |-> note,
             maxDBSize |-> size, publicOrigin |-> Nil,
             trustedProxies |-> DefaultTrustedProxies,
             healthCheckSources |-> health, rateLimit |-> DefaultRate]
    BY <1>13
  <2>2. C = [isDevelopment : BOOLEAN, showGitHubLink : BOOLEAN, legalLinks : {none},
             gracePeriod : Int, cleanupInterval : Int, maxNoteSize : Int,
             maxDBSize : Int, publicOrigin : {Nil},
             trustedProxies : {DefaultTrustedProxies}, healthCheckSources : {health},
             rateLimit : {DefaultRate}]
    OBVIOUS
  <2> HIDE DEF c, none, C
  <2>3. c \in C
    BY ONLY <1>8, <1>12, <2>1, <2>2
  <2> QED
    BY <2>3 DEF c
<1> HIDE DEF C
<1> QED
  BY <1>11, <1>14

-----------------------------------------------------------------------------
(* Forwarded metadata *)

\* What the proxies wrote is what the server reads.
LEMMA MetadataOK ==
    ASSUME NEW r \in Request, RouteOK(r), NEW meta, meta = ParseForwardedMetadata(r),
           meta # Error
    PROVE  /\ meta.forChain = [i \in {j \in DOMAIN r.xFor : r.xFor[j] # Nil} |-> Unmap(r.xFor[i])]
           /\ \A i \in DOMAIN meta.forChain : r.xFor[i] \in Address
           /\ meta.host = r.wanted
           /\ Len(r.route) > 1 /\ meta.proto = "https" => r.tls
<1> DEFINE chain == CommaValues(r.xFor)
           protos == CommaValues(r.xProto)
           hosts == CommaValues(r.xHost)
<1>1. /\ meta = [forChain |-> [i \in DOMAIN chain |-> Unmap(chain[i])],
                proto |-> Common(protos), host |-> Common(hosts)]
      /\ \A i \in DOMAIN chain : chain[i] # Junk
      /\ DOMAIN protos # {} /\ DOMAIN hosts # {} /\ Agree(protos)
  BY DEF ParseForwardedMetadata, ParseXForwardedHeaders
<1>2. DOMAIN chain = {j \in DOMAIN r.xFor : r.xFor[j] # Nil}
      /\ \A i \in DOMAIN chain : chain[i] = r.xFor[i]
  BY DEF CommaValues
<1>3. meta.forChain = [i \in {j \in DOMAIN r.xFor : r.xFor[j] # Nil} |-> Unmap(r.xFor[i])]
  BY <1>1, <1>2
<1>4. \A i \in DOMAIN meta.forChain : r.xFor[i] \in Address
  <2>1. r.xFor \in Seq(Address \cup {Nil, Junk})
    BY DEF Request
  <2>2. \A i \in DOMAIN r.xFor : r.xFor[i] \in Address \cup {Nil, Junk}
    BY <2>1
  <2> QED
    BY <1>1, <1>2, <1>3, <2>2
<1>5. meta.host = r.wanted
  <2>1. r.xHost = <<r.wanted>>
    BY DEF RouteOK
  <2>2. \A i \in DOMAIN hosts : hosts[i] = r.wanted
    <3>1. \A i \in DOMAIN r.xHost : r.xHost[i] = r.wanted
      BY <2>1
    <3> QED
      BY <3>1 DEF CommaValues
  <2>3. (CHOOSE i \in DOMAIN hosts : TRUE) \in DOMAIN hosts
    BY <1>1
  <2> QED
    BY <1>1, <2>2, <2>3 DEF Common
<1>6. ASSUME Len(r.route) > 1, meta.proto = "https" PROVE r.tls
  <2>1. r.xProto # <<>> /\ r.xProto[1] = IF r.tls THEN "https" ELSE "http"
    BY <1>6 DEF RouteOK
  <2>2. r.xProto \in Seq({"http", "https"})
    BY DEF Request
  <2>3. 1 \in DOMAIN r.xProto /\ r.xProto[1] # Nil
    BY <2>1, <2>2, NilAssumption
  <2>4. 1 \in DOMAIN protos /\ protos[1] = r.xProto[1]
    BY <2>3 DEF CommaValues
  <2>5. (CHOOSE i \in DOMAIN protos : TRUE) \in DOMAIN protos
    BY <1>1
  <2>6. Common(protos) = protos[1]
    BY <1>1, <2>4, <2>5 DEF Agree, Common
  <2> QED
    BY <1>1, <1>6, <2>1, <2>4, <2>6
<1> QED
  BY <1>3, <1>4, <1>5, <1>6

\* Behind a trusted proxy the rightmost address of the chain that is not a
\* proxy's is the nearest stranger on the way of the request.
LEMMA SenderFound ==
    ASSUME NEW r \in Request, RouteOK(r), NEW P, NEW chain,
           chain = [i \in {j \in DOMAIN r.xFor : r.xFor[j] # Nil} |-> Unmap(r.xFor[i])],
           \A i \in DOMAIN chain : r.xFor[i] \in Address,
           PrefixContains(P, r.route[Len(r.route)]),
           NEW strangers,
           strangers = {i \in DOMAIN r.route : ~PrefixContains(P, r.route[i])}, strangers # {}
    PROVE  ClientKey(ForwardedClientIP(chain, P)) = ClientKey(r.route[Rightmost(strangers)])
<1> DEFINE m == Len(r.route)
           n == m - 1
           s == Rightmost(strangers)
           k == Len(r.xFor) - n
           untrusted == {i \in DOMAIN chain : ~PrefixContains(P, chain[i])}
<1>1. /\ r.route \in Seq(Address) /\ m \in Nat /\ DOMAIN r.route = 1..m
      /\ Len(r.xFor) \in Nat /\ DOMAIN r.xFor = 1..Len(r.xFor)
  BY DEF Request
<1>2. \A i \in 1..m : r.route[i] \in Address
  BY <1>1
<1>3. s \in strangers /\ \A j \in strangers : s >= j
  BY <1>1, RightmostOK
<1> HIDE DEF s
<1>t. PrefixContains(P, r.route[m])
  OBVIOUS
<1>w. m > 1 => k >= 0 /\ \A i \in 1..n : r.xFor[k + i] = r.route[i]
  BY DEF RouteOK
<1>k. k = Len(r.xFor) - n
  OBVIOUS
<1> HIDE DEF m, k
<1>4. s \in 1..n /\ ~PrefixContains(P, r.route[s])
  <2>1. s \in 1..m /\ ~PrefixContains(P, r.route[s])
    BY <1>1, <1>3
  <2>2. s # m
    BY <1>t, <2>1
  <2> QED
    BY <1>1, <2>1, <2>2
<1>5. ASSUME NEW i \in (s + 1)..n PROVE PrefixContains(P, r.route[i])
  <2>1. i \in 1..m /\ ~(s >= i)
    BY <1>1, <1>4, <1>5
  <2>2. i \notin strangers
    BY <1>3, <2>1
  <2> QED
    BY <1>1, <2>1, <2>2
<1>6. k \in Nat /\ \A i \in 1..n : r.xFor[k + i] = r.route[i]
  <2>1. m > 1 /\ n \in Nat
    BY <1>1, <1>4
  <2>2. k \in Int
    BY <1>1, <1>k, <2>1
  <2> QED
    BY <1>w, <2>1, <2>2
<1>7. Len(r.xFor) = k + n
  BY <1>1, <1>k
<1>8. \A i \in 1..n : /\ k + i \in DOMAIN chain /\ chain[k + i] = Unmap(r.route[i])
                      /\ PrefixContains(P, chain[k + i]) <=> PrefixContains(P, r.route[i])
  <2> TAKE i \in 1..n
  <2>1. r.xFor[k + i] = r.route[i] /\ r.route[i] \in Address
    BY <1>1, <1>2, <1>6
  <2>a. r.xFor[k + i] # Nil
    BY <2>1, AddressAssumption
  <2>2. k + i \in DOMAIN r.xFor /\ r.xFor[k + i] # Nil
    BY <1>1, <1>6, <1>7, <2>a
  <2>3. k + i \in DOMAIN chain /\ chain[k + i] = Unmap(r.route[i])
    BY <2>1, <2>2
  <2> QED
    BY <2>1, <2>3, UnmapOK
<1>9. k + s \in untrusted
  BY <1>4, <1>8
<1>10. ASSUME NEW j \in untrusted PROVE k + s >= j
  <2>1. j \in 1..(k + n) /\ ~PrefixContains(P, chain[j])
    BY <1>1, <1>7
  <2>2. ASSUME j > k + s PROVE FALSE
    <3> DEFINE i == j - k
    <3>1. i \in (s + 1)..n /\ i \in 1..n /\ j = k + i
      BY <1>1, <1>4, <1>6, <2>1, <2>2
    <3> HIDE DEF i
    <3> QED
      BY <1>5, <1>8, <2>1, <3>1
  <2> QED
    BY <1>1, <1>4, <1>6, <2>1, <2>2
<1>11. Rightmost(untrusted) = k + s
  <2>1. untrusted \in SUBSET Int
    <3>1. \A i \in untrusted : i \in 1..Len(r.xFor)
      BY <1>1
    <3> HIDE DEF untrusted
    <3>2. \A i \in untrusted : i \in Int
      BY <1>1, <3>1
    <3> QED
      BY <3>2
  <2> HIDE DEF untrusted
  <2> QED
    BY <1>9, <1>10, <2>1, RightmostUnique
<1>12. ForwardedClientIP(chain, P) = chain[k + s]
  BY <1>9, <1>11 DEF ForwardedClientIP
<1>13. chain[k + s] = Unmap(r.route[s]) /\ r.route[s] \in Address
  <2>1. s \in 1..m
    BY <1>1, <1>4
  <2> QED
    BY <1>2, <1>4, <1>8, <2>1
<1> QED
  BY <1>12, <1>13, UnmapOK DEF s

\* What TrustedProxyMiddleware does with a request.
LEMMA TrustedProxyOK ==
    ASSUME StartInv, phase = "serving", req \in Request, RouteOK(req),
           NEW c, c = TrustedProxy(req, Unmap(LastHop))
    PROVE  /\ c.key \in Keys
           /\ c.reason = Nil => dev \/ IsHealthCheckRequest(req) \/ TrustedAs(c)
           /\ IsHealthCheckRequest(req) /\ HealthFrom => c.reason = Nil
<1> DEFINE meta == ParseForwardedMetadata(req)
           origin == ForwardedPublicOrigin(meta.host)
           client == ForwardedClientIP(meta.forChain, cfg.trustedProxies)
           remote == Unmap(LastHop)
<1>1. LastHop \in Address
  <2>1. req.route \in Seq(Address) /\ req.route # <<>>
    BY DEF Request, RouteOK
  <2> QED
    BY <2>1 DEF LastHop
<1>2. \A P : PrefixContains(P, remote) <=> PrefixContains(P, LastHop)
  BY <1>1, UnmapOK
<1>3. /\ cfg.isDevelopment = dev
      /\ LoopbackPrefixes \subseteq cfg.healthCheckSources
      /\ ~dev => cfg.trustedProxies \subseteq cfg.healthCheckSources
      /\ cfg.publicOrigin = PublicOrigin(env, dev) /\ cfg.publicOrigin # Error
      /\ ~dev => env \in Processes
  BY ConfigOK DEF StartInv
<1>4. ASSUME IsHealthCheckRequest(req), HealthFrom PROVE c.reason = Nil
  <2>1. PrefixContains(cfg.healthCheckSources, remote)
    BY <1>2, <1>3, <1>4 DEF HealthFrom, PrefixContains
  <2>2. c = [NoContext EXCEPT !.key = <<"health">>]
    BY <1>4, <2>1 DEF TrustedProxy
  <2> QED
    BY <2>2 DEF NoContext
<1>5. ASSUME c.reason = Nil, ~dev, ~IsHealthCheckRequest(req) PROVE TrustedAs(c)
  <2>1. \A reason : Reject(reason).reason = reason
    BY DEF Reject, NoContext
  <2>2. /\ PrefixContains(cfg.trustedProxies, remote) /\ meta # Error /\ ~NotHttps(meta)
        /\ origin # Error /\ ~HostMismatch(origin)
        /\ c = [key |-> ClientKey(client), reason |-> Nil,
                  origin |-> IF cfg.publicOrigin # Nil THEN cfg.publicOrigin ELSE origin]
    <3> HIDE DEF meta, origin, client, remote
    <3> QED
      BY <1>3, <1>5, <2>1, NilAssumption DEF TrustedProxy, meta, origin, client, remote
  <2>3. /\ meta.forChain =
             [i \in {j \in DOMAIN req.xFor : req.xFor[j] # Nil} |-> Unmap(req.xFor[i])]
        /\ \A i \in DOMAIN meta.forChain : req.xFor[i] \in Address
        /\ meta.host = req.wanted
        /\ Len(req.route) > 1 /\ meta.proto = "https" => req.tls
    BY <2>2, MetadataOK
  <2>4. PrefixContains(cfg.trustedProxies, LastHop)
    BY <1>2, <2>2
  <2>5. Proxied => req.tls
    BY <2>2, <2>3 DEF Proxied, NotHttps
  <2>6. ASSUME Strangers # {} PROVE c.key = ClientKey(req.route[Rightmost(Strangers)])
    <3> DEFINE chain == meta.forChain
               P == cfg.trustedProxies
    <3> HIDE DEF meta, client
    <3>a. /\ chain = [i \in {j \in DOMAIN req.xFor : req.xFor[j] # Nil} |-> Unmap(req.xFor[i])]
          /\ \A i \in DOMAIN chain : req.xFor[i] \in Address
          /\ client = ForwardedClientIP(chain, P)
      BY <2>3 DEF client
    <3>b. /\ Strangers = {i \in DOMAIN req.route : ~PrefixContains(P, req.route[i])}
          /\ PrefixContains(P, req.route[Len(req.route)])
      BY <2>4 DEF LastHop, Strangers
    <3> HIDE DEF chain, P
    <3>1. ClientKey(client) = ClientKey(req.route[Rightmost(Strangers)])
      BY <3>a, <3>b, <2>6, SenderFound
    <3> QED
      BY <2>2, <3>1
  <2>7. c.origin = [scheme |-> "https", host |-> req.wanted]
        /\ (env.publicOrigin # Nil => c.origin.host = env.publicOrigin.host)
    <3>1. origin = [scheme |-> "https", host |-> req.wanted]
      BY <2>2, <2>3 DEF ForwardedPublicOrigin, ParsePublicOrigin
    <3> HIDE DEF meta, origin, client
    <3>2. CASE cfg.publicOrigin = Nil
      <4>1. env.publicOrigin = Nil
        BY <1>3, <1>5, <3>2, OriginAssumption DEF PublicOrigin, ParsePublicOrigin
      <4> QED
        BY <2>2, <3>1, <3>2, <4>1
    <3>3. CASE cfg.publicOrigin # Nil
      <4>1. /\ cfg.publicOrigin = [scheme |-> env.publicOrigin.scheme,
                                   host |-> env.publicOrigin.host]
            /\ env.publicOrigin.scheme = "https"
        BY <1>3, <1>5, <3>3 DEF PublicOrigin, ParsePublicOrigin
      <4>2. origin.host = cfg.publicOrigin.host
        BY <2>2, <3>3 DEF HostMismatch
      <4>3. env.publicOrigin.host = req.wanted
        BY <3>1, <4>1, <4>2
      <4> QED
        BY <2>2, <3>3, <4>1, <4>3
    <3> QED
      BY <3>2, <3>3
  <2> QED
    BY <2>4, <2>5, <2>6, <2>7 DEF TrustedAs
<1>6. c.key \in Keys
  <2>1. \A reason : Reject(reason).key \in Keys
    BY DEF Reject, NoContext, Keys
  <2>2. [NoContext EXCEPT !.key = <<"health">>].key \in Keys
    BY DEF NoContext, Keys
  <2>3. [NoContext EXCEPT !.key = ClientKey(remote)].key \in Keys
    BY <1>1, UnmapOK DEF NoContext, Keys
  <2>4. ASSUME meta # Error, client # Error PROVE ClientKey(client) \in Keys
    <3>1. /\ DOMAIN meta.forChain \subseteq DOMAIN req.xFor
          /\ \A i \in DOMAIN meta.forChain :
                meta.forChain[i] = Unmap(req.xFor[i]) /\ req.xFor[i] \in Address
      <4>1. /\ meta.forChain =
                 [i \in {j \in DOMAIN req.xFor : req.xFor[j] # Nil} |-> Unmap(req.xFor[i])]
            /\ \A i \in DOMAIN meta.forChain : req.xFor[i] \in Address
        BY <2>4, MetadataOK
      <4> HIDE DEF meta
      <4> QED
        BY <4>1
    <3> DEFINE chain == meta.forChain
               untrusted == {i \in DOMAIN chain : ~PrefixContains(cfg.trustedProxies, chain[i])}
    <3>2. untrusted # {} /\ client = chain[Rightmost(untrusted)]
      BY <2>4 DEF ForwardedClientIP
    <3>3. untrusted \subseteq DOMAIN chain /\ Len(req.xFor) \in Nat
          /\ DOMAIN req.xFor = 1..Len(req.xFor)
      BY DEF Request
    <3>4. Rightmost(untrusted) \in DOMAIN chain
      <4> HIDE DEF untrusted, chain
      <4>1. untrusted \in SUBSET (1..Len(req.xFor))
        BY <3>1, <3>3 DEF chain
      <4> QED
        BY <3>2, <3>3, <4>1, RightmostOK
    <3>5. client \in Address
      BY <3>1, <3>2, <3>4, UnmapOK
    <3> QED
      BY <3>5 DEF Keys
  <2> HIDE DEF meta, origin, client, remote
  <2> QED
    BY <2>1, <2>2, <2>3, <2>4
       DEF TrustedProxy, meta, origin, client, remote
<1> QED
  BY <1>4, <1>5, <1>6

-----------------------------------------------------------------------------
(* The passage of a request *)

Moved(r, at, charged) == [r EXCEPT !.at = at, !.charged = charged]

\* The middleware changes nothing of a request but how far it is and whom it
\* was charged to.
LEMMA MovedOK ==
    ASSUME NEW r \in Request, RouteOK(r),
           NEW at \in Places,
           NEW charged \in Charges
    PROVE  LET q == Moved(r, at, charged) IN
           /\ q \in Request /\ RouteOK(q) /\ q # Idle
           /\ q.at = at /\ q.charged = charged
           /\ q.method = r.method /\ q.path = r.path /\ q.cross = r.cross
           /\ q.tls = r.tls /\ q.wanted = r.wanted /\ q.route = r.route
<1> DEFINE q == Moved(r, at, charged)
<1>1. /\ q \in Request /\ q.at = at /\ q.charged = charged
      /\ q.method = r.method /\ q.path = r.path /\ q.cross = r.cross
      /\ q.tls = r.tls /\ q.wanted = r.wanted /\ q.route = r.route
      /\ q.xHost = r.xHost /\ q.xProto = r.xProto /\ q.xFor = r.xFor
  BY DEF Request, Moved
<1>2. q # Idle
  <2>1. at # "idle" /\ Idle.at = "idle"
    BY DEF Idle, Places
  <2> QED
    BY <1>1, <2>1
<1>3. RouteOK(q)
  <2> HIDE DEF q
  <2> QED
    BY <1>1 DEF RouteOK
<1> QED
  BY <1>1, <1>2, <1>3

\* A proxy that passes a request on writes down where it came from.
LEMMA ForwardOK ==
    ASSUME Inv, Forward PROVE req' \in Request /\ RouteOK(req') /\ req'.at = "wire"
                              /\ req'.charged = req.charged
<1> DEFINE peer == req.route[Len(req.route)]
           moved == [req EXCEPT !.route = Append(@, Head(req.ahead)), !.ahead = Tail(@)]
           n == Len(req.route)
<1>1. /\ req \in Request /\ RouteOK(req) /\ req.at = "wire" /\ req.ahead # <<>>
  BY DEF Inv, RequestInv, Forward, Idle
<1>2. PICK strip \in BOOLEAN :
          req' = IF Len(req.route) = 1
                 THEN [moved EXCEPT !.xFor = Append(IF strip THEN <<>> ELSE @, peer),
                         !.xProto = <<IF req.tls THEN "https" ELSE "http">>,
                         !.xHost = <<req.wanted>>,
                         !.forwarded = IF strip THEN FALSE ELSE @]
                 ELSE [moved EXCEPT !.xFor = Append(@, peer),
                         !.xProto = IF strip THEN @ ELSE Append(@, "http")]
  BY DEF Forward
<1>3. /\ req.route \in Seq(Address) /\ req.route # <<>> /\ req.ahead \in Seq(Address)
      /\ req.xFor \in Seq(Address \cup {Nil, Junk}) /\ req.xProto \in Seq({"http", "https"})
      /\ req.wanted \in Hosts \cup {Junk} /\ req.tls \in BOOLEAN /\ req.forwarded \in BOOLEAN
  BY <1>1 DEF Request, RouteOK
<1>4. /\ n \in Nat /\ n >= 1 /\ peer \in Address
      /\ Head(req.ahead) \in Address /\ Tail(req.ahead) \in Seq(Address)
  BY <1>1, <1>3
<1> DEFINE route == Append(req.route, Head(req.ahead))
<1>5. /\ route \in Seq(Address) /\ Len(route) = n + 1 /\ route # <<>> /\ route[n] = peer
      /\ \A i \in 1..n : route[i] = req.route[i]
  BY <1>3, <1>4
<1>6. moved = [req EXCEPT !.route = route, !.ahead = Tail(req.ahead)] /\ moved \in Request
      /\ moved.route = route /\ moved.xFor = req.xFor /\ moved.xProto = req.xProto
      /\ moved.forwarded = req.forwarded /\ moved.wanted = req.wanted /\ moved.tls = req.tls
      /\ moved.xHost = req.xHost /\ moved.at = "wire" /\ moved.charged = req.charged
  BY <1>1, <1>3, <1>4, <1>5 DEF Request
<1>n. n = Len(req.route)
  OBVIOUS
<1> HIDE DEF peer, moved, n, route
<1>7. CASE Len(req.route) = 1
  <2> DEFINE xFor == Append(IF strip THEN <<>> ELSE req.xFor, peer)
             xProto == <<IF req.tls THEN "https" ELSE "http">>
  <2>1. /\ xFor \in Seq(Address \cup {Nil, Junk})
        /\ Len(xFor) >= 1 /\ Len(xFor) \in Nat /\ xFor[Len(xFor)] = peer
    BY <1>3, <1>4
  <2>2. xProto \in Seq({"http", "https"}) /\ xProto # <<>>
        /\ xProto[1] = IF req.tls THEN "https" ELSE "http"
    OBVIOUS
  <2>3. <<req.wanted>> \in Seq(Hosts \cup {Junk})
    BY <1>3
  <2>4. req' = [moved EXCEPT !.xFor = xFor, !.xProto = xProto, !.xHost = <<req.wanted>>,
                             !.forwarded = IF strip THEN FALSE ELSE req.forwarded]
    BY <1>2, <1>6, <1>7
  <2> HIDE DEF xFor, xProto
  <2>5. /\ req' \in Request /\ req'.at = "wire" /\ req'.charged = req.charged
        /\ req'.route = route /\ req'.xFor = xFor /\ req'.xProto = xProto
        /\ req'.xHost = <<req'.wanted>> /\ req'.tls = req.tls
    BY <1>3, <1>6, <2>1, <2>2, <2>3, <2>4 DEF Request
  <2>6. RouteOK(req')
    <3>1. n = 1 /\ Len(route) = 2 /\ route[1] = peer /\ route # <<>>
      BY <1>5, <1>7, <1>n
    <3> DEFINE k == Len(xFor) - 1
    <3>2. k >= 0 /\ k + 1 = Len(xFor)
      BY <2>1
    <3>3. \A i \in 1..1 : xFor[k + i] = route[i]
      BY <2>1, <3>1, <3>2
    <3>4. Len(req'.route) - 1 = 1 /\ Len(req'.xFor) - 1 = k
      BY <2>5, <3>1
    <3> HIDE DEF k
    <3> QED
      BY <2>2, <2>5, <3>1, <3>2, <3>3, <3>4 DEF RouteOK
  <2> QED
    BY <2>5, <2>6
<1>8. CASE Len(req.route) # 1
  <2> DEFINE xFor == Append(req.xFor, peer)
             xProto == IF strip THEN req.xProto ELSE Append(req.xProto, "http")
             k == Len(req.xFor) - (n - 1)
  <2>1. n > 1
    <3>1. n \in Nat /\ n >= 1
      BY <1>4
    <3>2. n # 1
      BY <1>8, <1>n
    <3> QED
      BY <3>1, <3>2
  <2>2. /\ req.xProto # <<>> /\ req.xProto[1] = IF req.tls THEN "https" ELSE "http"
        /\ k >= 0 /\ \A i \in 1..(n - 1) : req.xFor[k + i] = req.route[i]
    BY <1>1, <1>n, <2>1 DEF RouteOK
  <2>3. /\ xFor \in Seq(Address \cup {Nil, Junk}) /\ Len(xFor) = Len(req.xFor) + 1
        /\ Len(req.xFor) \in Nat /\ xFor[Len(xFor)] = peer
        /\ \A i \in 1..Len(req.xFor) : xFor[i] = req.xFor[i]
    BY <1>3, <1>4
  <2>4. xProto \in Seq({"http", "https"}) /\ xProto # <<>>
        /\ xProto[1] = IF req.tls THEN "https" ELSE "http"
    BY <1>3, <2>2
  <2>5. req' = [moved EXCEPT !.xFor = xFor, !.xProto = xProto]
    BY <1>2, <1>6, <1>8
  <2>k. k = Len(req.xFor) - (n - 1)
    OBVIOUS
  <2> HIDE DEF xFor, xProto, k
  <2>6. /\ req' \in Request /\ req'.at = "wire" /\ req'.charged = req.charged
        /\ req'.route = route /\ req'.xFor = xFor /\ req'.xProto = xProto
        /\ req'.xHost = req.xHost /\ req'.wanted = req.wanted /\ req'.tls = req.tls
    BY <1>3, <1>6, <2>3, <2>4, <2>5 DEF Request
  <2>7. RouteOK(req')
    <3>1. Len(xFor) - n = k /\ Len(route) - 1 = n /\ k \in Int
      BY <1>4, <1>5, <2>3, <2>k
    <3>2. ASSUME NEW i \in 1..n PROVE xFor[k + i] = route[i]
      <4>1. CASE i = n
        <5>1. k + i = Len(xFor)
          BY <1>4, <2>3, <2>k, <4>1
        <5> QED
          BY <1>5, <2>3, <4>1, <5>1
      <4>2. CASE i # n
        <5>1. i \in 1..(n - 1) /\ k + i \in 1..Len(req.xFor)
          <6>1. k >= 0
            BY <2>2
          <6> QED
            BY <1>4, <2>3, <2>k, <3>1, <4>2, <6>1
        <5> QED
          BY <1>5, <2>2, <2>3, <5>1
      <4> QED
        BY <4>1, <4>2
    <3>3. req.xHost = <<req.wanted>>
      BY <1>1 DEF RouteOK
    <3> QED
      BY <1>5, <2>2, <2>4, <2>6, <3>1, <3>2, <3>3 DEF RouteOK
  <2> QED
    BY <2>6, <2>7
<1> QED
  BY <1>7, <1>8

\* A response, and what WriteHeader and WriteBody make of it.
Response(sent, status, cache, hsts, handler, err) ==
    [sent |-> sent, status |-> status, cache |-> cache, hsts |-> hsts, handler |-> handler,
     err |-> err]

\* WriteHeader: the first status is sent, the last one kept for the log.
LEMMA WriteHeaderOK ==
    ASSUME NEW s, NEW t, NEW c, NEW b, NEW h, NEW e, NEW code, NEW cache
    PROVE  /\ WriteHeader(Response(0, t, c, b, h, e), code, cache) = Response(code, code, cache, b, h, e)
           /\ s # 0 => WriteHeader(Response(s, t, c, b, h, e), code, cache)
                         = Response(s, code, c, b, h, e)
<1>1. WriteHeader(Response(0, t, c, b, h, e), code, cache) = Response(code, code, cache, b, h, e)
  <2> DEFINE r  == Response(0, t, c, b, h, e)
             r1 == [r EXCEPT !.sent = code]
             r2 == [r1 EXCEPT !.cache = cache]
  <2>1. r.sent = 0
    BY DEF Response
  <2>2. r1 = Response(code, t, c, b, h, e)
    BY DEF Response
  <2> HIDE DEF r1
  <2>3. r2 = Response(code, t, cache, b, h, e)
    BY <2>2 DEF Response
  <2> HIDE DEF r2
  <2>4. [r2 EXCEPT !.status = code] = Response(code, code, cache, b, h, e)
    BY <2>3 DEF Response
  <2> HIDE DEF r
  <2>5. WriteHeader(r, code, cache) = [r2 EXCEPT !.status = code]
    BY <2>1 DEF WriteHeader, r1, r2
  <2> QED
    BY <2>4, <2>5 DEF r
<1>2. s # 0 => WriteHeader(Response(s, t, c, b, h, e), code, cache) = Response(s, code, c, b, h, e)
  <2> HAVE s # 0
  <2> DEFINE r == Response(s, t, c, b, h, e)
  <2>1. r.sent = s
    BY DEF Response
  <2>2. [r EXCEPT !.status = code] = Response(s, code, c, b, h, e)
    BY DEF Response
  <2> HIDE DEF r
  <2>3. WriteHeader(r, code, cache) = [r EXCEPT !.sent = @, !.cache = @, !.status = code]
    BY <2>1 DEF WriteHeader
  <2>4. [r EXCEPT !.sent = @, !.cache = @, !.status = code] = [r EXCEPT !.status = code]
    BY DEF r, Response
  <2> QED
    BY <2>2, <2>3, <2>4 DEF r
<1> QED
  BY <1>1, <1>2

\* Write: a status of 200, if none was sent.
LEMMA WriteBodyOK ==
    ASSUME NEW s, NEW t, NEW c, NEW b, NEW h, NEW e, NEW cache
    PROVE  /\ WriteBody(Response(0, t, c, b, h, e), cache) = Response(200, t, cache, b, h, e)
           /\ s # 0 => WriteBody(Response(s, t, c, b, h, e), cache) = Response(s, t, c, b, h, e)
<1> DEFINE r  == Response(0, t, c, b, h, e)
           r1 == [r EXCEPT !.sent = 200]
<1>1. r1 = Response(200, t, c, b, h, e) /\ r.sent = 0
  BY DEF Response
<1> HIDE DEF r1
<1>2. [r1 EXCEPT !.cache = cache] = Response(200, t, cache, b, h, e)
  BY <1>1 DEF Response
<1> HIDE DEF r
<1>3. WriteBody(r, cache) = Response(200, t, cache, b, h, e)
  BY <1>1, <1>2 DEF WriteBody, r1
<1>4. s # 0 => WriteBody(Response(s, t, c, b, h, e), cache) = Response(s, t, c, b, h, e)
  BY DEF WriteBody, Response
<1> QED
  BY <1>3, <1>4 DEF r

\* A page is written, or a template fails: in production not because it does not
\* parse.
LEMMA ViewOK ==
    ASSUME ~dev => broken.parse = {}, NEW writer, NEW name
    PROVE  \/ View(writer, name) = WriteBody(writer, "no-store")
           \/ \E err \in {"parse", "execute"} :
                 View(writer, name) = InternalServerError(writer, err) /\ (err = "parse" => dev)
<1>1. CASE Affected(name, broken.parse)
  BY <1>1 DEF View, Affected
<1>2. CASE ~Affected(name, broken.parse)
  BY <1>2 DEF View
<1> QED
  BY <1>1, <1>2

\* The error is kept for the log.
LEMMA ErrorOK ==
    ASSUME NEW s, NEW t, NEW c, NEW b, NEW h, NEW e, NEW err
    PROVE  /\ InternalServerError(Response(0, t, c, b, h, e), err)
                = Response(500, 500, "no-store", b, h, err)
           /\ s # 0 => InternalServerError(Response(s, t, c, b, h, e), err)
                         = Response(s, 500, c, b, h, err)
           /\ err = "service" => WriteInternalJSONError(Response(0, t, c, b, h, e))
                                   = Response(500, 500, "no-store", b, h, err)
<1>1. \A x, y, z : [Response(x, y, z, b, h, e) EXCEPT !.err = err] = Response(x, y, z, b, h, err)
  BY DEF Response
<1>2. WriteHeader(Response(0, t, c, b, h, e), 500, "no-store")
        = Response(500, 500, "no-store", b, h, e)
  BY WriteHeaderOK
<1>3. s # 0 => WriteHeader(Response(s, t, c, b, h, e), 500, "no-store")
                 = Response(s, 500, c, b, h, e)
  BY WriteHeaderOK
<1> QED
  BY <1>1, <1>2, <1>3 DEF InternalServerError, WriteInternalJSONError, WriteJSON

\* What the handlers answer.
LEMMA HandleOK ==
    ASSUME Inv, Handle, UNCHANGED broken
    PROVE  /\ w'.hsts = ~dev /\ w'.handler = Mux(req.method, req.path)
           /\ TruthKept(w') /\ CacheKept(w', req.path)
           /\ IsHealthCheckRequest(req) => w'.sent = 200
<1> DEFINE h == Mux(req.method, req.path)
           hsts == ~dev
           w0 == [w EXCEPT !.handler = h]
<1>1. /\ req \in Request /\ phase = "serving" /\ Unanswered
      /\ dev \in BOOLEAN /\ (~dev => broken.parse = {}) /\ (cfg.isDevelopment => dev)
  <2>1. req \in Request /\ phase = "serving" /\ Unanswered /\ StartInv
    BY DEF Inv, RequestInv, PassageInv, Handle, Idle
  <2>2. cfg = NewConfig(env, dev) /\ cfg # Error /\ dev \in BOOLEAN
        /\ (~dev => broken.parse = {})
    BY <2>1 DEF StartInv
  <2> QED
    BY <2>1, <2>2, ConfigOK
<1>2. w0 = Response(0, 200, "none", hsts, h, Nil)
  <2> HIDE DEF h, hsts
  <2>1. w = Response(0, 200, "none", hsts, Nil, Nil)
    BY <1>1 DEF Unanswered, NoResponse, Response, hsts
  <2> QED
    BY <2>1 DEF Response
<1>3. \/ h = "HandleCreateNoteView" /\ w' = View(w0, "create")
      \/ h = "HandlePreviewNote" /\ w' = IF req.path = "/note/bad" THEN NotFound(w0)
                                         ELSE View(w0, "note")
      \/ h = "HandleGetConfig" /\ w' = WriteJSON(w0, 200)
      \/ h \in NoteService /\ w' \in {WriteJSON(w0, 200), WriteJSON(w0, 400),
                                       WriteInternalJSONError(w0)}
      \/ h = "HandleStaticAssets" /\ w' \in StaticAsset(w0, req.path)
      \/ h = "Redirect" /\ \E code \in {301, 307} : w' = WriteHeader(w0, code, "none")
      \/ h = "healthz" /\ w' = WriteHeader(w0, 200, "no-store")
      \/ h = "NotFound" /\ w' = NotFound(w0)
  BY DEF Handle
<1>4. IsHealthCheckRequest(req) => h = "healthz"
  BY <1>1, MuxOK DEF IsHealthCheckRequest, Request
<1> HIDE DEF h, w0, hsts
<1>5. \A code, cache : WriteHeader(w0, code, cache) = Response(code, code, cache, hsts, h, Nil)
  BY <1>2, WriteHeaderOK
<1>6. \A name : \/ View(w0, name) = Response(200, 200, "no-store", hsts, h, Nil)
                \/ \E err \in {"parse", "execute"} :
                      /\ View(w0, name) = Response(500, 500, "no-store", hsts, h, err)
                      /\ err = "parse" => dev
  <2> TAKE name
  <2>1. WriteBody(w0, "no-store") = Response(200, 200, "no-store", hsts, h, Nil)
    BY <1>2, WriteBodyOK
  <2>2. \A err : InternalServerError(w0, err) = Response(500, 500, "no-store", hsts, h, err)
    BY <1>2, ErrorOK
  <2> QED
    BY <1>1, <2>1, <2>2, ViewOK
<1>7. \/ NotFound(w0) = Response(404, 404, "no-store", hsts, h, Nil)
      \/ \E err \in {"parse", "execute"} :
            /\ NotFound(w0) = Response(404, 500, "no-store", hsts, h, err)
            /\ err = "parse" => dev
  <2> DEFINE w1 == WriteHeader(w0, 404, "no-store")
  <2>1. w1 = Response(404, 404, "no-store", hsts, h, Nil)
    BY <1>5
  <2> HIDE DEF w1
  <2>2. WriteBody(w1, "no-store") = w1
    <3>1. 404 # 0
      OBVIOUS
    <3> QED
      BY <2>1, <3>1, WriteBodyOK
  <2>3. \A err : InternalServerError(w1, err) = Response(404, 500, "no-store", hsts, h, err)
    BY <2>1, ErrorOK
  <2>4. NotFound(w0) = View(w1, "error")
    BY DEF NotFound, w1
  <2> QED
    BY <1>1, <2>1, <2>2, <2>3, <2>4, ViewOK
<1>8. h = Mux(req.method, req.path) /\ hsts = ~dev
  BY DEF h, hsts
<1>9. \A s1, s2, c, e : LET v == Response(s1, s2, c, hsts, h, e) IN
        /\ v.sent = s1 /\ v.status = s2 /\ v.cache = c /\ v.hsts = hsts /\ v.handler = h
        /\ v.err = e
  BY DEF Response
<1>10. CASE h = "HandleStaticAssets" /\ w' \in StaticAsset(w0, req.path)
  <2>1. PICK a \in IF req.path \in CurrentPaths THEN FileServer(req.path) ELSE {<<404, "none">>} :
          w' = WriteHeader(w0, a[1], a[2])
    BY <1>10 DEF StaticAsset
  <2>2. /\ a[1] \in {200, 206, 301, 304, 403, 404, 412, 416, 500}
        /\ a[1] = 500 => cfg.isDevelopment
        /\ a[2] = "immutable" => req.path \in CurrentPaths /\ a[1] \in {200, 206, 301, 304, 412}
    <3>1. CASE req.path \notin CurrentPaths
      BY <2>1, <3>1
    <3>2. CASE req.path = "/static/current/file"
      BY <2>1, <3>2 DEF FileServer, CurrentPaths
    <3>3. CASE req.path \in {"/static/current/dir", "/static/current/index.html"}
      BY <2>1, <3>3 DEF FileServer, CurrentPaths
    <3>4. CASE req.path = "/static/current/missing"
      BY <2>1, <3>4 DEF FileServer, CurrentPaths
    <3> QED
      BY <3>1, <3>2, <3>3, <3>4 DEF CurrentPaths
  <2>3. w' = Response(a[1], a[1], a[2], hsts, h, Nil)
    BY <1>5, <2>1
  <2> DEFINE code == a[1]
             cache == a[2]
  <2> HIDE DEF code, cache
  <2>4. /\ w'.sent = code /\ w'.status = code /\ w'.cache = cache /\ w'.hsts = hsts
        /\ w'.handler = h /\ w'.err = Nil
    BY <1>9, <2>3 DEF code, cache
  <2>5. /\ code \in {200, 206, 301, 304, 403, 404, 412, 416, 500} /\ (code = 500 => dev)
        /\ cache = "immutable" => req.path \in CurrentPaths /\ code \in {200, 206, 301, 304, 412}
    BY <1>1, <2>2 DEF code, cache
  <2>6. TruthKept(w') /\ CacheKept(w', req.path)
    BY <1>10, <2>4, <2>5, NilAssumption DEF TruthKept, CacheKept
  <2> QED
    BY <1>4, <1>8, <1>10, <2>4, <2>6
<1>11. CASE h = "Redirect" /\ \E code \in {301, 307} : w' = WriteHeader(w0, code, "none")
  <2>1. PICK code \in {301, 307} : w' = Response(code, code, "none", hsts, h, Nil)
    BY <1>5, <1>11
  <2>2. TruthKept(w') /\ CacheKept(w', req.path)
    BY <1>9, <1>11, <2>1, NilAssumption DEF TruthKept, CacheKept
  <2> QED
    BY <1>4, <1>8, <1>9, <1>11, <2>1, <2>2
<1>12. CASE /\ h \notin {"HandleStaticAssets", "Redirect", "healthz"}
            /\ \/ \E code \in {200, 400, 404} :
                     w' = Response(code, code, "no-store", hsts, h, Nil)
               \/ \E code \in {404, 500}, err \in {"parse", "execute", "service"} :
                     /\ w' = Response(code, 500, "no-store", hsts, h, err)
                     /\ err = "parse" => dev
                     /\ code = 404 => err # "service"
  <2>1. TruthKept(w')
    BY <1>9, <1>12, NilAssumption DEF TruthKept
  <2>2. CacheKept(w', req.path) /\ w'.hsts = hsts /\ w'.handler = h
    BY <1>9, <1>12 DEF CacheKept
  <2> QED
    BY <1>4, <1>8, <1>12, <2>1, <2>2
<1>13. CASE h = "healthz" /\ w' = WriteHeader(w0, 200, "no-store")
  <2>1. w' = Response(200, 200, "no-store", hsts, h, Nil)
    BY <1>5, <1>13
  <2>2. TruthKept(w') /\ CacheKept(w', req.path) /\ w'.hsts = hsts /\ w'.handler = h
        /\ w'.sent = 200
    BY <1>9, <2>1, NilAssumption DEF TruthKept, CacheKept
  <2> QED
    BY <1>8, <2>2
<1>14. CASE h \in NoteService /\ w' \in {WriteJSON(w0, 200), WriteJSON(w0, 400),
                                          WriteInternalJSONError(w0)}
  <2>1. h \notin {"HandleStaticAssets", "Redirect", "healthz"}
    BY <1>14 DEF NoteService
  <2>2. WriteInternalJSONError(w0) = Response(500, 500, "no-store", hsts, h, "service")
    BY <1>2, ErrorOK
  <2> QED
    BY <1>5, <1>12, <1>14, <2>1, <2>2 DEF WriteJSON
<1>15. CASE h = "HandleGetConfig" /\ w' = WriteJSON(w0, 200)
  BY <1>5, <1>12, <1>15 DEF WriteJSON
<1>16. CASE \/ h = "HandleCreateNoteView" /\ w' = View(w0, "create")
            \/ h = "HandlePreviewNote" /\ w' = View(w0, "note")
  <2>1. h \notin {"HandleStaticAssets", "Redirect", "healthz"}
    BY <1>16
  <2> QED
    BY <1>6, <1>12, <1>16, <2>1
<1>17. CASE h \in {"HandlePreviewNote", "NotFound"} /\ w' = NotFound(w0)
  <2>1. h \notin {"HandleStaticAssets", "Redirect", "healthz"}
    BY <1>17
  <2> QED
    BY <1>7, <1>12, <1>17, <2>1
<1> QED
  BY <1>3, <1>10, <1>11, <1>13, <1>14, <1>15, <1>16, <1>17

-----------------------------------------------------------------------------
(* The invariant *)

\* Before the start there is no request.
LEMMA InitInv == Init => Inv
<1> SUFFICES ASSUME Init PROVE Inv
  OBVIOUS
<1>0. EnvironmentOK
  <2>1. env = BlankEnvironment
    BY DEF Init, StartupInit
  <2>2. /\ env.maxNoteSize = Nil /\ env.maxDBSize = Nil
        /\ env.links = [i \in 1..(MaxConfiguredLinks + 1) |-> [title |-> Nil, url |-> Nil]]
    BY <2>1 DEF BlankEnvironment
  <2> QED
    BY <2>2 DEF EnvironmentOK
<1>1. StartInv
  BY <1>0 DEF Init, StartupInit, StartInv
<1>2. req = Idle /\ req.at = "idle"
  BY DEF Init, Idle
<1>3. RequestInv
  BY <1>2 DEF RequestInv
<1>4. PassageInv
  BY <1>2 DEF Init, PassageInv
<1> QED
  BY <1>1, <1>3, <1>4 DEF Inv

\* While there is no request there is nothing to say about one.
LEMMA IdleOK ==
    ASSUME PassageInv, req = Idle, UNCHANGED <<req, ctx, w, log>>
    PROVE  RequestInv' /\ PassageInv'
<1>1. req.at = "idle" /\ req' = Idle /\ req'.at = "idle"
  BY DEF Idle
<1>2. ctx' = NoContext /\ w' = NoResponse /\ log' = Nil
  BY <1>1 DEF PassageInv
<1> QED
  BY <1>1, <1>2 DEF RequestInv, PassageInv

\* Start, BuildHandler and EditTemplate.
LEMMA ProcessInv ==
    ASSUME Inv, \/ Start /\ UNCHANGED <<broken, req, ctx, w, log>>
                \/ BuildHandler \/ EditTemplate
    PROVE  Inv'
<1>0. StartInv /\ RequestInv /\ PassageInv
  BY DEF Inv
<1>1. CASE LoadEnv /\ UNCHANGED <<broken, req, ctx, w, log>>
  <2>1. StartInv'
    <3> DEFINE loaded == IF dev THEN LoadDevelopmentEnv(process, file) ELSE process
    <3>1. \/ phase' = "failed" /\ env' = env /\ cfg' = Error
          \/ phase' = "loaded" /\ env' = loaded /\ cfg' = cfg
      BY <1>1 DEF LoadEnv
    <3>2. phase = "stopped" /\ UNCHANGED <<dev, process, file, broken>>
      BY <1>1 DEF LoadEnv
    <3>a. loaded = Error => phase' = "failed" /\ env' = env
      BY <1>1 DEF LoadEnv
    <3>b. loaded # Error => phase' = "loaded" /\ env' = loaded
      BY <1>1 DEF LoadEnv
    <3> HIDE DEF loaded
    <3>3. ~dev => loaded = process /\ loaded # Error
      BY <1>0, EnvironmentAssumption DEF loaded, StartInv
    <3>c. phase' = "failed" => dev /\ loaded = Error
      BY <3>3, <3>b
    <3>4. EnvironmentOK'
      <4>1. CASE loaded = Error
        BY <1>0, <3>a, <4>1 DEF StartInv, EnvironmentOK
      <4>2. CASE loaded # Error /\ ~dev
        BY <1>0, <3>3, <3>b, <4>2, EnvironmentAssumption DEF StartInv, EnvironmentOK
      <4>3. CASE loaded # Error /\ dev
        <5>1. env' = LoadDevelopmentEnv(process, file) /\ file \in Files \ {Junk}
              /\ process \in Processes
          BY <1>0, <3>b, <4>3 DEF StartInv, LoadDevelopmentEnv, loaded
        <5> QED
          BY <5>1, LoadedOK DEF EnvironmentOK
      <4> QED
        BY <4>1, <4>2, <4>3
    <3> QED
      BY <1>0, <3>1, <3>2, <3>3, <3>c, <3>4 DEF StartInv
  <2>2. req = Idle
    BY <1>0, <1>1 DEF RequestInv, LoadEnv
  <2> QED
    BY <1>0, <1>1, <2>1, <2>2, IdleOK DEF Inv
<1>2. CASE ParseConfig /\ UNCHANGED <<broken, req, ctx, w, log>>
  <2>1. StartInv'
    <3>1. /\ phase = "loaded" /\ cfg' = NewConfig(env, dev)
          /\ phase' = IF cfg' = Error THEN "failed" ELSE "parsed"
          /\ UNCHANGED <<dev, process, file, env, broken>>
      BY <1>2 DEF ParseConfig
    <3>2. NewConfig(env', dev') = NewConfig(env, dev)
      BY <3>1
    <3>3. EnvironmentOK'
      BY <1>0, <3>1 DEF StartInv, EnvironmentOK
    <3> QED
      BY <1>0, <3>1, <3>2, <3>3 DEF StartInv
  <2>2. req = Idle
    BY <1>0, <1>2 DEF RequestInv, ParseConfig
  <2> QED
    BY <1>0, <1>2, <2>1, <2>2, IdleOK DEF Inv
<1>3. CASE BuildHandler
  <2>1. StartInv'
    <3>1. /\ phase = "parsed" /\ UNCHANGED <<dev, process, file, env, cfg>>
          /\ phase' = IF NewViews(cfg.isDevelopment, broken') THEN "serving" ELSE "aborted"
      BY <1>3 DEF BuildHandler
    <3>2. cfg = NewConfig(env, dev) /\ cfg # Error /\ dev \in BOOLEAN
      BY <1>0, <3>1 DEF StartInv
    <3>3. cfg.isDevelopment = dev
      BY <3>2, ConfigOK
    <3>4. NewConfig(env', dev') = NewConfig(env, dev)
      BY <3>1
    <3>5. phase' = "serving" /\ ~dev' => broken'.parse = {}
      BY <3>1, <3>3 DEF NewViews
    <3>6. EnvironmentOK'
      BY <1>0, <3>1 DEF StartInv, EnvironmentOK
    <3> QED
      BY <1>0, <3>1, <3>2, <3>4, <3>5, <3>6 DEF StartInv
  <2>2. req = Idle
    BY <1>0, <1>3 DEF RequestInv, BuildHandler
  <2> QED
    BY <1>0, <1>3, <2>1, <2>2, IdleOK DEF Inv, BuildHandler
<1>4. CASE EditTemplate
  <2>1. /\ phase = "serving" /\ cfg.isDevelopment
        /\ UNCHANGED <<phase, dev, process, file, env, cfg, req, ctx, w, log>>
    BY <1>4 DEF EditTemplate, config
  <2>2. cfg = NewConfig(env, dev) /\ cfg # Error /\ dev \in BOOLEAN
    BY <1>0, <2>1 DEF StartInv
  <2>3. dev
    BY <2>1, <2>2, ConfigOK
  <2>4. NewConfig(env', dev') = NewConfig(env, dev)
    BY <2>1
  <2>a. EnvironmentOK'
    BY <1>0, <2>1 DEF StartInv, EnvironmentOK
  <2>5. StartInv'
    BY <1>0, <2>a, <2>1, <2>3, <2>4 DEF StartInv
  <2>6. RequestInv'
    BY <1>0, <2>1 DEF RequestInv
  <2>7. PassageInv'
    BY <1>0, <2>1 DEF PassageInv, Unanswered, Answered, TruthKept, CacheKept, Logged,
                      IsSuccessfulStaticRoute, TrustedAs, HealthFrom, Strangers, LastHop, Proxied
  <2> QED
    BY <2>5, <2>6, <2>7 DEF Inv
<1> QED
  BY <1>1, <1>2, <1>3, <1>4 DEF Start

\* A step of the network or the middleware leaves the process alone.
LEMMA ProcessKept ==
    ASSUME StartInv, UNCHANGED <<config, broken>> PROVE StartInv'
<1>1. UNCHANGED <<phase, dev, process, file, env, cfg, broken>>
  BY DEF config
<1>2. NewConfig(env', dev') = NewConfig(env, dev)
  BY <1>1
<1>3. EnvironmentOK'
  BY <1>1 DEF StartInv, EnvironmentOK
<1> QED
  BY <1>1, <1>2, <1>3 DEF StartInv

\* Send and Forward.
LEMMA NetworkInv ==
    ASSUME Inv, Send \/ Forward PROVE Inv'
<1>0. StartInv /\ RequestInv /\ PassageInv
  BY DEF Inv
<1>1. UNCHANGED <<config, broken, ctx, w, log>> /\ phase' = phase
  BY DEF Send, Forward, config
<1>2. StartInv'
  BY <1>0, <1>1, ProcessKept
<1>3. /\ phase = "serving" /\ req.at \in {"idle", "wire"}
      /\ req' \in Request /\ RouteOK(req') /\ req'.at = "wire" /\ req'.charged = Nil
  <2>1. CASE Send
    <3>1. PICK m \in Traffic(dev, process, file) :
             req' = [at |-> "wire", method |-> m.request[1], path |-> m.request[2],
                     tls |-> m.tls, cross |-> m.cross, wanted |-> m.host,
                     route |-> <<m.client>>, ahead |-> m.via, charged |-> Nil,
                     xFor |-> m.xFor, xProto |-> <<m.proto>>, xHost |-> <<m.host>>,
                     forwarded |-> m.forwarded]
      BY <2>1 DEF Send
    <3>2. m \in Message
      BY <1>0, <3>1, TrafficAssumption DEF StartInv
    <3>3. /\ m.request[1] \in {"GET", "POST"} /\ m.request[2] \in Paths
          /\ m.tls \in BOOLEAN /\ m.cross \in BOOLEAN /\ m.host \in Hosts \cup {Junk}
          /\ <<m.client>> \in Seq(Address) /\ m.via \in Seq(Address)
          /\ m.xFor \in Seq(Address \cup {Nil, Junk}) /\ <<m.proto>> \in Seq({"http", "https"})
          /\ <<m.host>> \in Seq(Hosts \cup {Junk}) /\ m.forwarded \in BOOLEAN
      BY <3>2 DEF Message
    <3>a. "wire" \in Places /\ Nil \in Charges
      BY DEF Places, Charges
    <3>4. req' \in Request
      BY <3>1, <3>3, <3>a DEF Request
    <3>5. /\ req'.route = <<m.client>> /\ req'.xHost = <<req'.wanted>>
          /\ req'.at = "wire" /\ req'.charged = Nil
      BY <3>1
    <3>6. RouteOK(req')
      BY <3>5 DEF RouteOK
    <3> QED
      BY <2>1, <3>4, <3>5, <3>6 DEF Send
  <2>2. CASE Forward
    <3>a. req.at = "wire"
      BY <2>2 DEF Forward
    <3>1. req # Idle
      BY <3>a DEF Idle
    <3> QED
      BY <1>0, <2>2, <3>a, <3>1, ForwardOK DEF RequestInv, PassageInv
  <2> QED
    BY <2>1, <2>2
<1>4. RequestInv'
  BY <1>1, <1>3 DEF RequestInv
<1>5. ctx' = NoContext /\ w' = NoResponse /\ log' = Nil
  BY <1>0, <1>1, <1>3 DEF PassageInv
<1>6. PassageInv'
  BY <1>3, <1>5 DEF PassageInv
<1> QED
  BY <1>2, <1>4, <1>6 DEF Inv

\* TrustedProxyMiddleware rejects a request or lets it pass.
LEMMA ArriveInv == ASSUME Inv, Arrive PROVE Inv'
<1>0. StartInv /\ RequestInv /\ PassageInv
  BY DEF Inv
<1>1. UNCHANGED <<config, broken, log>> /\ UNCHANGED <<phase, dev, env, cfg>>
  BY DEF Arrive, config
<1>2. StartInv'
  BY <1>0, <1>1, ProcessKept
<1>3. req \in Request /\ RouteOK(req) /\ phase = "serving" /\ req.at = "wire"
  BY <1>0 DEF RequestInv, Arrive, Idle
<1>4. req.charged = Nil /\ ctx = NoContext /\ w = NoResponse /\ log = Nil
  BY <1>0, <1>3 DEF PassageInv
<1>5. /\ ctx'.key \in Keys
      /\ ctx'.reason = Nil => dev \/ IsHealthCheckRequest(req) \/ TrustedAs(ctx')
      /\ IsHealthCheckRequest(req) /\ HealthFrom => ctx'.reason = Nil
  <2>1. ctx' = TrustedProxy(req, Unmap(LastHop))
    BY DEF Arrive, LastHop
  <2> QED
    BY <1>0, <1>3, <2>1, TrustedProxyOK
<1>6. PICK at \in {"limiter", "done"} :
         /\ req' = [req EXCEPT !.at = at]
         /\ at = "done" <=> ctx'.reason # Nil
         /\ w' = IF at = "done" THEN WriteErrorResponse(w, 400) ELSE SecurityHeaders(w)
  <2>1. CASE ctx'.reason = Nil
    <3>1. req' = [req EXCEPT !.at = "limiter"] /\ w' = SecurityHeaders(w)
      BY <2>1 DEF Arrive
    <3> QED
      BY <2>1, <3>1
  <2>2. CASE ctx'.reason # Nil
    <3>1. req' = [req EXCEPT !.at = "done"] /\ w' = WriteErrorResponse(w, 400)
      BY <2>2 DEF Arrive
    <3> QED
      BY <2>2, <3>1
  <2> QED
    BY <2>1, <2>2
<1>7. /\ req' \in Request /\ RouteOK(req') /\ req' # Idle /\ req'.at = at
      /\ req'.charged = Nil /\ req'.method = req.method /\ req'.path = req.path
      /\ req'.tls = req.tls /\ req'.wanted = req.wanted /\ req'.route = req.route
  <2>1. req' = Moved(req, at, Nil)
    BY <1>3, <1>4, <1>6 DEF Request, Moved
  <2>2. at \in Places /\ Nil \in Charges
    BY DEF Charges, Places
  <2> QED
    BY <1>3, <2>1, <2>2, MovedOK
<1>8. RequestInv'
  BY <1>1, <1>3, <1>7 DEF RequestInv
<1>9. /\ LastHop' = LastHop /\ Strangers' = Strangers /\ Proxied' = Proxied
      /\ HealthFrom' = HealthFrom /\ IsHealthCheckRequest(req') = IsHealthCheckRequest(req)
  BY <1>1, <1>7 DEF LastHop, Strangers, Proxied, HealthFrom, IsHealthCheckRequest
<1>10. TrustedAs(ctx') => TrustedAs(ctx)'
  BY <1>1, <1>7, <1>9 DEF TrustedAs
<1>11. w' = IF at = "done" THEN WriteErrorResponse(NoResponse, 400)
            ELSE [NoResponse EXCEPT !.hsts = ~dev]
  <2>1. cfg.isDevelopment = dev
    BY <1>0, <1>3, ConfigOK DEF StartInv
  <2> QED
    BY <1>4, <1>6, <2>1 DEF SecurityHeaders
<1>12. PassageInv'
  BY <1>1, <1>4, <1>5, <1>6, <1>7, <1>9, <1>10, <1>11 DEF PassageInv, Unanswered
<1> QED
  BY <1>2, <1>8, <1>12 DEF Inv

\* The rest of the middleware knows the request as TrustedProxyMiddleware left
\* it.
LEMMA PassedOn ==
    ASSUME Inv, req.at \in {"limiter", "csrf", "mux", "answered"},
           UNCHANGED <<config, broken, ctx>>,
           NEW at \in Places,
           NEW charged \in Charges, req' = Moved(req, at, charged)
    PROVE  /\ req \in Request /\ ctx.reason = Nil /\ ctx.key \in Keys /\ ctx' = ctx
           /\ dev' = dev /\ StartInv' /\ RequestInv'
           /\ req'.at = at /\ req'.charged = charged
           /\ req'.method = req.method /\ req'.path = req.path /\ req'.cross = req.cross
           /\ IsHealthCheckRequest(req') = IsHealthCheckRequest(req)
           /\ Exempt(req') = Exempt(req)
           /\ (dev \/ IsHealthCheckRequest(req) \/ TrustedAs(ctx))'
<1>0. StartInv /\ RequestInv /\ PassageInv
  BY DEF Inv
<1>1. UNCHANGED <<phase, dev, process, file, env, cfg>>
  BY DEF config
<1>2. StartInv'
  BY <1>0, ProcessKept
<1>3. req # Idle
  BY DEF Idle
<1>4. req \in Request /\ RouteOK(req) /\ phase = "serving"
  BY <1>0, <1>3 DEF RequestInv
<1>5. /\ req' \in Request /\ RouteOK(req') /\ req'.at = at /\ req'.charged = charged
      /\ req'.method = req.method /\ req'.path = req.path /\ req'.cross = req.cross
      /\ req'.tls = req.tls /\ req'.wanted = req.wanted /\ req'.route = req.route
  BY <1>4, MovedOK
<1>6. RequestInv'
  BY <1>1, <1>4, <1>5 DEF RequestInv
<1>7. /\ IsHealthCheckRequest(req') = IsHealthCheckRequest(req)
      /\ Exempt(req') = Exempt(req)
  BY <1>5 DEF Exempt, IsHealthCheckRequest, IsStaticAssetRequest
<1>8. /\ ctx.reason = Nil /\ ctx.key \in Keys
      /\ dev \/ IsHealthCheckRequest(req) \/ TrustedAs(ctx)
  BY <1>0 DEF PassageInv
<1>9. TrustedAs(ctx) => TrustedAs(ctx)'
  BY <1>1, <1>5 DEF TrustedAs, LastHop, Strangers, Proxied
<1> QED
  BY <1>1, <1>2, <1>4, <1>5, <1>6, <1>7, <1>8, <1>9

\* RateLimitMiddleware charges a request, lets it pass unseen or refuses it.
LEMMA RateLimitInv == ASSUME Inv, RateLimit PROVE Inv'
<1>0. PassageInv /\ req.at = "limiter" /\ UNCHANGED <<config, broken, ctx, log>>
  BY DEF Inv, RateLimit
<1>c. Nil \in Charges /\ Keys \subseteq Charges /\ {"csrf", "mux", "answered"} \subseteq Places
  BY DEF Charges, Places
<1>1. req \in Request /\ req.charged = Nil /\ ctx.key \in Keys /\ Unanswered
  <2>1. req # Idle
    BY <1>0 DEF Idle
  <2> QED
    BY <1>0, <1>c, <2>1 DEF Inv, RequestInv, PassageInv
<1>2. ctx.key # Nil
  BY <1>1, AddressAssumption DEF Keys
<1>3. ASSUME Exempt(req), req' = [req EXCEPT !.at = "csrf"], w' = w PROVE Inv'
  <2>1. req' = Moved(req, "csrf", Nil)
    BY <1>1, <1>3 DEF Moved, Request
  <2>2. PassageInv'
    <3>1. /\ req'.at = "csrf" /\ req'.charged = Nil /\ Exempt(req') /\ ctx' = ctx
          /\ ctx.reason = Nil /\ ctx.key \in Keys /\ dev' = dev
          /\ (dev \/ IsHealthCheckRequest(req) \/ TrustedAs(ctx))'
      BY <1>0, <1>c, <1>3, <2>1, PassedOn
    <3> QED
      BY <1>0, <1>c, <1>1, <1>3, <3>1 DEF PassageInv, Unanswered
  <2> QED
    BY <1>0, <1>c, <2>1, <2>2, PassedOn DEF Inv
<1>4. ASSUME ~Exempt(req), req' = [req EXCEPT !.at = "csrf", !.charged = ctx.key], w' = w
      PROVE  Inv'
  <2>1. req' = Moved(req, "csrf", ctx.key)
    BY <1>4 DEF Moved
  <2>2. PassageInv'
    BY <1>0, <1>c, <1>1, <1>2, <1>4, <2>1, PassedOn DEF PassageInv, Unanswered
  <2> QED
    BY <1>0, <1>c, <1>1, <2>1, <2>2, PassedOn DEF Inv
<1>5. ASSUME ~Exempt(req), req' = [req EXCEPT !.at = "answered"],
             w' = WriteErrorResponse(w, 429)
      PROVE  Inv'
  <2>1. req' = Moved(req, "answered", Nil)
    BY <1>1, <1>5 DEF Moved, Request
  <2>2. w' = Response(429, 429, "no-store", ~dev, Nil, Nil)
    <3> DEFINE hsts == ~dev
    <3> HIDE DEF hsts
    <3>1. w = Response(0, 200, "none", hsts, Nil, Nil)
      BY <1>1 DEF Unanswered, NoResponse, Response, hsts
    <3>2. w' = Response(429, 429, "no-store", hsts, Nil, Nil)
      BY <1>5, <3>1, WriteHeaderOK DEF WriteErrorResponse, WriteJSON
    <3> QED
      BY <3>2 DEF hsts
  <2>3. w'.sent = 429 /\ w'.status = 429 /\ w'.cache = "no-store" /\ w'.hsts = ~dev
        /\ w'.handler = Nil /\ w'.err = Nil
    BY <2>2 DEF Response
  <2>4. ~IsHealthCheckRequest(req) /\ Nil \notin NoteService
    BY <1>5, NilAssumption DEF Exempt
  <2>5. Answered'
    BY <1>0, <1>c, <1>1, <2>1, <2>3, <2>4, PassedOn, NilAssumption DEF Answered, TruthKept, CacheKept
  <2>6. PassageInv'
    BY <1>0, <1>c, <1>1, <2>1, <2>5, PassedOn DEF PassageInv
  <2> QED
    BY <1>0, <1>c, <2>1, <2>6, PassedOn DEF Inv
<1> QED
  BY <1>3, <1>4, <1>5 DEF RateLimit

\* CSRFMiddleware refuses a cross-origin POST.
LEMMA CSRFInv == ASSUME Inv, CSRF PROVE Inv'
<1>0. PassageInv /\ req.at = "csrf" /\ UNCHANGED <<config, broken, ctx, log>>
  BY DEF Inv, CSRF
<1>c. Nil \in Charges /\ Keys \subseteq Charges /\ {"csrf", "mux", "answered"} \subseteq Places
  BY DEF Charges, Places
<1>1. /\ req \in Request /\ req.charged \in Charges /\ Unanswered
      /\ req.charged \in {Nil, ctx.key} /\ (Exempt(req) => req.charged = Nil)
      /\ (Exempt(req) \/ req.charged # Nil)
  <2>1. req # Idle
    BY <1>0 DEF Idle
  <2>2. req \in Request
    BY <2>1 DEF Inv, RequestInv
  <2> QED
    BY <1>0, <1>c, <1>c, <2>2 DEF Request, PassageInv
<1>2. \A at : [req EXCEPT !.at = at] = Moved(req, at, req.charged)
  BY <1>1 DEF Moved, Request
<1>3. ASSUME req.cross /\ req.method = "POST" PROVE Inv'
  <2>1. req' = Moved(req, "answered", req.charged) /\ w' = WriteHeader(w, 403, "none")
    BY <1>2, <1>3 DEF CSRF
  <2>2. w' = Response(403, 403, "none", ~dev, Nil, Nil)
    <3> DEFINE hsts == ~dev
    <3> HIDE DEF hsts
    <3>1. w = Response(0, 200, "none", hsts, Nil, Nil)
      BY <1>1 DEF Unanswered, NoResponse, Response, hsts
    <3>2. w' = Response(403, 403, "none", hsts, Nil, Nil)
      BY <2>1, <3>1, WriteHeaderOK
    <3> QED
      BY <3>2 DEF hsts
  <2>3. w'.sent = 403 /\ w'.status = 403 /\ w'.cache = "none" /\ w'.hsts = ~dev
        /\ w'.handler = Nil /\ w'.err = Nil
    BY <2>2 DEF Response
  <2>4. ~IsHealthCheckRequest(req) /\ Nil \notin NoteService
    BY <1>3, NilAssumption DEF IsHealthCheckRequest
  <2>5. Answered'
    BY <1>0, <1>c, <1>c, <1>1, <2>1, <2>3, <2>4, PassedOn, NilAssumption DEF Answered, TruthKept, CacheKept
  <2>6. PassageInv'
    BY <1>0, <1>c, <1>c, <1>1, <2>1, <2>5, PassedOn DEF PassageInv
  <2> QED
    BY <1>0, <1>c, <1>c, <1>1, <2>1, <2>6, PassedOn DEF Inv
<1>4. ASSUME ~(req.cross /\ req.method = "POST") PROVE Inv'
  <2>1. req' = Moved(req, "mux", req.charged) /\ w' = w
    BY <1>2, <1>4 DEF CSRF
  <2>2. ~req.cross \/ req.method = "GET"
    BY <1>1, <1>4 DEF Request
  <2>3. PassageInv'
    BY <1>0, <1>c, <1>c, <1>1, <2>1, <2>2, PassedOn DEF PassageInv, Unanswered
  <2> QED
    BY <1>0, <1>c, <1>c, <1>1, <2>1, <2>3, PassedOn DEF Inv
<1> QED
  BY <1>3, <1>4

\* A handler answers what the limiter and CSRFMiddleware let pass.
LEMMA HandleInv == ASSUME Inv, Handle PROVE Inv'
<1>0. PassageInv /\ req.at = "mux" /\ UNCHANGED <<config, broken, ctx, log>>
  BY DEF Inv, Handle
<1>c. "answered" \in Places
  BY DEF Places
<1>1. /\ req \in Request /\ req.charged \in Charges /\ log = Nil
      /\ req.charged \in {Nil, ctx.key} /\ (Exempt(req) => req.charged = Nil)
      /\ (Exempt(req) \/ req.charged # Nil) /\ (~req.cross \/ req.method = "GET")
  <2>1. req # Idle
    BY <1>0 DEF Idle
  <2>2. req \in Request
    BY <2>1 DEF Inv, RequestInv
  <2> QED
    BY <1>0, <2>2 DEF Request, PassageInv, Unanswered
<1>2. req' = Moved(req, "answered", req.charged)
  BY <1>1 DEF Handle, Moved, Request
<1>3. Mux(req.method, req.path) \in NoteService => ~Exempt(req) /\ ~req.cross
  <2>1. req.method \in {"GET", "POST"} /\ req.path \in Paths
    BY <1>1 DEF Request
  <2>2. Mux(req.method, req.path) \in NoteService => req.method = "POST"
    BY <2>1, MuxOK
  <2> QED
    BY <1>1, <2>2 DEF Exempt, IsHealthCheckRequest, IsStaticAssetRequest
<1>4. /\ req'.at = "answered" /\ req'.charged = req.charged /\ ctx' = ctx /\ dev' = dev
      /\ req'.method = req.method /\ req'.path = req.path /\ req'.cross = req.cross
      /\ IsHealthCheckRequest(req') = IsHealthCheckRequest(req) /\ Exempt(req') = Exempt(req)
      /\ ctx.reason = Nil /\ ctx.key \in Keys /\ StartInv' /\ RequestInv'
      /\ (dev \/ IsHealthCheckRequest(req) \/ TrustedAs(ctx))'
  BY <1>0, <1>c, <1>1, <1>2, PassedOn
<1>5. Answered'
  <2>1. /\ w'.hsts = ~dev /\ w'.handler = Mux(req.method, req.path)
        /\ TruthKept(w') /\ CacheKept(w', req.path)
        /\ IsHealthCheckRequest(req) => w'.sent = 200
    BY <1>0, HandleOK
  <2>2. Mux(req'.method, req'.path) = Mux(req.method, req.path)
    BY <1>4
  <2>3. w'.handler \in NoteService => req'.charged # Nil /\ ~req'.cross
    BY <1>1, <1>3, <1>4, <2>1
  <2> QED
    BY <1>0, <1>1, <1>4, <2>1, <2>2, <2>3 DEF Answered, TruthKept, CacheKept
<1>6. PassageInv'
  BY <1>1, <1>4, <1>5 DEF PassageInv
<1> QED
  BY <1>4, <1>6 DEF Inv

\* The end of LoggingMiddleware.
LEMMA LogInv == ASSUME Inv, Log PROVE Inv'
<1>0. PassageInv /\ req.at = "answered" /\ UNCHANGED <<config, broken, ctx, w>>
  BY DEF Inv, Log
<1>c. "done" \in Places
  BY DEF Places
<1>1. /\ req \in Request /\ req.charged \in Charges /\ Answered
      /\ req.charged \in {Nil, ctx.key} /\ (Exempt(req) => req.charged = Nil)
  <2>1. req # Idle
    BY <1>0 DEF Idle
  <2>2. req \in Request
    BY <2>1 DEF Inv, RequestInv
  <2> QED
    BY <1>0, <2>2 DEF Request, PassageInv
<1>2. req' = Moved(req, "done", req.charged)
  BY <1>1 DEF Log, Moved, Request
<1>4. /\ req'.at = "done" /\ req'.charged = req.charged /\ ctx' = ctx /\ dev' = dev
      /\ req'.method = req.method /\ req'.path = req.path /\ req'.cross = req.cross
      /\ IsHealthCheckRequest(req') = IsHealthCheckRequest(req) /\ Exempt(req') = Exempt(req)
      /\ ctx.reason = Nil /\ ctx.key \in Keys /\ StartInv' /\ RequestInv'
      /\ (dev \/ IsHealthCheckRequest(req) \/ TrustedAs(ctx))'
  BY <1>0, <1>c, <1>1, <1>2, PassedOn
<1>5. Answered'
  <2>1. Mux(req'.method, req'.path) = Mux(req.method, req.path)
    BY <1>4
  <2> QED
    BY <1>0, <1>1, <1>4, <2>1 DEF Answered, TruthKept, CacheKept
<1>6. Logged'
  BY <1>0, <1>4 DEF Log, Logged, IsSuccessfulStaticRoute
<1>7. PassageInv'
  BY <1>1, <1>4, <1>5, <1>6 DEF PassageInv
<1> QED
  BY <1>4, <1>7 DEF Inv

\* Nothing of a request outlives it.
LEMMA FinishInv == ASSUME Inv, Finish PROVE Inv'
<1>1. StartInv'
  BY ProcessKept DEF Inv, Finish
<1>2. req' = Idle /\ req'.at = "idle" /\ ctx' = NoContext /\ w' = NoResponse /\ log' = Nil
  BY DEF Finish, Idle
<1>3. RequestInv'
  BY <1>2 DEF RequestInv
<1>4. PassageInv'
  BY <1>2 DEF PassageInv
<1> QED
  BY <1>1, <1>3, <1>4 DEF Inv

\* Every step keeps the invariant.
LEMMA NextInv == Inv /\ [Next]_vars => Inv'
<1> SUFFICES ASSUME Inv, [Next]_vars PROVE Inv'
  OBVIOUS
<1>1. CASE Next
  BY <1>1, ProcessInv, NetworkInv, ArriveInv, RateLimitInv, CSRFInv, HandleInv, LogInv,
     FinishInv DEF Next
<1>2. CASE UNCHANGED vars
  <2>1. UNCHANGED <<phase, dev, process, file, env, cfg, broken, req, ctx, w, log>>
    BY <1>2 DEF vars, config
  <2>2. StartInv'
    BY <1>2, ProcessKept DEF vars, Inv
  <2>3. RequestInv'
    BY <2>1 DEF Inv, RequestInv
  <2>4. PassageInv'
    BY <2>1 DEF Inv, PassageInv, Unanswered, Answered, TruthKept, CacheKept, Logged,
                IsSuccessfulStaticRoute, TrustedAs, HealthFrom, Strangers,
                LastHop, Proxied
  <2> QED
    BY <2>2, <2>3, <2>4 DEF Inv
<1> QED
  BY <1>1, <1>2

\* The invariant holds in every state the server reaches.
LEMMA Invariance == Spec => []Inv
  BY InitInv, NextInv, PTL DEF Spec

-----------------------------------------------------------------------------
(* Theorems *)

\* Development mode runs exactly when --dev was given, and without the flag the
\* .env file has no influence (loadDevelopmentEnv, NewConfigWithOptions),
\* whatever the two environments say.
THEOREM DevelopmentExplicit == Spec => []DevelopmentIsExplicit
<1>1. Inv => DevelopmentIsExplicit
  <2> SUFFICES ASSUME Inv, Running
               PROVE  cfg.isDevelopment = dev /\ (~dev => cfg = NewConfig(process, FALSE))
    BY DEF DevelopmentIsExplicit
  <2>1. phase \in {"parsed", "serving", "aborted"}
    BY DEF Inv, StartInv, Running
  <2>2. cfg = NewConfig(env, dev) /\ cfg # Error /\ dev \in BOOLEAN /\ (~dev => env = process)
    BY <2>1 DEF Inv, StartInv
  <2> QED
    BY <2>2, ConfigOK
<1> QED
  BY <1>1, Invariance, PTL

\* A size the program runs with is the number of bytes that was written, within
\* its limits, and no size within the limits is refused (parseByteSize), for
\* every machine word and every number.
THEOREM SizesRight == Spec => []SizesAsWritten
<1>1. Inv => SizesAsWritten
  <2> SUFFICES ASSUME Inv PROVE SizesAsWritten
    OBVIOUS
  <2> DEFINE note == env.maxNoteSize
             db == env.maxDBSize
             noteSizes == 1..(10 * Kibi * Kibi)
             dbSizes == (Kibi * Kibi)..(10 * Kibi * Kibi * Kibi)
             v == ParseOptionalByteSize(note, MaxNoteSizeRange)
             x == ParseOptionalByteSize(db, MaxDBSizeRange)
  <2>1. dev \in BOOLEAN /\ note \in Size \cup {Nil} /\ db \in Size \cup {Nil}
    BY DEF Inv, StartInv, EnvironmentOK
  <2>2. \/ v \in noteSizes /\ v = Meaning(note, Kibi)
        \/ v = Error /\ Illegal(note, noteSizes)
    BY <2>1, SizeRangesOK, ByteSizeOK
  <2>3. \/ x \in dbSizes /\ x = Meaning(db, Kibi * Kibi * Kibi)
        \/ x = Error /\ Illegal(db, dbSizes)
    BY <2>1, SizeRangesOK, ByteSizeOK
  <2>4. Running => /\ cfg.maxNoteSize = v /\ v # Error
                   /\ cfg.maxDBSize = x /\ x # Error
    <3> SUFFICES ASSUME Running
                 PROVE  cfg.maxNoteSize = v /\ v # Error /\ cfg.maxDBSize = x /\ x # Error
      OBVIOUS
    <3>1. phase \in {"parsed", "serving", "aborted"}
      BY DEF Inv, StartInv, Running
    <3>2. cfg = NewConfig(env, dev) /\ cfg # Error
      BY <3>1 DEF Inv, StartInv
    <3> QED
      BY <2>1, <3>2, ConfigOK
  <2>5. phase = "failed" /\ ~dev
        /\ env = [BlankEnvironment EXCEPT !.maxNoteSize = note, !.maxDBSize = db]
        => v = Error \/ x = Error
    <3> SUFFICES ASSUME phase = "failed", ~dev,
                        env = [BlankEnvironment EXCEPT !.maxNoteSize = note, !.maxDBSize = db]
                 PROVE  v = Error \/ x = Error
      OBVIOUS
    <3>1. dev = FALSE /\ NewConfig(env, FALSE) = Error
      BY <2>1 DEF Inv, StartInv
    <3> QED
      BY <2>1, <3>1, OnlySizesRefused
  <2> HIDE DEF v, x, noteSizes, dbSizes
  <2>6. Running => /\ cfg.maxNoteSize = Meaning(note, Kibi)
                   /\ cfg.maxDBSize = Meaning(db, Kibi * Kibi * Kibi)
                   /\ cfg.maxNoteSize \in noteSizes /\ cfg.maxDBSize \in dbSizes
    BY <2>2, <2>3, <2>4
  <2>7. phase = "failed" /\ ~dev
        /\ env = [BlankEnvironment EXCEPT !.maxNoteSize = note, !.maxDBSize = db]
        => Illegal(note, noteSizes) \/ Illegal(db, dbSizes)
    <3>1. \A S : ~(Error \in S /\ S \subseteq Int)
      BY ErrorAssumption
    <3>2. noteSizes \subseteq Int /\ dbSizes \subseteq Int
      BY UnitsAssumption DEF noteSizes, dbSizes
    <3>3. (v = Error => Illegal(note, noteSizes)) /\ (x = Error => Illegal(db, dbSizes))
      BY <2>2, <2>3, <3>1, <3>2
    <3> QED
      BY <2>5, <3>3
  <2> QED
    BY <2>6, <2>7 DEF SizesAsWritten, Illegal, noteSizes, dbSizes
<1> QED
  BY <1>1, Invariance, PTL

\* Of the links that are configured, five at most are shown, and one is left out
\* only after an empty pair (parseLegalLinks), in every environment and with
\* every .env file.
THEOREM LinksAreShown == Spec => []LinksShown
<1>1. Inv => LinksShown
  <2> SUFFICES ASSUME Inv, Running
               PROVE  /\ Len(cfg.legalLinks) =< 5
                      /\ \A i \in DOMAIN env.links :
                            LET shown == i \in DOMAIN cfg.legalLinks IN
                            /\ shown => cfg.legalLinks[i] = env.links[i]
                            /\ shown => env.links[i].title # Nil /\ env.links[i].url # Nil
                            /\ ~shown /\ LinkSet(env.links[i]) =>
                                  \E j \in 1..(i - 1) : ~LinkSet(env.links[j])
    BY DEF LinksShown
  <2> DEFINE links == env.links
             n == LinkStop(links) - 1
             legal == cfg.legalLinks
  <2>1. legal = ParseLegalLinks(links) /\ legal # Error
        /\ links = [i \in 1..(MaxConfiguredLinks + 1) |-> links[i]]
    <3>1. phase \in {"parsed", "serving", "aborted"}
      BY DEF Inv, StartInv, Running
    <3>2. cfg = NewConfig(env, dev) /\ cfg # Error /\ dev \in BOOLEAN /\ EnvironmentOK
      BY <3>1 DEF Inv, StartInv
    <3> QED
      BY <3>2, ConfigOK DEF EnvironmentOK
  <2>2. DOMAIN links = 1..6
    BY <2>1 DEF MaxConfiguredLinks
  <2> HIDE DEF links, legal
  <2>3. /\ n \in 0..5 /\ (n = 5 \/ ~LinkSet(links[n + 1]))
    <3>1. LinkStop(links) \in 1..6 /\ (LinkStop(links) = 6 \/ ~LinkSet(links[LinkStop(links)]))
      BY LinkStopOK
    <3> QED
      BY <3>1
  <2>4. /\ Len(legal) = n /\ DOMAIN legal = 1..n
        /\ \A i \in 1..n : legal[i] = links[i] /\ links[i].title # Nil /\ links[i].url # Nil
        /\ n = 5 => ~LinkSet(links[6])
    BY <2>1, LegalLinksOK
  <2> HIDE DEF n
  <2>5. ASSUME NEW i \in 1..6, i \notin 1..n, LinkSet(links[i])
        PROVE  \E j \in 1..(i - 1) : ~LinkSet(links[j])
    <3>1. ~LinkSet(links[n + 1])
      BY <2>3, <2>4
    <3>2. n + 1 \in 1..(i - 1)
      BY <2>3, <2>5, <3>1
    <3> QED
      BY <3>1, <3>2
  <2> QED
    BY <2>2, <2>3, <2>4, <2>5 DEF links, legal
<1> QED
  BY <1>1, Invariance, PTL

\* In production the limiter charges the nearest sender that is not a trusted
\* proxy (forwardedClientIP, clientKey), for every chain of proxies and whatever
\* the client wrote into the forwarding headers.
THEOREM SenderCharged == Spec => []SenderPays
<1>1. Inv => SenderPays
  <2> SUFFICES ASSUME Inv, InProduction, req.charged # Nil, Strangers # {}
               PROVE  req.charged = ClientKey(req.route[Rightmost(Strangers)])
    BY DEF SenderPays, ClientKey
  <2>1. req # Idle /\ ~dev
    BY DEF InProduction, Idle
  <2>2. req.at \in Places
    BY <2>1 DEF Inv, RequestInv, Request
  <2>3. PassageInv
    BY DEF Inv
  <2>4. req.at \in {"csrf", "mux", "answered", "done"}
    BY <2>2, <2>3 DEF PassageInv, Places
  <2>5. ctx.reason = Nil
    BY <2>3, <2>4 DEF PassageInv
  <2>6. ~IsHealthCheckRequest(req) /\ req.charged = ctx.key
    BY <2>3, <2>4 DEF PassageInv, Exempt
  <2>7. TrustedAs(ctx)
    BY <2>1, <2>3, <2>4, <2>5, <2>6 DEF PassageInv
  <2> QED
    BY <2>6, <2>7 DEF TrustedAs
<1> QED
  BY <1>1, Invariance, PTL

\* A request that is done was rejected by TrustedProxyMiddleware or answered.
LEMMA DoneOK ==
    ASSUME Inv, Done
    PROVE  /\ dev \in BOOLEAN
           /\ \/ /\ ctx.reason = Nil /\ Answered /\ Logged
                 /\ dev \/ IsHealthCheckRequest(req) \/ TrustedAs(ctx)
              \/ /\ ctx.reason # Nil /\ w.sent = 400 /\ w.cache = "no-store" /\ ~w.hsts
                 /\ w.handler = Nil /\ w.err = Nil /\ log = Nil /\ ~(IsHealthCheckRequest(req) /\ HealthFrom)
           /\ Exempt(req) => req.charged = Nil
<1>1. PassageInv /\ req.at = "done" /\ dev \in BOOLEAN
  BY DEF Inv, Done, StartInv
<1>2. CASE ctx.reason = Nil
  BY <1>1, <1>2 DEF PassageInv
<1>3. CASE ctx.reason # Nil
  <2>1. w = WriteErrorResponse(NoResponse, 400) /\ log = Nil
        /\ ~(IsHealthCheckRequest(req) /\ HealthFrom)
    BY <1>1, <1>3 DEF PassageInv
  <2> DEFINE hsts == FALSE
  <2>2. NoResponse = Response(0, 200, "none", hsts, Nil, Nil)
    BY DEF NoResponse, Response
  <2> HIDE DEF hsts
  <2>3. w = Response(400, 400, "no-store", hsts, Nil, Nil)
    BY <2>1, <2>2, WriteHeaderOK DEF WriteErrorResponse, WriteJSON
  <2>4. w.sent = 400 /\ w.cache = "no-store" /\ ~w.hsts /\ w.handler = Nil /\ w.err = Nil
    BY <2>3 DEF Response, hsts
  <2> QED
    BY <1>1, <1>3, <2>1, <2>4 DEF PassageInv
<1> QED
  BY <1>2, <1>3

\* The note service is reached only by requests that the limiter has charged and
\* that are not cross-origin, in production only through a trusted proxy and
\* over TLS (TrustedProxyMiddleware, RateLimitMiddleware, CSRFMiddleware).
THEOREM ServiceIsGuarded == Spec => []ServiceGuarded
<1>1. Inv => ServiceGuarded
  <2> SUFFICES ASSUME Inv, Done
               PROVE  /\ w.handler \in NoteService => req.charged # Nil /\ ~req.cross
                      /\ InProduction /\ w.handler \notin {Nil, "healthz"} =>
                            /\ PrefixContains(cfg.trustedProxies, LastHop)
                            /\ Proxied => req.tls
                      /\ w.hsts => \/ IsHealthCheckRequest(req)
                                   \/ ~dev /\ (Proxied => req.tls)
    BY DEF ServiceGuarded
  <2>1. CASE ctx.reason = Nil /\ Answered /\ (dev \/ IsHealthCheckRequest(req) \/ TrustedAs(ctx))
    <3>1. w.handler \in {Nil, Mux(req.method, req.path)} /\ (w.hsts <=> ~dev)
      BY <2>1, DoneOK DEF Answered
    <3>2. IsHealthCheckRequest(req) => w.handler \in {Nil, "healthz"}
      <4>1. req # Idle
        BY DEF Done, Idle
      <4>2. req.method \in {"GET", "POST"} /\ req.path \in Paths
        BY <4>1 DEF Inv, RequestInv, Request
      <4> QED
        BY <3>1, <4>2, MuxOK DEF IsHealthCheckRequest
    <3> QED
      BY <2>1, <3>1, <3>2 DEF Answered, TrustedAs, InProduction
  <2>2. CASE w.handler = Nil /\ ~w.hsts
    BY <2>2, NilAssumption
  <2> QED
    BY <2>1, <2>2, DoneOK
<1> QED
  BY <1>1, Invariance, PTL

\* No note, ticket, page or error is stored by a cache (writeJSON,
\* writeErrorResponse, the views), and of what the file server answers under the
\* header that HandleStaticAssets sets beforehand, redirects included, no error
\* may be kept for ever.
THEOREM NothingCached == Spec => []NothingPrivateCached
<1>1. Inv => NothingPrivateCached
  <2> SUFFICES ASSUME Inv, Done PROVE CacheKept(w, req.path)
    BY DEF NothingPrivateCached, CacheKept
  <2>1. CASE Answered
    BY <2>1 DEF Answered
  <2>2. CASE w.cache = "no-store"
    BY <2>2 DEF CacheKept
  <2> QED
    BY <2>1, <2>2, DoneOK
<1> QED
  BY <1>1, Invariance, PTL

\* Every request is answered, with the status that is logged except for a page
\* that fails after its 404; every failure of a template, parsed or executed, and
\* of the service is logged as a 500 (loggingResponseWriter, View, execute,
\* internalServerError, writeInternalJSONError, LoggingMiddleware).
THEOREM LogTrue == Spec => []LoggedAsSent
<1>1. Inv => LoggedAsSent
  <2> SUFFICES ASSUME Inv, Done PROVE LoggedAsSent
    BY DEF LoggedAsSent
  <2>1. CASE ctx.reason = Nil /\ Answered /\ Logged
    <3>1. /\ TruthKept(w)
          /\ w.handler = Mux(req.method, req.path) \/ (w.handler = Nil /\ w.sent \in {403, 429})
      BY <2>1 DEF Answered
    <3>2. CASE IsSuccessfulStaticRoute(req, w.status)
      <4>1. log = Nil /\ w.status < 400
        BY <2>1, <3>2 DEF Logged, IsSuccessfulStaticRoute
      <4>2. w.status = w.sent /\ w.sent < 400
        BY <3>1, <4>1 DEF TruthKept
      <4>3. w.handler \in {"HandleStaticAssets", "Redirect"}
        <5>1. req # Idle
          BY DEF Done, Idle
        <5>2. req.method \in {"GET", "POST"} /\ req.path \in Paths
          BY <5>1 DEF Inv, RequestInv, Request
        <5> QED
          BY <3>1, <3>2, <4>2, <5>2, MuxOK DEF IsSuccessfulStaticRoute
      <4> QED
        BY <2>1, <3>1, <4>1, <4>2, <4>3, NilAssumption DEF LoggedAsSent, TruthKept
    <3>3. CASE ~IsSuccessfulStaticRoute(req, w.status)
      <4>1. log = w.status
        BY <2>1, <3>3 DEF Logged
      <4>2. log # Nil
        BY <3>1, <4>1, NilAssumption DEF TruthKept
      <4> QED
        BY <3>1, <4>1, <4>2 DEF LoggedAsSent, TruthKept
    <3> QED
      BY <3>2, <3>3
  <2>2. CASE ctx.reason # Nil /\ w.sent = 400 /\ w.err = Nil /\ log = Nil
    BY <2>2, NilAssumption DEF LoggedAsSent
  <2> QED
    BY <2>1, <2>2, DoneOK
<1> QED
  BY <1>1, Invariance, PTL

\* A health check from the host itself or from a trusted proxy is answered and
\* never charged (TrustedProxyMiddleware, RateLimitMiddleware).
THEOREM HealthChecked == Spec => []HealthAnswered
<1>1. Inv => HealthAnswered
  <2> SUFFICES ASSUME Inv, Done, IsHealthCheckRequest(req), HealthFrom
               PROVE  w.sent = 200 /\ req.charged = Nil
    BY DEF HealthAnswered, HealthFrom
  <2> QED
    BY DoneOK DEF Answered, Exempt
<1> QED
  BY <1>1, Invariance, PTL

\* The links of a page lead back to the host its browser asked for, by https
\* and to the configured origin (forwardedPublicOrigin, TrustedProxyMiddleware).
THEOREM LinksReturn == Spec => []LinksLeadBack
<1>1. Inv => LinksLeadBack
  <2> SUFFICES ASSUME Inv, Done, ~dev, Proxied, w.handler = "HandleCreateNoteView"
               PROVE  /\ ctx.origin = [scheme |-> "https", host |-> req.wanted]
                      /\ env.publicOrigin # Nil => ctx.origin.host = env.publicOrigin.host
    BY DEF LinksLeadBack
  <2>1. w.handler # Nil
    BY NilAssumption
  <2>2. Answered /\ (IsHealthCheckRequest(req) \/ TrustedAs(ctx))
    BY <2>1, DoneOK
  <2>3. ~IsHealthCheckRequest(req)
    <3>1. req # Idle
      BY DEF Done, Idle
    <3>2. req.method \in {"GET", "POST"} /\ req.path \in Paths
      BY <3>1 DEF Inv, RequestInv, Request
    <3>3. w.handler = Mux(req.method, req.path)
      BY <2>1, <2>2 DEF Answered
    <3>4. Mux(req.method, req.path) # "healthz"
      BY <3>3
    <3> QED
      BY <3>2, <3>4, MuxOK DEF IsHealthCheckRequest
  <2> QED
    BY <2>2, <2>3 DEF TrustedAs
<1> QED
  BY <1>1, Invariance, PTL
=============================================================================
