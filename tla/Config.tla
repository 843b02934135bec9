------------------------------- MODULE Config -------------------------------
(***************************************************************************)
(* The configuration (config.go, loadDevelopmentEnv of main.go) as         *)
(* operators on the environment variables.  A variable is Nil when it is   *)
(* unset or empty, Junk when the standard library's parser refuses it, and *)
(* otherwise what that parser makes of it; Error is an error return.       *)
(*                                                                         *)
(* The units are parameters, so that TLC works with a small machine word   *)
(* in which sizes overflow as they do in an int64.                         *)
(***************************************************************************)
EXTENDS Integers, Sequences

CONSTANTS
    Nil, Junk, Error,
    MaxInt,                 \* math.MaxInt64
    Kilo, Kibi,             \* 1000 and 1024
    Second,                 \* time.Second
    DefaultTrustedProxies,  \* defaultTrustedProxyPrefixes, a set of prefixes
    LoopbackPrefixes        \* loopbackPrefixes

Minute == 60 * Second
Hour   == 60 * Minute

ASSUME UnitsAssumption ==
    /\ Kilo \in Nat \ {0} /\ Kibi \in Nat \ {0} /\ Second \in Nat \ {0}
    /\ MaxInt \in Nat /\ 10 * Kibi * Kibi * Kibi =< MaxInt

MaxConfiguredLinks == 5

\* The range and the default of a setting.
GracePeriodRange     == [min |-> 0, max |-> Minute, default |-> 3 * Second]
CleanupIntervalRange == [min |-> Minute, max |-> 24 * Hour, default |-> Hour]
MaxNoteSizeRange     == [min |-> 1, max |-> 10 * Kibi * Kibi, default |-> Kibi]
MaxDBSizeRange       == [min |-> Kibi * Kibi, max |-> 10 * Kibi * Kibi * Kibi,
                         default |-> Kibi * Kibi * Kibi]
DefaultRate          == [requests |-> 60, window |-> Minute, burst |-> 120]

\* Junk is no number.  Error is no value of a setting, and no configuration in
\* which only the sizes are set.
ASSUME ErrorAssumption ==
    /\ Junk \notin Int /\ Error \notin Int /\ Error \notin BOOLEAN
    /\ Error # Nil /\ Error # <<>> /\ Error # DefaultRate
    /\ Error \notin {DefaultTrustedProxies, LoopbackPrefixes \cup DefaultTrustedProxies}
    /\ Error \notin [isDevelopment : BOOLEAN, showGitHubLink : BOOLEAN, legalLinks : {<<>>},
                     gracePeriod : Int, cleanupInterval : Int, maxNoteSize : Int,
                     maxDBSize : Int, publicOrigin : {Nil},
                     trustedProxies : {DefaultTrustedProxies},
                     healthCheckSources : {LoopbackPrefixes \cup DefaultTrustedProxies},
                     rateLimit : {DefaultRate}]

-----------------------------------------------------------------------------
(* Settings of one variable *)

InRange(value, range) ==
    IF value # Error /\ range.min =< value /\ value =< range.max THEN value ELSE Error

ParseOptionalBool(raw, default) ==
    IF raw = Nil THEN default ELSE IF raw = Junk THEN Error ELSE raw

ParseOptionalDuration(raw, range) ==
    IF raw = Nil THEN range.default
    ELSE IF raw = Junk THEN Error ELSE InRange(raw, range)

\* What a product of two int64 is: the low bits, two's complement.
Wrap(n) ==
    LET low == n % (2 * (MaxInt + 1))
    IN IF low > MaxInt THEN low - 2 * (MaxInt + 1) ELSE low

Multiplier == [gib |-> Kibi * Kibi * Kibi, gb |-> Kilo * Kilo * Kilo,
               mib |-> Kibi * Kibi, mb |-> Kilo * Kilo,
               kib |-> Kibi, kb |-> Kilo, b |-> 1, none |-> 1]

\* The order in which parseByteSize looks for a suffix.
SuffixTable == <<"gib", "gb", "mib", "mb", "kib", "kb", "b">>

\* The entries of the table that a text ends in: every unit has a final b.
EndsIn(unit) == IF unit = "none" THEN {} ELSE {unit, "b"}

\* The suffix that is cut off: the first of the table that fits.
Suffix(unit) ==
    LET hits == {i \in DOMAIN SuffixTable : SuffixTable[i] \in EndsIn(unit)}
    IN IF hits = {} THEN "none"
       ELSE SuffixTable[CHOOSE i \in hits : \A j \in hits : i =< j]

\* Mutant: the product is not kept from overflowing.
ParseByteSizeUnguarded(raw) ==
    IF Suffix(raw.unit) # raw.unit \/ raw.amount = Junk THEN Error
    ELSE IF raw.amount > MaxInt \/ raw.amount < 0 THEN Error
    ELSE Wrap(raw.amount * Multiplier[Suffix(raw.unit)])

\* A number, possibly missing or not a number (Junk), before a unit.  Letters
\* of the unit that remain after the cut make the number unreadable.
ParseByteSize(raw) ==
    IF Suffix(raw.unit) # raw.unit \/ raw.amount = Junk THEN Error
    ELSE IF \/ raw.amount > MaxInt \/ raw.amount < 0
            \/ raw.amount > MaxInt \div Multiplier[Suffix(raw.unit)] THEN Error
    ELSE Wrap(raw.amount * Multiplier[Suffix(raw.unit)])

ParseOptionalByteSize(raw, range) ==
    IF raw = Nil THEN range.default ELSE InRange(ParseByteSize(raw), range)

\* The rate is compared as a float64 in the code, as fractions here.
ValidRateSpec(s) ==
    /\ s.requests > 0 /\ s.burst > 0 /\ s.window > 0
    /\ s.requests * Minute >= s.window
    /\ s.requests * Minute =< 1000 * s.window
    /\ s.burst =< 5000

ParseOptionalRate(raw, default) ==
    IF raw = Nil THEN default
    ELSE IF raw = Junk THEN Error ELSE IF ValidRateSpec(raw) THEN raw ELSE Error

\* url.Parse gives the scheme, the host and whether there is anything else: a
\* user, a path, a query or a fragment.
ParsePublicOrigin(raw, isDevelopment) ==
    IF raw = Junk THEN Error
    ELSE IF raw.scheme = Nil \/ raw.host = Nil \/ raw.more THEN Error
    ELSE IF ~isDevelopment /\ raw.scheme # "https" THEN Error
    ELSE [scheme |-> raw.scheme, host |-> raw.host]

\* A list of addresses and networks; empty elements are skipped, so that the
\* list may be empty although the variable is set.
ParseOptionalPrefixes(raw) == IF raw = Junk THEN Error ELSE raw

-----------------------------------------------------------------------------
(* The links below the note dialog *)

LinkSet(link) == link.title # Nil \/ link.url # Nil

\* parseLegalLinkURL, which also refuses other schemes, "//host" and blanks.
ValidLinkURL(url) == url \in {"http", "https", "rooted"}

\* Where the loop of parseLegalLinks ends: at the first empty pair.
LinkStop(links) ==
    CHOOSE i \in 1..(MaxConfiguredLinks + 1) :
        /\ i = MaxConfiguredLinks + 1 \/ ~LinkSet(links[i])
        /\ \A j \in 1..(i - 1) : LinkSet(links[j])

\* Mutant: the link after the last is not looked at.
TooManyLinksNever(links) == FALSE

TooManyLinks(links) ==
    LinkStop(links) > MaxConfiguredLinks /\ LinkSet(links[MaxConfiguredLinks + 1])

ParseLegalLinks(links) ==
    IF \/ \E i \in 1..(LinkStop(links) - 1) :
             links[i].title = Nil \/ links[i].url = Nil \/ ~ValidLinkURL(links[i].url)
       \/ TooManyLinks(links)
    THEN Error ELSE SubSeq(links, 1, LinkStop(links) - 1)

-----------------------------------------------------------------------------
(* The whole configuration *)

Overlay(first, second) == IF first # Nil THEN first ELSE second

\* loadDevelopmentEnv: a variable of the process, else of the .env file, which
\* is blank when there is none; the environment is development by default.
LoadDevelopmentEnv(process, file) ==
    IF file = Junk THEN Error
    ELSE [k \in DOMAIN process |->
            IF k = "links"
            THEN [i \in DOMAIN process.links |->
                     [title |-> Overlay(process.links[i].title, file.links[i].title),
                      url   |-> Overlay(process.links[i].url, file.links[i].url)]]
            ELSE IF k = "environment"
            THEN Overlay(process[k], Overlay(file[k], "development"))
            ELSE Overlay(process[k], file[k])]

\* NOTE_ENVIRONMENT and --dev have to agree.
EnvironmentName(env, dev) ==
    IF env.environment # Nil THEN env.environment
    ELSE IF dev THEN "development" ELSE "production"

\* Mutant: the variable alone switches development mode on.
EnvironmentAgreesByName(env, dev) == EnvironmentName(env, dev) \in {"production", "development"}

EnvironmentAgrees(env, dev) ==
    /\ EnvironmentName(env, dev) \in {"production", "development"}
    /\ ~(dev /\ EnvironmentName(env, dev) = "production")
    /\ ~(~dev /\ EnvironmentName(env, dev) = "development")

PublicOrigin(env, isDevelopment) ==
    IF env.publicOrigin = Nil THEN Nil ELSE ParsePublicOrigin(env.publicOrigin, isDevelopment)

TrustedProxies(env, isDevelopment) ==
    IF env.trustedProxies # Nil THEN ParseOptionalPrefixes(env.trustedProxies)
    ELSE IF isDevelopment THEN {} ELSE DefaultTrustedProxies

\* Mutant: configured sources replace the others.
HealthCheckSourcesReplaced(env, isDevelopment, trustedProxies) ==
    IF env.healthCheckSources = Junk THEN Error
    ELSE IF env.healthCheckSources # Nil THEN env.healthCheckSources
    ELSE LoopbackPrefixes \cup (IF isDevelopment THEN {} ELSE trustedProxies)

HealthCheckSources(env, isDevelopment, trustedProxies) ==
    IF env.healthCheckSources = Junk THEN Error
    ELSE LoopbackPrefixes
         \cup (IF isDevelopment THEN {} ELSE trustedProxies)
         \cup (IF env.healthCheckSources = Nil THEN {} ELSE env.healthCheckSources)

\* NewConfigWithOptions
NewConfig(env, dev) ==
    LET isDevelopment == EnvironmentName(env, dev) = "development"
        hide    == ParseOptionalBool(env.hideGitHubLink, FALSE)
        links   == ParseLegalLinks(env.links)
        grace   == ParseOptionalDuration(env.gracePeriod, GracePeriodRange)
        cleanup == ParseOptionalDuration(env.cleanupInterval, CleanupIntervalRange)
        note    == ParseOptionalByteSize(env.maxNoteSize, MaxNoteSizeRange)
        size    == ParseOptionalByteSize(env.maxDBSize, MaxDBSizeRange)
        origin  == PublicOrigin(env, isDevelopment)
        proxies == TrustedProxies(env, isDevelopment)
        health  == HealthCheckSources(env, isDevelopment, proxies)
        rate    == ParseOptionalRate(env.rateLimit, DefaultRate)
    IN  IF \/ ~EnvironmentAgrees(env, dev)
           \/ hide = Error \/ links = Error \/ grace = Error \/ cleanup = Error
           \/ note = Error \/ size = Error \/ origin = Error \/ proxies = Error
           \/ health = Error \/ rate = Error
        THEN Error
        ELSE [isDevelopment |-> isDevelopment, showGitHubLink |-> ~hide,
              legalLinks |-> links, gracePeriod |-> grace, cleanupInterval |-> cleanup,
              maxNoteSize |-> note, maxDBSize |-> size, publicOrigin |-> origin,
              trustedProxies |-> proxies, healthCheckSources |-> health,
              rateLimit |-> rate]

\* An environment in which nothing is set.
BlankEnvironment ==
    [environment |-> Nil, hideGitHubLink |-> Nil, gracePeriod |-> Nil,
     cleanupInterval |-> Nil, maxNoteSize |-> Nil, maxDBSize |-> Nil,
     publicOrigin |-> Nil, trustedProxies |-> Nil, healthCheckSources |-> Nil,
     rateLimit |-> Nil,
     links |-> [i \in 1..(MaxConfiguredLinks + 1) |-> [title |-> Nil, url |-> Nil]]]
=============================================================================
