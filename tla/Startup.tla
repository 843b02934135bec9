------------------------------- MODULE Startup -------------------------------
(***************************************************************************)
(* The start of the process up to its configuration: main reads the flag   *)
(* and, in development, the .env file; run parses the environment.         *)
(***************************************************************************)
EXTENDS Config

CONSTANTS
    Processes,      \* the environments the process is started in
    Files           \* the contents of .env: environments, or Junk

\* A size as it is written: a number, or none, before a unit.
Size == [amount : Int \cup {Junk}, unit : STRING]

\* Every variable is there to be read, and one pair of links more than is shown.
ASSUME EnvironmentAssumption ==
    /\ Error \notin Processes
    /\ \A e \in Processes \cup (Files \ {Junk}) :
          /\ DOMAIN e = DOMAIN BlankEnvironment
          /\ {e.maxNoteSize, e.maxDBSize} \subseteq Size \cup {Nil}
          /\ e.links = [i \in 1..(MaxConfiguredLinks + 1) |-> e.links[i]]

\* Nil is no origin.
ASSUME OriginAssumption ==
    \A e \in Processes : e.publicOrigin \notin {Nil, Junk} =>
        Nil # [scheme |-> e.publicOrigin.scheme, host |-> e.publicOrigin.host]

VARIABLES
    phase,          \* how far run() has come
    dev,            \* the --dev flag
    process, file,  \* the operator's environment and .env
    env,            \* getenv
    cfg             \* the Config, or Error

config == <<phase, dev, process, file, env, cfg>>

StartupInit ==
    /\ phase = "stopped" /\ dev \in BOOLEAN
    /\ process \in Processes /\ file \in Files
    /\ env = BlankEnvironment /\ cfg = Nil

\* main: os.Getenv, or with --dev what loadDevelopmentEnv returns.
LoadEnv ==
    /\ phase = "stopped"
    /\ LET loaded == IF dev THEN LoadDevelopmentEnv(process, file) ELSE process
       IN IF loaded = Error
          THEN phase' = "failed" /\ env' = env /\ cfg' = Error
          ELSE phase' = "loaded" /\ env' = loaded /\ cfg' = cfg
    /\ UNCHANGED <<dev, process, file>>

\* run: NewConfigWithOptions, before anything is opened.
ParseConfig ==
    /\ phase = "loaded"
    /\ cfg' = NewConfig(env, dev)
    /\ phase' = IF cfg' = Error THEN "failed" ELSE "parsed"
    /\ UNCHANGED <<dev, process, file, env>>

Start == LoadEnv \/ ParseConfig

-----------------------------------------------------------------------------
(* Properties *)

Running == cfg \notin {Nil, Error}

\* What the operator means by a size: a number of units, without any limit.
Meaning(raw, default) ==
    IF raw = Nil THEN default ELSE raw.amount * Multiplier[raw.unit]

\* A size the program runs with is the number of bytes that was written and
\* lies within its limits, although the product is computed in a machine word
\* (parseByteSize) and the suffixes contain one another; and no size within the
\* limits is refused, in whichever unit it is written: with nothing else set,
\* only an unreadable or an illegal size stops the program.
SizesAsWritten ==
    LET noteSizes == 1..(10 * Kibi * Kibi)
        dbSizes   == (Kibi * Kibi)..(10 * Kibi * Kibi * Kibi)
        Illegal(raw, legal) ==
            /\ raw # Nil
            /\ \/ raw.amount = Junk \/ raw.unit \notin DOMAIN Multiplier
               \/ Meaning(raw, 0) \notin legal
    IN  /\ Running =>
              /\ cfg.maxNoteSize = Meaning(env.maxNoteSize, Kibi)
              /\ cfg.maxDBSize = Meaning(env.maxDBSize, Kibi * Kibi * Kibi)
              /\ cfg.maxNoteSize \in noteSizes /\ cfg.maxDBSize \in dbSizes
        /\ phase = "failed" /\ ~dev
           /\ env = [BlankEnvironment EXCEPT !.maxNoteSize = env.maxNoteSize,
                                             !.maxDBSize = env.maxDBSize]
           => Illegal(env.maxNoteSize, noteSizes) \/ Illegal(env.maxDBSize, dbSizes)

\* Five complete links at most are shown, in order, from the first on, and one
\* is left out only if there is an empty pair before it (parseLegalLinks): a
\* half-configured or surplus link stops the program instead.
LinksShown ==
    Running =>
        /\ Len(cfg.legalLinks) =< 5
        /\ \A i \in DOMAIN env.links :
              LET shown == i \in DOMAIN cfg.legalLinks IN
              /\ shown => cfg.legalLinks[i] = env.links[i]
              /\ shown => env.links[i].title # Nil /\ env.links[i].url # Nil
              /\ ~shown /\ LinkSet(env.links[i]) => \E j \in 1..(i - 1) : ~LinkSet(env.links[j])

\* Development mode runs exactly when --dev was given, and without the flag
\* the .env file has no influence, whatever both environments say.
DevelopmentIsExplicit ==
    Running => /\ cfg.isDevelopment = dev
               /\ ~dev => cfg = NewConfig(process, FALSE)
=============================================================================
