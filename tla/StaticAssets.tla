---------------------------- MODULE StaticAssets ----------------------------
(***************************************************************************)
(* The static files of a page across deployments (static_assets.go, and    *)
(* Views.AssetPath of views.go).  A page names its scripts and styles by   *)
(* the version of the server that rendered it; the browser may keep them   *)
(* for ever, while the server is replaced by newer and older builds.  The  *)
(* builds are embedded in the program: this is production.                 *)
(***************************************************************************)
EXTENDS Naturals, Sequences, SequencesExt

CONSTANTS
    Nil,            \* no such file, nothing cached, nothing loaded
    Missing,        \* an answer 404
    Names,          \* the file names in the order of fs.WalkDir, as bytes
    Builds,         \* what the files contain, build by build, as bytes
    MaxDeploys      \* bound on the number of restarts

Files == DOMAIN Names

\* A file has one name, and one content in each build that has it.  The files
\* are text: they have no zero byte, which ends names and contents.
Text == Seq(Nat \ {0})

ASSUME TextAssumption ==
    /\ Names \in Seq(Text) /\ \A f, g \in Files : Names[f] = Names[g] => f = g
    /\ Builds \subseteq [Files -> {Nil} \cup Text]

VARIABLES
    server,         \* the build that runs
    version,        \* its AssetVersion
    page,           \* the page in the browser: its build (history) and version
    loaded,         \* what the page has for each file
    cache,          \* what the browser keeps, a set of [version, file, body]
    deploys

vars == <<server, version, page, loaded, cache, deploys>>

-----------------------------------------------------------------------------
\* Mutant: nothing between a name and its content.
HashInputUnseparated(build) ==
    FlattenSeq([f \in Files |-> IF build[f] = Nil THEN <<>> ELSE Names[f] \o build[f]])

\* What NewAssetVersion hashes; the hash is taken to be one-to-one.
HashInput(build) ==
    FlattenSeq([f \in Files |-> IF build[f] = Nil THEN <<>>
                                ELSE Names[f] \o <<0>> \o build[f] \o <<0>>])

\* Mutant: the header is set before the version is compared.
HandleStaticAssetsEagerHeader(v, f) ==
    [body |-> IF v # version \/ server[f] = Nil THEN Missing ELSE server[f],
     immutable |-> TRUE]

\* HandleStaticAssets: only the current version, and the header that lets the
\* browser keep the file only for a file that exists.
HandleStaticAssets(v, f) ==
    IF v # version \/ server[f] = Nil THEN [body |-> Missing, immutable |-> FALSE]
    ELSE [body |-> server[f], immutable |-> TRUE]

Cached(v, f) == {e \in cache : e.version = v /\ e.file = f}

Init ==
    /\ server \in Builds /\ version = HashInput(server)
    /\ page = Nil /\ loaded = [f \in Files |-> Nil] /\ cache = {} /\ deploys = 0

\* The process is replaced by one with other files, newer or older.
Deploy ==
    /\ deploys < MaxDeploys /\ deploys' = deploys + 1
    /\ server' \in Builds \ {server} /\ version' = HashInput(server')
    /\ UNCHANGED <<page, loaded, cache>>

\* The browser gets a page, which is never cached: AssetPath puts the version
\* into every URL.
LoadPage ==
    /\ page' = [build |-> server, version |-> version]
    /\ loaded' = [f \in Files |-> Nil]
    /\ UNCHANGED <<server, version, cache, deploys>>

\* The page asks for a file that is in its build.
Fetch(f) ==
    /\ page # Nil /\ page.build[f] # Nil /\ loaded[f] = Nil
    /\ \/ \E e \in Cached(page.version, f) :
             loaded' = [loaded EXCEPT ![f] = e.body] /\ cache' = cache
       \/ /\ Cached(page.version, f) = {}
          /\ LET answer == HandleStaticAssets(page.version, f) IN
             /\ loaded' = [loaded EXCEPT ![f] = answer.body]
             /\ cache' = IF answer.immutable
                         THEN cache \cup {[version |-> page.version, file |-> f,
                                           body |-> answer.body]}
                         ELSE cache
    /\ UNCHANGED <<server, version, page, deploys>>

\* The browser drops what it has kept.
Evict == cache # {} /\ cache' = {} /\ UNCHANGED <<server, version, page, loaded, deploys>>

Next == Deploy \/ LoadPage \/ Evict \/ \E f \in Files : Fetch(f)

Spec == Init /\ [][Next]_vars

-----------------------------------------------------------------------------
(* Properties *)

\* A page never runs with files of another build: each file it has is the one
\* of the build that rendered it, however builds and cached files alternate.
PageOfOneBuild ==
    \A f \in Files : loaded[f] \in {Nil, Missing} \/ loaded[f] = page.build[f]

\* A page of the build that runs gets all its files: no failure of an earlier
\* deployment is kept in the browser.
CurrentPageComplete ==
    [][\A f \in Files : Fetch(f) /\ page.build = server => loaded'[f] = server[f]]_vars
=============================================================================
