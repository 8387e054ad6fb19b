------------------------------- MODULE ScanSetup -------------------------------
(***************************************************************************)
(* What runScan does before it calls scan                                  *)
(* (packages/cli/src/commands/scan.ts): the workspace root is looked for,  *)
(* the config found and read, its plugins loaded into the registry, the    *)
(* workspace's managers detected, its Components resolved and its packages *)
(* read. Each part can refuse the command, with the exit code of its kind. *)
(* The workspace does not change while this runs, so the second search of  *)
(* detectComponents finds what the first did.                              *)
(***************************************************************************)
EXTENDS HintRules, WorkspaceManagers, ComponentIds, ComponentAttribution, Integrity

VARIABLES
    stage,       \* the part that is running, "ready" or "refused"
    climb,       \* the search for the root: directory, outermost marked one, first that failed
    components,  \* the Components handed to scan
    packages,    \* the packages handed to scan
    refusal      \* the part that refused and the error's code; one without a code is a runtime-error

setup == <<stage, climb, components, packages, refusal>>
setupVars == <<ws, detection, vars, setup>>

-----------------------------------------------------------------------------
\* The config as the registry takes it: none found is an empty one.
ConfigOf(w) ==
    [refs |-> w.refs, hints |-> [i \in DOMAIN w.hints |-> SynthesizeManifest(w.hints[i])]]

\* A command runs in a directory, which is the first of the chain to the top.
ASSUME WorkspacesAssumption ==
    \A w \in Workspaces :
        w.chain \in Seq([marker : STRING, fault : STRING, config : STRING]) /\ w.chain # <<>>

ASSUME ConfigsAssumption == {ConfigOf(w) : w \in Workspaces} \subseteq Configs

NotRefused == [part |-> "none", code |-> "none"]

SetupInit ==
    /\ ws \in Workspaces
    /\ config = ConfigOf(ws)
    /\ Unloaded
    /\ DetectionInit
    /\ stage = "root"
    /\ climb = [directory |-> 1, outermost |-> 0, failure |-> 0]
    /\ components = <<>>
    /\ packages = {}
    /\ refusal = NotRefused

Goes(next) == stage' = next /\ UNCHANGED refusal
Refuse(code) == stage' = "refused" /\ refusal' = [part |-> stage, code |-> code]

\* detectWorkspaceRoot probes a directory and the one above it, up to a repository's.
RepositoryReached(i) == ws.chain[i].marker = ".git" \/ i = Len(ws.chain)

\* Not the code: a probe that failed refuses the climb wherever it is.
Anywhere(failure, outermost) == failure # 0

\* A probe that failed counts only at or below the root.
Counts(failure, outermost) == failure # 0 /\ failure <= outermost

ClimbRoot ==
    /\ stage = "root"
    /\ LET i == climb.directory
           here == ws.chain[i]
           outermost == IF here.marker # "none" THEN i ELSE climb.outermost
           failure == IF climb.failure = 0 /\ here.fault # "none" THEN i ELSE climb.failure
           ended == RepositoryReached(i)
       IN  /\ climb' = [directory |-> IF ended THEN i ELSE i + 1,
                        outermost |-> outermost, failure |-> failure]
           /\ IF ended /\ Counts(failure, outermost)
              THEN Refuse(IF ws.chain[failure].fault = "malformed" THEN "config-error" ELSE "runtime-error")
              ELSE Goes(IF ended THEN "config" ELSE "root")
    /\ UNCHANGED <<ws, detection, vars, components, packages>>

\* resolveWorkspaceRoot: with no marker the directory the command runs in.
WorkspaceRoot == IF climb.outermost = 0 THEN 1 ELSE climb.outermost

\* findConfig: the nearest directory that has one, a repository's edge notwithstanding.
FindConfig ==
    /\ stage = "config"
    /\ LET having == {i \in DOMAIN ws.chain : ws.chain[i].config # "none"} IN
       IF having = {} THEN Goes("plugins")
       ELSE IF ws.chain[FirstOf(having)].config = "fault" THEN Refuse("runtime-error")
       ELSE Goes("load")
    /\ UNCHANGED <<ws, detection, vars, climb, components, packages>>

Twice(names) == \E i, j \in DOMAIN names : i # j /\ names[i] = names[j]

\* readConfigFile, parseConfig and frameworkHintPlugins.
LoadConfig ==
    /\ stage = "load"
    /\ LET refused ==
             \/ ws.text # "fine"      \* gone since it was found, malformed, a repeated key, off schema
             \/ Twice([i \in DOMAIN ws.declared |-> ws.declared[i].id])
             \/ Twice([i \in DOMAIN ws.hints |-> ws.hints[i].name])
             \/ \E h \in Range(ws.hints) : \E r \in Range(h.rules) : WritesReserved(r.extKind)
       IN  IF ws.text = "unreadable" THEN Refuse("runtime-error")
           ELSE IF refused THEN Refuse("config-error") ELSE Goes("plugins")
    /\ UNCHANGED <<ws, detection, vars, climb, components, packages>>

\* loadPlugins
Loading ==
    /\ stage = "plugins"
    /\ Next
    /\ UNCHANGED <<ws, detection, setup>>

\* requireLanguagePlugin
PluginsLoaded ==
    /\ stage = "plugins"
    /\ outcome \in {"loaded", "config-error", "plugin-error"}
    /\ IF outcome # "loaded" THEN Refuse(outcome)
       ELSE IF \E m \in Range(loaded) : m.type = "lang" THEN Goes("managers")
       ELSE Refuse("config-error")
    /\ UNCHANGED <<ws, detection, vars, climb, components, packages>>

\* resolveManagers: the searches, and what their failures come to.
Detecting ==
    /\ stage = "managers"
    /\ \E s \in searching : Settle(s)
    /\ UNCHANGED <<vars, setup>>

Detected ==
    /\ stage = "managers"
    /\ searching = {}
    /\ IF failures # {} THEN Refuse("runtime-error") ELSE Goes("components")
    /\ UNCHANGED <<ws, detection, vars, climb, components, packages>>

-----------------------------------------------------------------------------
\* componentFromConfig
FromConfig ==
    [i \in DOMAIN ws.declared |->
       [id |-> ws.declared[i].id,
        roots |-> [k \in DOMAIN ws.declared[i].roots |-> ToNfc(ws.declared[i].roots[k])],
        publicApi |-> [k \in DOMAIN ws.declared[i].publicApi |-> ToNfc(ws.declared[i].publicApi[k])]]]

SpellingViolation(value) == value = <<>> \/ BackslashPrefix(value) # NoName

DeclaredRefused ==
    \E c \in Range(FromConfig) :
        \/ ~IsComponentId(c.id)
        \/ \E r \in Range(c.roots) : PathViolation(r)
        \/ \E p \in Range(c.publicApi) : SpellingViolation(p)

\* detectComponents: a Component for each package directory, for the whole with none.
DetectedRoots == IF workspaces = {} THEN {Here} ELSE {w.root : w \in workspaces}

\* The manifests read for a directory, in the order their names count.
ManifestsAt(root) ==
    <<ws.package[root]>> \o
    (IF \E w \in workspaces : w.root = root /\ w.manifest = "project.json"
     THEN <<ws.project[root]>> ELSE <<>>)

Broken == "broken"
BrokenManifest(root) == \E m \in Range(ManifestsAt(root)) : m.state = Broken

NamesAt(root) ==
    SelectSeq([i \in DOMAIN ManifestsAt(root) |-> ManifestsAt(root)[i].name], LAMBDA n : n # NoName)

Bases == [r \in DetectedRoots |-> DecideId(r, ws.base, NamesAt(r))]

FromTree ==
    LET idOf == ResolveIdCollisions(Bases)
    IN  SortSeq(SetToSeq({[id |-> idOf[r], roots |-> <<r>>, publicApi |-> CollectPublicApi(ws.package[r].api)] :
                            r \in DetectedRoots}),
                LAMBDA c, d : Before(c.id, d.id))

\* The languages are counted by a walk of the whole tree, which is refused as a scan's is.
LanguageCountRefused == WalkRefusals(ws.gitignores, ws.barred, ws.unlisted) # {}

ResolveDeclared ==
    /\ stage = "components" /\ ws.declared # <<>>
    /\ IF DeclaredRefused THEN Refuse("config-error") /\ UNCHANGED components
       ELSE Goes("packages") /\ components' = FromConfig
    /\ UNCHANGED <<ws, detection, vars, climb, packages>>

DetectComponents ==
    /\ stage = "components" /\ ws.declared = <<>>
    /\ IF LanguageCountRefused THEN Refuse("runtime-error") /\ UNCHANGED components
       ELSE IF \E r \in DetectedRoots : BrokenManifest(r) \/ ~IsComponentId(Bases[r])
       THEN Refuse("config-error") /\ UNCHANGED components
       ELSE IF ~IdsUnique(ResolveIdCollisions(Bases)) THEN Refuse("runtime-error") /\ UNCHANGED components
       ELSE Goes("packages") /\ components' = FromTree
    /\ UNCHANGED <<ws, detection, vars, climb, packages>>

\* resolveWorkspacePackages: a package no Component holds can be the end of no edge.
PackageRoots ==
    {r \in {w.root : w \in workspaces} \cup UNION {Range(c.roots) : c \in Range(components)} :
       Attribute(components, r \o <<"/", "package.json">>) # NoName}

ReadPackages ==
    /\ stage = "packages"
    /\ IF \E r \in PackageRoots : ws.package[r].state = Broken
       THEN Refuse("config-error") /\ UNCHANGED packages
       ELSE /\ Goes("ready")
            /\ packages' = {[name |-> ws.package[r].name, root |-> r] :
                              r \in {q \in PackageRoots : ws.package[q].name # NoName}}
    /\ UNCHANGED <<ws, detection, vars, climb, components>>

SetupNext ==
    \/ ClimbRoot \/ FindConfig \/ LoadConfig \/ Loading \/ PluginsLoaded
    \/ Detecting \/ Detected \/ ResolveDeclared \/ DetectComponents \/ ReadPackages

SetupSpec == SetupInit /\ [][SetupNext]_setupVars

-----------------------------------------------------------------------------
SetupTypeOK ==
    /\ stage \in {"root", "config", "load", "plugins", "managers", "components", "packages", "ready",
                  "refused"}
    /\ refusal.code \in {"none", "config-error", "runtime-error", "plugin-error"}
    /\ (refusal # NotRefused) = (stage = "refused")
    /\ climb.directory \in DOMAIN ws.chain /\ climb.outermost <= climb.directory
    /\ climb.failure <= climb.directory

\* Where the climb would come out of a directory of the chain, said without climbing: the outermost
\* directory with a marker up to the first repository, and the lowest failed probe below it.
Repository(from) ==
    LET repositories == {i \in from..Len(ws.chain) : ws.chain[i].marker = ".git"}
    IN  IF repositories = {} THEN Len(ws.chain) ELSE FirstOf(repositories)
RootFrom(from) ==
    LET marked == {i \in from..Repository(from) : ws.chain[i].marker # "none"}
    IN  IF marked = {} THEN from ELSE CHOOSE i \in marked : \A j \in marked : j <= i

\* The directories, from the command's up to its root, whose probe failed: with no marker the root is
\* where the command runs, whatever its probe came to.
FailedWithin ==
    IF ws.chain[RootFrom(1)].marker = "none" THEN {}
    ELSE {i \in 1..RootFrom(1) : ws.chain[i].fault # "none"}

\* The root is one root for the whole workspace: a command run from any directory below it finds the
\* same. The search for it is refused exactly for a probe that failed inside it, a fault above it
\* notwithstanding, and with the code of the lowest.
RootedAlike ==
    /\ SetupTypeOK
    /\ stage \notin {"root", "refused"} =>
         /\ \A from \in 1..WorkspaceRoot : RootFrom(from) = WorkspaceRoot
         /\ FailedWithin = {}
    /\ refusal.part = "root" =>
         /\ FailedWithin # {}
         /\ (refusal.code = "config-error") = (ws.chain[FirstOf(FailedWithin)].fault = "malformed")

\* A document of what is handed to scan, and nothing scanned yet.
Handed ==
    [components |-> SortSeq(components, LAMBDA c, d : Before(c.id, d.id)),
     managers |-> SortManagers, languages |-> <<<<"ts">>>>, symbols |-> <<>>, dependencies |-> <<>>,
     totalFiles |-> 0, parsedFiles |-> 0, skippedFiles |-> <<>>]

\* What a set-up hands to scan is what a document can hold: no scan does all its work and then fails
\* the integrity check for a Component, a root or an entry of the config or of a manifest. Each
\* package directory has its Component, and no id moves but those that contend for it
\* (docs/design/component-detect.md section 4.1).
ComponentsStand ==
    stage = "ready" =>
        /\ Holds(Handed)
        /\ ws.declared = <<>> =>
             /\ \A w \in workspaces : Cardinality({c \in Range(components) : w.root \in Range(c.roots)}) = 1
             /\ HoldTheirGround(Bases)
        /\ \A p \in packages : Attribute(components, p.root \o <<"/", "package.json">>) # NoName

=============================================================================
