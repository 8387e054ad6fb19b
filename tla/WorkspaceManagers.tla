--------------------------- MODULE WorkspaceManagers ---------------------------
(***************************************************************************)
(* Who manages the workspace's packages (packages/core/src/workspace.ts,   *)
(* detectManagers): four searches run at once, for pnpm's, npm's, turbo's  *)
(* and nx's declarations, and each is merged into the answer as it         *)
(* settles. What a search's patterns match is the tree's; a directory is   *)
(* the sequence of its name's characters, as spelled on disk.              *)
(***************************************************************************)
EXTENDS Naturals, FiniteSets, Gitignore, DocumentPath

CONSTANT
    Workspaces      \* the workspaces that may be scanned

VARIABLES
    ws,             \* the one scanned
    searching,      \* searches that have not settled
    managers,       \* [tool, roots] of each search that found its manifest
    workspaces,     \* package directories: [root, tool, manifest], root in NFC
    unresolved,     \* searches whose patterns named no package
    unnameable,     \* package directories left out, as spelled: [search, root, reason]
    failures        \* searches that were refused

detection == <<searching, managers, workspaces, unresolved, unnameable, failures>>

Searches == <<"pnpm", "package.json", "turbo", "nx">>

\* The tools in code-unit order.
Tools == <<"bun", "npm", "nx", "pnpm", "turbo", "yarn">>
Here == <<".">>

\* detectJsPackageManagerTool: the first lock file that is there.
LockFiles == << <<"pnpm-lock.yaml", "pnpm">>, <<"yarn.lock", "yarn">>, <<"bun.lockb", "bun">>,
                <<"bun.lock", "bun">> >>
JsTool ==
    LET held == {i \in DOMAIN LockFiles : LockFiles[i][1] \in ws.locks}
    IN  IF held = {} THEN "npm" ELSE LockFiles[FirstOf(held)][2]

Tool(s) == IF s = "package.json" THEN JsTool ELSE s
ManifestOf(s) == IF s = "nx" THEN "project.json" ELSE "package.json"
PathIn(dir, file) == IF dir = Here THEN <<file>> ELSE dir \o <<"/", file>>

\* A search that merges nothing is over before it began: no manifest, or one of no patterns.
Searching ==
    {s \in DOMAIN ws.manifests :
       s = "package.json" => ws.manifests[s].patterns \/ ws.manifests[s].malformed}

RuleFileRefused(dir) == GitignoreRefused(ws.gitignores, ws.barred, dir)

\* A directory that could not be listed is passed over by the nx search alone, where a rule
\* excludes it: package patterns name their directories whatever the rules say.
Refusing(s) ==
    IF s = "nx" THEN WalkRefusals(ws.gitignores, ws.barred, ws.manifests[s].unlisted)
    ELSE ws.manifests[s].unlisted

\* The package directories a search comes to: nx takes no project.json that a rule leaves out.
Candidates(s) ==
    {d \in Range(ws.manifests[s].matches) :
       s = "nx" => ~Ignores(ws.gitignores, PathIn(d, "project.json"))}

\* unnameableCandidate: a directory above the workspace is not for its name to be refused.
LeftOutFor(dir) ==
    IF <<".", ".">> \in Range(Segments(dir)) THEN "none" ELSE Unnameable(dir)

Outside(s) ==
    {d \in Candidates(s) : LeftOutFor(d) = "none" /\ PathViolation(ToNfc(d))}

\* A workspace has manifests of the searches alone, and what one cannot list has a name.
ASSUME ManifestsAssumption ==
    \A w \in Workspaces :
        /\ DOMAIN w.manifests \subseteq Range(Searches)
        /\ \A s \in DOMAIN w.manifests :
              /\ IsFiniteSet(w.manifests[s].unlisted)
              /\ w.manifests[s].unlisted \subseteq Seq(Range(CodeUnits))

NoFault == [code |-> "none", at |-> NoName]
LowestOf(names) == CHOOSE n \in names : \A other \in names \ {n} : Before(n, other)

UnlistedFault(s, directory) ==
    [code |-> IF s = "nx" /\ RuleFileRefused(directory) THEN "scan-gitignore-unreadable"
              ELSE "scan-directory-unreadable",
     at |-> directory]

ProjectRulesRefused(s) ==
    s = "nx" /\ \E d \in Range(ws.manifests[s].matches) : RuleFileRefused(PathIn(d, "project.json"))

\* What refuses a search: its manifest, a directory its walk met, a rule file, or a package
\* directory outside the workspace.
FaultMeeting(s, refusing) ==
    CASE ws.manifests[s].malformed ->
           [code |-> "workspace-manifest-malformed", at |-> <<s>>]
      [] ~ws.manifests[s].malformed /\ refusing # {} -> UnlistedFault(s, LowestOf(refusing))
      [] ~ws.manifests[s].malformed /\ refusing = {} ->
           IF ProjectRulesRefused(s) THEN [code |-> "scan-gitignore-unreadable", at |-> <<s>>]
           ELSE IF Outside(s) = {} THEN NoFault ELSE [code |-> "workspace-root-outside", at |-> <<s>>]
SearchFault(s) == FaultMeeting(s, Refusing(s))

-----------------------------------------------------------------------------
DetectionInit ==
    /\ searching = Searching
    /\ managers = <<>>
    /\ workspaces = {}
    /\ unresolved = {}
    /\ unnameable = {}
    /\ failures = {}

\* mergeManager's roots and, the ones already there aside, its candidates.
Roots(s) == {ToNfc(d) : d \in {c \in Candidates(s) : LeftOutFor(c) = "none"}}
CandidateRoots(s) == {[root |-> r, tool |-> Tool(s), manifest |-> ManifestOf(s)] : r \in Roots(s)}

\* The manager a search is listed as.
ManagerOf(s) == [tool |-> Tool(s), roots |-> Roots(s)]

\* A search whose packages had all to be left out named some.
Unresolved(s) == ws.manifests[s].patterns /\ Candidates(s) = {}

\* One search settles, in any order, and is merged there and then.
Settle(s) ==
    /\ s \in searching
    /\ searching' = searching \ {s}
    /\ IF SearchFault(s) # NoFault
       THEN /\ failures' = failures \cup {s}
            /\ UNCHANGED <<managers, workspaces, unresolved, unnameable>>
       ELSE /\ managers' = Append(managers, ManagerOf(s))
            /\ workspaces' = workspaces \cup CandidateRoots(s)
            /\ unresolved' = IF Unresolved(s) THEN unresolved \cup {s} ELSE unresolved
            /\ unnameable' = unnameable \cup
                 {[search |-> s, root |-> d, reason |-> LeftOutFor(d)] :
                    d \in {c \in Candidates(s) : LeftOutFor(c) # "none"}}
            /\ UNCHANGED failures
    /\ UNCHANGED ws

\* The failure of the first search that has one, in the order they are listed.
FirstInOrder(faults) == faults[Searches[FirstOf({i \in DOMAIN Searches : Searches[i] \in DOMAIN faults})]]

Unread(faults) == {f \in Range(faults) : f.code = "scan-directory-unreadable"}

\* firstFailure: of the directories that could not be listed the lowest, else the first search's.
FirstFailure(faults) ==
    IF Unread(faults) # {} THEN CHOOSE f \in Unread(faults) : \A g \in Unread(faults) \ {f} : Before(f.at, g.at)
    ELSE FirstInOrder(faults)

\* Sorted by tool; those of one tool stay as they arrived.
SortManagers ==
    LET sorted == FlattenSeq([i \in DOMAIN Tools |-> SelectSeq(managers, LAMBDA m : m.tool = Tools[i])])
    IN  [i \in DOMAIN sorted |-> [sorted[i] EXCEPT !.roots = SortSeq(SetToSeq(@), Before)]]

LowestUnlisted(unlisted) ==
    unlisted # {} /\ ~(\E d \in unlisted : RuleFileRefused(d)) =>
        FirstFailure([s \in failures |-> SearchFault(s)])
          = [code |-> "scan-directory-unreadable", at |-> LowestOf(unlisted)]

\* What merging did not lose or say twice. Whichever search settled first, the detection fails exactly
\* when a search is refused, for a reason of the tree alone, and else lists the manager of each search
\* that found its manifest, as often as searches come to it, and each package directory that has a
\* name, once for each tool that found it. The order of two managers of one tool is NOT the tree's:
\* sorted by the tool alone, pnpm's two stand as their searches settled.
DetectedAsInTurn ==
    searching = {} =>
        /\ failures = {s \in Searching : SearchFault(s) # NoFault}
        /\ LowestUnlisted(UNION {Refusing(f) : f \in {g \in failures : ~ws.manifests[g].malformed}})
        /\ failures = {} =>
             /\ \A m \in Range(managers) \cup {ManagerOf(s) : s \in Searching} :
                  Cardinality({i \in DOMAIN managers : managers[i] = m})
                    = Cardinality({s \in Searching : ManagerOf(s) = m})
             /\ \A w \in workspaces : \E m \in Range(managers) : m.tool = w.tool /\ w.root \in m.roots
             /\ \A s \in Searching : \A d \in Candidates(s) :
                  \/ \E u \in unnameable : u.root = d /\ u.search = s
                  \/ \E w \in workspaces : w.root = ToNfc(d) /\ w.tool = Tool(s)
             /\ \A v, w \in workspaces : v.root = w.root /\ v.tool = w.tool => v = w

=============================================================================
