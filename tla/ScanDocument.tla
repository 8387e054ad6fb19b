---------------------------- MODULE ScanDocument -----------------------------
(***************************************************************************)
(* The scan of one workspace, from the walk to the document                *)
(* (packages/core/src/scan): discoverFiles looks at every file the walk    *)
(* found, extractFiles takes the files in turn through the language        *)
(* plugin, ImportOrigins follows the re-exports behind a file's decorators *)
(* into files whose own turn is before or still to come, and scan puts the *)
(* document together and checks it. Plugins misbehave file by file, as the *)
(* workspace says; a file can vanish at any moment. The LSP pass, the call *)
(* graph and propagation are in modules of their own.                      *)
(***************************************************************************)
EXTENDS Integers, FiniteSets, Integrity, Gitignore, ComponentAttribution

CONSTANTS
    Names,       \* exported names
    Identifiers, \* names of declarations and of their members
    Workspaces,  \* the workspaces scanned
    Vanishes     \* bound: files removed while the scan runs

\* What the plugins do with a file: each profile but the first goes wrong at one step.
Profiles ==
    {"fine", "unrouted", "no access", "parse throws", "no tree", "fatal", "slow parse",
     "extract throws", "slow extract", "slow body", "body throws", "plugin at fault",
     "twin", "astray", "malformed"}

\* A specifier is the path it is joined to, or bare: a package's name, of which the resolver of the
\* plugin throws on one.
Bare(specifier) == specifier[1] = "@"
Fault == <<"@", "fault">>
None == [to |-> NoName, name |-> "none"]
NAMESPACE == "*"

ASSUME ScanDocumentAssumption ==
    /\ Vanishes \in Nat
    /\ \A w \in Workspaces :
         /\ IsInjective(w.raws)              \* the files, in the order of the walk
         /\ w.foreign \cup w.big \cup w.fleeting \subseteq Range(w.raws)
         /\ w.barred \subseteq DOMAIN w.gitignores     \* those that cannot be read
         /\ w.unit \in [{ToNfc(r) : r \in Range(w.raws)} -> Profiles]
         /\ \A p \in DOMAIN w.unit : w.use[p] = None \/ w.use[p].to # NoName
         /\ w.frameworks \in BOOLEAN

VARIABLES
    ws,          \* the workspace, fixed by Init
    gone,        \* files removed since the walk
    at,          \* where the scan stands
    left,        \* files discovery has still to look at
    claimants,   \* the files that claim each document path
    files,       \* files to extract: document path to file
    turn,        \* document paths whose turn is still to come, in order
    skipped,     \* the files left out and why, in the order they were
    unnamed,     \* files no document can name
    open,        \* parsed trees not handed back: the file, and whose parse it was
    hop, visited, origin,         \* the chain followed for the file in turn
    memo,        \* what is remembered of each file's re-exports
    symbols,     \* the Symbols taken in: file, id and which of the file's it is
    imports,     \* the files whose import edges were taken in
    result       \* how the scan ended

vars == <<ws, gone, at, left, claimants, files, turn, skipped, unnamed, open,
          hop, visited, origin, memo, symbols, imports, result>>

discovery == <<left, claimants, files, unnamed>>
chain == <<hop, visited, origin, memo>>
document == <<symbols, imports>>

InTurn == Head(turn)
Unit == ws.unit[InTurn]
HasTree(unit) == unit \notin {"parse throws", "no tree"}

-----------------------------------------------------------------------------
RawSet == Range(ws.raws)
PathSet == DOMAIN ws.unit     \* the documents' names for them

RuleFileRefused(path) == GitignoreRefused(ws.gitignores, ws.barred, path)

Skip(path, reason) == skipped' = Append(skipped, [path |-> path, reason |-> reason])

\* Nothing done yet: what is not known before the scan is called is filled in by Begin.
Init ==
    /\ ws \in Workspaces
    /\ gone = {}
    /\ at = "idle"
    /\ left = ws.raws
    /\ claimants = [p \in DOMAIN ws.unit |-> {}]
    /\ files = {}
    /\ turn = <<>>
    /\ skipped = <<>>
    /\ unnamed = {}
    /\ open = {}
    /\ hop = None /\ visited = {} /\ origin = [p \in DOMAIN ws.unit |-> NoName]
    /\ memo = [p \in DOMAIN ws.unit |-> "unread"]
    /\ symbols = {}
    /\ imports = {}
    /\ result = "running"

\* The Components, packages and managers the command found go in.
Begin(components, packages, managers) ==
    /\ at = "idle"
    /\ at' = "walk"
    /\ ws' = [ws EXCEPT !.components = components, !.packages = packages, !.managers = managers]
    /\ UNCHANGED <<gone, turn, skipped, open, result>>
    /\ UNCHANGED discovery /\ UNCHANGED chain /\ UNCHANGED document

Vanish(raw) ==
    /\ result = "running" /\ at # "idle"
    /\ Cardinality(gone) < Vanishes
    /\ gone' = gone \cup {raw}
    /\ UNCHANGED <<ws, at, turn, skipped, open, result>>
    /\ UNCHANGED discovery /\ UNCHANGED chain /\ UNCHANGED document

Fails(how) == result' = how /\ at' = "ended" /\ turn' = <<>>

\* A directory that cannot be listed refuses the scan, unless a rule excludes it: what is in it is
\* then of no account. Another checkout's files are not this one's.
Walk ==
    /\ at = "walk"
    /\ LET refusing == WalkRefusals(ws.gitignores, ws.barred, ws.unlisted)
           first == CHOOSE d \in refusing : \A e \in refusing \ {d} : Before(d, e)
       IN  IF refusing = {} THEN at' = "discover" /\ UNCHANGED <<result, turn>>
           ELSE Fails(IF RuleFileRefused(first) THEN "gitignore unreadable"
                      ELSE "directory unreadable")
    /\ left' = SelectSeq(left, LAMBDA r : Directories(r) \cap (ws.unlisted \cup ws.checkouts) = {})
    /\ UNCHANGED <<ws, gone, claimants, files, skipped, unnamed, open>>
    /\ UNCHANGED chain /\ UNCHANGED document

Candidate == Head(left)
Kept == Candidate \notin ws.foreign /\ ~Ignores(ws.gitignores, Candidate)

\* Skipped, and still a claimant of its path, where ids could not be read back, a file cannot be
\* looked at any more or is too large.
SkipReason(raw) ==
    CASE HasSeparator(ToNfc(raw)) -> "unroutable"
      [] ~HasSeparator(ToNfc(raw)) /\ raw \in gone -> "unreadable"
      [] ~HasSeparator(ToNfc(raw)) /\ raw \notin gone /\ raw \in ws.big -> "over-size"
      [] OTHER -> "none"

Look ==
    /\ at = "discover" /\ left # <<>>
    /\ Candidate \notin ws.foreign => ~RuleFileRefused(Candidate)
    /\ Kept /\ Unnameable(Candidate) = "none" => ~PathViolation(ToNfc(Candidate))
    /\ left' = Tail(left)
    /\ unnamed' = IF Kept /\ Unnameable(Candidate) # "none" THEN unnamed \cup {Candidate} ELSE unnamed
    /\ IF Kept /\ Unnameable(Candidate) = "none"
       THEN LET path == ToNfc(Candidate) IN
            /\ claimants' = [claimants EXCEPT ![path] = @ \cup {Candidate}]
            /\ IF SkipReason(Candidate) = "none"
               THEN files' = files \cup {[path |-> path, raw |-> Candidate]} /\ UNCHANGED skipped
               ELSE Skip(path, SkipReason(Candidate)) /\ UNCHANGED files
       ELSE UNCHANGED <<claimants, files, skipped>>
    /\ UNCHANGED <<ws, gone, at, turn, open, result>>
    /\ UNCHANGED chain /\ UNCHANGED document

\* A rule file that is refused ends the scan, and so would a path the document's grammar refuses.
LookFails ==
    /\ at = "discover" /\ left # <<>>
    /\ Candidate \notin ws.foreign
    /\ IF RuleFileRefused(Candidate) THEN Fails("gitignore unreadable")
       ELSE /\ Kept /\ Unnameable(Candidate) = "none" /\ PathViolation(ToNfc(Candidate))
            /\ Fails("path refused")
    /\ UNCHANGED <<ws, gone, skipped, open>>
    /\ UNCHANGED discovery /\ UNCHANGED chain /\ UNCHANGED document

Collided == {p \in PathSet : Cardinality(claimants[p]) > 1}

\* withdrawCollisions: two spellings of one document path, and neither has it.
WithdrawCollisions ==
    /\ at = "discover"
    /\ left = <<>>
    /\ files' = {e \in files : e.path \notin Collided}
    /\ skipped' = SelectSeq(skipped, LAMBDA e : e.path \notin Collided)
    /\ unnamed' = unnamed \cup UNION {claimants[p] : p \in Collided}
    /\ turn' = SortSeq(SetToSeq({e.path : e \in files'}), Before)
    /\ at' = "turn"
    /\ UNCHANGED <<ws, gone, left, claimants, open, result>>
    /\ UNCHANGED chain /\ UNCHANGED document

-----------------------------------------------------------------------------
Known == {e.path : e \in files}
Gone(path) == \E e \in files : e.path = path /\ e.raw \in gone

\* The file in turn is done with: its tree goes back, and the next one is taken.
Over == turn' = Tail(turn) /\ at' = "turn" /\ open' = open \ {[file |-> InTurn, by |-> "own"]}

\* remember: a memo already read stays.
Remember == memo' = IF memo[InTurn] = "unread" THEN [memo EXCEPT ![InTurn] = "edges"] ELSE memo

NotRemembered == UNCHANGED memo
ChainDropped == hop' = None /\ visited' = {}

\* A file that is no longer one passed over in silence.
PassOverSilently ==
    /\ at = "turn" /\ turn # <<>>
    /\ Unit = "unrouted" \/ Gone(InTurn)
    /\ IF Unit = "unrouted" THEN Skip(InTurn, "unroutable") ELSE UNCHANGED skipped
    /\ Over
    /\ UNCHANGED <<ws, gone, result>>
    /\ UNCHANGED discovery /\ UNCHANGED chain /\ UNCHANGED document

\* No language, or no file any more by the time it is read.
PassOver ==
    /\ at = "turn" /\ turn # <<>>
    /\ Unit = "unrouted" \/ Gone(InTurn)
    /\ Skip(InTurn, IF Unit = "unrouted" THEN "unroutable" ELSE "unreadable")
    /\ Over
    /\ UNCHANGED <<ws, gone, result>>
    /\ UNCHANGED discovery /\ UNCHANGED chain /\ UNCHANGED document

\* Any other failure to read it ends the scan.
NoAccess ==
    /\ at = "turn" /\ turn # <<>>
    /\ Unit = "no access" /\ ~Gone(InTurn)
    /\ Fails("file unreadable")
    /\ UNCHANGED <<ws, gone, skipped, open>>
    /\ UNCHANGED discovery /\ UNCHANGED chain /\ UNCHANGED document

Parse ==
    /\ at = "turn" /\ turn # <<>>
    /\ Unit \notin {"unrouted", "no access", "parse throws"} /\ ~Gone(InTurn)
    /\ at' = "parsed"
    /\ open' = IF HasTree(Unit) THEN open \cup {[file |-> InTurn, by |-> "own"]} ELSE open
    /\ UNCHANGED <<ws, gone, turn, skipped, result>>
    /\ UNCHANGED discovery /\ UNCHANGED chain /\ UNCHANGED document

\* A throw of the plugin at any step of the file costs that file.
Throw ==
    /\ \/ at = "turn" /\ turn # <<>> /\ Unit = "parse throws" /\ ~Gone(InTurn)
       \/ at = "parsed" /\ Unit = "extract throws"
       \/ at = "body" /\ Unit = "body throws"
    /\ Skip(InTurn, "extraction-failed")
    /\ Over
    /\ ChainDropped /\ NotRemembered
    /\ UNCHANGED <<ws, gone, origin, result>>
    /\ UNCHANGED discovery /\ UNCHANGED document

ParseFailed ==
    /\ at = "parsed"
    /\ Unit \in {"no tree", "fatal"}
    /\ Skip(InTurn, "parse-failed")
    /\ Over
    /\ Remember
    /\ imports' = imports \cup {InTurn}
    /\ UNCHANGED <<ws, gone, hop, visited, origin, symbols, result>>
    /\ UNCHANGED discovery

\* The timeout returns before the finally block could be reached.
ParseTimeoutKeepingTree ==
    /\ \/ at = "parsed" /\ Unit \in {"slow parse", "slow extract"}
       \/ at = "body" /\ Unit = "slow body"
    /\ Skip(InTurn, "parse-timeout")
    /\ turn' = Tail(turn) /\ at' = "turn" /\ UNCHANGED open
    /\ ChainDropped /\ NotRemembered
    /\ UNCHANGED <<ws, gone, origin, result>>
    /\ UNCHANGED discovery /\ UNCHANGED document

\* The budget is looked at after the parse, after the extraction and before each candidate; the
\* chains of attach are not on it.
ParseTimeout ==
    /\ \/ at = "parsed" /\ Unit \in {"slow parse", "slow extract"}
       \/ at = "body" /\ Unit = "slow body"
    /\ Skip(InTurn, "parse-timeout")
    /\ Over
    /\ ChainDropped /\ NotRemembered
    /\ UNCHANGED <<ws, gone, origin, result>>
    /\ UNCHANGED discovery /\ UNCHANGED document

\* With no framework nobody asks for an origin.
Extract ==
    /\ at = "parsed"
    /\ Unit \notin {"no tree", "fatal", "slow parse", "slow extract", "extract throws"}
    /\ IF ws.frameworks /\ ws.use[InTurn] # None
       THEN at' = "attach" /\ hop' = ws.use[InTurn]
       ELSE at' = "body" /\ UNCHANGED hop
    /\ UNCHANGED <<ws, gone, turn, skipped, open, visited, origin, memo, result>>
    /\ UNCHANGED discovery /\ UNCHANGED document

-----------------------------------------------------------------------------
\* The file alone marked: a second name through the same barrel would end the chain.
StateByFile(h) == [file |-> h.to, name |-> NAMESPACE]

State(h) == [file |-> h.to, name |-> h.name]

Found(what) ==
    /\ origin' = [origin EXCEPT ![InTurn] = what]
    /\ ChainDropped
    /\ at' = "body"

Reexports(path) == IF memo[path] = "edges" THEN ws.reexports[path] ELSE [x \in Names |-> None]

\* The chain ends out of the workspace, at a namespace, where the resolver threw or where it has
\* been: a package named by the file itself is no news, only a re-export's is recorded.
EndOfChain ==
    /\ at = "attach"
    /\ \/ hop.to \notin Known
       \/ hop.name = NAMESPACE
       \/ State(hop) \in visited
    /\ Found(IF Bare(hop.to) /\ hop.to # Fault /\ hop.to # ws.use[InTurn].to THEN hop.to ELSE NoName)
    /\ UNCHANGED <<ws, gone, turn, skipped, open, memo, result>>
    /\ UNCHANGED discovery /\ UNCHANGED document

AtFile ==
    /\ at = "attach"
    /\ hop.to \in Known
    /\ hop.name # NAMESPACE
    /\ State(hop) \notin visited

\* A file whose edges are not known yet is read and parsed ahead of its turn, or again.
Peek ==
    /\ AtFile
    /\ memo[hop.to] = "unread"
    /\ IF Gone(hop.to) \/ ws.unit[hop.to] \in {"unrouted", "no access", "parse throws"}
       THEN memo' = [memo EXCEPT ![hop.to] = "empty"] /\ UNCHANGED <<at, open>>
       ELSE /\ at' = "peeked"
            /\ open' = IF HasTree(ws.unit[hop.to])
                       THEN open \cup {[file |-> hop.to, by |-> "peek"]} ELSE open
            /\ UNCHANGED memo
    /\ UNCHANGED <<ws, gone, turn, skipped, hop, visited, origin, result>>
    /\ UNCHANGED discovery /\ UNCHANGED document

Peeked ==
    /\ at = "peeked"
    /\ at' = "attach"
    /\ memo' = [memo EXCEPT ![hop.to] = "edges"]
    /\ open' = open \ {[file |-> hop.to, by |-> "peek"]}
    /\ UNCHANGED <<ws, gone, turn, skipped, hop, visited, origin, result>>
    /\ UNCHANGED discovery /\ UNCHANGED document

Follow ==
    /\ AtFile
    /\ memo[hop.to] # "unread"
    /\ LET next == Reexports(hop.to)[hop.name] IN
         IF next = None THEN Found(NoName)
         ELSE /\ visited' = visited \cup {State(hop)}
              /\ hop' = next
              /\ UNCHANGED <<at, origin>>
    /\ UNCHANGED <<ws, gone, turn, skipped, open, memo, result>>
    /\ UNCHANGED discovery /\ UNCHANGED document

-----------------------------------------------------------------------------
\* A promise from classify, an id without a language, an undeclared word under strict: the plugin
\* set is at fault, not the file.
PluginSetFault ==
    /\ at = "body"
    /\ Unit = "plugin at fault"
    /\ Fails("plugin set fault")
    /\ open' = open \ {[file |-> InTurn, by |-> "own"]}
    /\ UNCHANGED <<ws, gone, skipped>>
    /\ UNCHANGED discovery /\ UNCHANGED chain /\ UNCHANGED document

IdOf(path, qname) == Compose([language |-> <<"ts">>, file |-> path, qname |-> qname])
Declared == <<"f">>

\* The ids of a file's Symbols: of the file, twice the same, of another file, or of no grammar.
IdsOf(path) ==
    CASE ws.unit[path] = "twin" -> <<IdOf(path, Declared), IdOf(path, Declared)>>
      [] ws.unit[path] = "astray" ->
           <<IdOf(path, Declared), IdOf(CHOOSE q \in PathSet : q # path, Declared)>>
      [] ws.unit[path] = "malformed" -> <<IdOf(path, Declared \o <<".">>)>>
      [] OTHER -> <<IdOf(path, Declared)>>

OwnerOf(path) == Attribute(ws.components, path)

SymbolsOf(path, ids) ==
    {[file |-> path, id |-> ids[i], nth |-> i, component |-> OwnerOf(path)] : i \in DOMAIN ids}

\* An id checked against those of its own file only for being given twice.
IdFaultTwinsOnly(path) ==
    LET ids == IdsOf(path) IN \E i, j \in DOMAIN ids : i # j /\ ids[i] = ids[j]

IdFault(path) ==
    LET ids == IdsOf(path) IN
    \/ \E i \in DOMAIN ids : SymbolIdFile(ids[i]) \notin {NoName, path}
    \/ \E i, j \in DOMAIN ids : i # j /\ ids[i] = ids[j]

Body ==
    /\ at = "body"
    /\ Unit \in {"fine", "twin", "astray", "malformed"}
    /\ Over
    /\ Remember
    /\ imports' = imports \cup {InTurn}
    /\ IF IdFault(InTurn)
       THEN Skip(InTurn, "extraction-failed") /\ UNCHANGED symbols
       ELSE /\ symbols' = symbols \cup SymbolsOf(InTurn, IdsOf(InTurn))
            /\ UNCHANGED skipped
    /\ UNCHANGED <<ws, gone, hop, visited, origin, result>>
    /\ UNCHANGED discovery

-----------------------------------------------------------------------------
SkippedPaths == {e.path : e \in Range(skipped)}
InExtraction == Cardinality({i \in DOMAIN skipped : skipped[i].path \in Known})
TotalFiles == Cardinality(files) + Len(skipped) - InExtraction
ParsedFiles == Cardinality(files) - InExtraction

\* packageClaims: the Components whose roots hold a package's manifest, under its name.
Claimants(name) ==
    {OwnerOf(p.root \o <<"/", "package.json">>) : p \in {q \in Range(ws.packages) : q.name = name}}
      \ {NoName}

\* A name that two Components' manifests claim decides neither.
ImportedOwner(specifier) ==
    IF ~Bare(specifier) THEN OwnerOf(specifier)
    ELSE IF Cardinality(Claimants(Tail(specifier))) = 1
    THEN CHOOSE c \in Claimants(Tail(specifier)) : TRUE ELSE NoName

Specifiers(path) == {h.to : h \in {ws.use[path]} \cup Range(ws.reexports[path])} \ {NoName}

\* Edges between Components: a file the document leaves out has none to report.
ComponentEdges ==
    {e \in UNION {{<<OwnerOf(p), ImportedOwner(s)>> : s \in Specifiers(p)} :
                    p \in imports \ SkippedPaths} :
       NoName \notin Range(e) /\ e[1] # e[2]}

SortComponents(components) == SortSeq(components, LAMBDA c, d : Before(c.id, d.id))

Document ==
    [components |-> SortComponents(ws.components),
     managers |-> ws.managers,
     languages |-> <<<<"ts">>>>,
     symbols |-> SortSeq(SetToSeq({[id |-> s.id, nth |-> s.nth, file |-> s.file, name |-> Declared,
                                    language |-> <<"ts">>, component |-> s.component,
                                    dropped |-> FALSE] : s \in symbols}),
                         LAMBDA s, t : Before(s.id, t.id)),
     dependencies |-> SortSeq(SetToSeq({[from |-> e[1], to |-> e[2], via |-> "import"] :
                                          e \in ComponentEdges}),
                              LAMBDA d, e : Before(DependencyKey(d), DependencyKey(e))),
     totalFiles |-> TotalFiles, parsedFiles |-> ParsedFiles,
     skippedFiles |-> SortSeq(skipped, LAMBDA f, g : Before(f.path, g.path))]

Assemble ==
    /\ at = "turn" /\ turn = <<>>
    /\ Fails(IF Holds(Document) THEN "returned" ELSE "integrity")
    /\ UNCHANGED <<ws, gone, skipped, open>>
    /\ UNCHANGED discovery /\ UNCHANGED chain /\ UNCHANGED document

Next ==
    \/ \E raw \in ws.fleeting \ gone : Vanish(raw)
    \/ Begin(ws.components, ws.packages, ws.managers)
    \/ Walk \/ Look \/ LookFails \/ WithdrawCollisions
    \/ PassOver \/ NoAccess \/ Parse \/ Throw \/ ParseFailed \/ ParseTimeout \/ Extract
    \/ EndOfChain \/ Peek \/ Peeked \/ Follow
    \/ PluginSetFault \/ Body
    \/ Assemble

Spec == Init /\ [][Next]_vars

-----------------------------------------------------------------------------
TypeOK ==
    /\ gone \subseteq ws.fleeting /\ Range(left) \subseteq RawSet /\ unnamed \subseteq RawSet
    /\ at \in {"idle", "walk", "discover", "turn", "parsed", "attach", "peeked", "body", "ended"}
    /\ at \in {"parsed", "attach", "peeked", "body"} => turn # <<>>
    /\ claimants \in [PathSet -> SUBSET RawSet]
    /\ files \subseteq [path : PathSet, raw : RawSet]
    /\ Range(turn) \subseteq Known
    /\ memo \in [PathSet -> {"unread", "empty", "edges"}]
    /\ DOMAIN origin = PathSet
    /\ imports \subseteq PathSet

Parsed == {s.file : s \in symbols}
Walked == {r \in RawSet : Directories(r) \cap (ws.unlisted \cup ws.checkouts) = {}} \ ws.foreign

\* When a scan returns, every file the rules leave in stands in exactly one place: its Symbols are
\* in the document, or the census skips it once for one reason, or its name is one no document can
\* hold; the counts say so, and a file left out has no Symbol and draws no Component edge.
CensusAgrees ==
    /\ TypeOK
    /\ result = "returned" =>
         /\ \A raw \in Walked :
              LET p == ToNfc(raw) IN
              IF Ignores(ws.gitignores, raw) THEN raw \notin unnamed /\ ~\E e \in files : e.raw = raw
              ELSE Cardinality({w \in {"parsed", "skipped", "unnamed"} :
                     CASE w = "parsed" -> p \in Parsed /\ raw \notin unnamed
                       [] w = "skipped" -> p \in SkippedPaths /\ raw \notin unnamed
                       [] w = "unnamed" -> raw \in unnamed}) = 1
         /\ ParsedFiles = Cardinality(Parsed)
         /\ TotalFiles = Cardinality(Parsed \cup SkippedPaths)
         /\ \A e \in ComponentEdges : \E p \in Parsed : OwnerOf(p) = e[1]

\* The files discovery lets pass are those no rule leaves out, as git reads the rules: the last line
\* of the deepest file decides, and what is below an excluded directory stays out. A rule file that
\* cannot be used ends the scan exactly where git would have come to read it.
RulesDecide ==
    /\ at = "discover" /\ left = <<>> =>
         /\ unnamed \cup UNION Range(claimants) = {r \in Walked : ~LeftOut(ws.gitignores, r)}
         /\ \A r \in Walked : \A d \in Above(r) \cap ws.barred : \E e \in Directories(r) :
              Len(e) <= Len(d) /\ LastWord(ws.gitignores, e, TRUE) = "out"
    /\ result = "gitignore unreadable" =>
         \E d \in DOMAIN ws.gitignores :
            /\ d \in ws.barred \/ RuleTooLong(ws.gitignores[d])
            /\ \A e \in Directories(d) \cup ({d} \ {<<>>}) : LastWord(ws.gitignores, e, TRUE) # "out"

\* Every parsed tree goes back to its plugin, whichever way its file's turn ends, a file parsed
\* twice over included: at rest none is held, and never more than the file in turn and one more.
TreesHandedBack ==
    /\ at \in {"turn", "ended"} => open = {}
    /\ \A t \in open : t.file = IF t.by = "own" THEN InTurn ELSE hop.to
    /\ at # "peeked" => \A t \in open : t.by = "own"

\* What a plugin does to one file costs at most that file, its trees included: a scan that fails was
\* refused a file, a rule file or a directory by the system, or met a fault of the plugin set; a
\* name no document can hold never ends it. A malformed id is the exception: no file's turn catches
\* it, and it fails the integrity check of the whole document.
OneFileNotTheRun ==
    /\ TreesHandedBack
    /\ result \notin {"running", "returned", "gitignore unreadable"} =>
         \/ result = "directory unreadable"
              /\ \E d \in ws.unlisted : ~DirectoryExcluded(ws.gitignores, d)
         \/ \E p \in Known :
              \/ result = "file unreadable" /\ ws.unit[p] = "no access"
              \/ result = "plugin set fault" /\ ws.unit[p] = "plugin at fault"
              \/ result = "integrity" /\ ws.unit[p] = "malformed"

Qnames ==
    {<<"<", "default", ">">>, <<"<", "module", ">">>}
      \cup {MakeNestedQname(<<o>>) : o \in Identifiers}
      \cup {MakeMemberQname(<<o>>, m, static) : o \in Identifiers, m \in Identifiers, static \in BOOLEAN}

\* Of every file discovery lets through, the id composed for whatever a plugin can name there is one
\* id of the grammar, split again into the parts it was composed of: no two files' Symbols ever share
\* one.
IdsReadBack ==
    at = "turn" /\ Len(turn) = Cardinality(files) =>
        \A path \in Known, qname \in Qnames \ {NoName} :
            LET parts == [language |-> <<"ts">>, file |-> path, qname |-> qname]
                id == TrySymbolId(parts)
            IN  IsSymbolId(id) /\ SplitSymbolId(id) = Normalize(parts)

\* What following h leads to: as many hops as there are pairs of a file and a name, cycles and all.
Leads(h) ==
    LET After(g) ==
          IF g.to \in Known /\ g.name # NAMESPACE
               /\ ws.unit[g.to] \notin {"unrouted", "no access", "parse throws"}
          THEN LET x == ws.reexports[g.to][g.name] IN IF x = None THEN g ELSE x
          ELSE g
        steps == Cardinality(PathSet) * Cardinality(Names) + 1
        walk[k \in 0..steps] == IF k = 0 THEN h ELSE After(walk[k - 1])
        end == walk[steps].to
    IN  IF Bare(end) /\ end # Fault /\ end # h.to THEN end ELSE NoName

\* An origin depends on the files alone, not on the order of the scan, on what was read before, nor
\* on what became of a file in its own turn: whoever asks of one binding gets one answer, and while
\* no file vanishes it is the end of the re-exports.
OriginsAgree ==
    /\ \A p \in Parsed : ws.frameworks /\ ws.use[p] # None /\ gone = {} =>
         origin[p] = Leads(ws.use[p])
    /\ \A p, q \in Parsed : ws.use[p] = ws.use[q] => origin[p] = origin[q]
=============================================================================
