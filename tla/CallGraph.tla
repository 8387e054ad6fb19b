------------------------------ MODULE CallGraph ------------------------------
(***************************************************************************)
(* core/src/callgraph.ts: the call sites of a scan are resolved one after   *)
(* another, in the scopes of callgraph-scopes.ts, then by the hint of a     *)
(* language server; what stays unresolved is put in a bucket. The edges are *)
(* projected to the document's dependencies, which assertIRIntegrity holds  *)
(* against the resolved calls.                                              *)
(*                                                                          *)
(* A file is the sequence of the names its path is built from ("b", "index",*)
(* "ts"), a qualified name the sequence of its segments with "." or "::"    *)
(* between them, a target the sequence of its segments. A Symbol's id is    *)
(* its language, file and name.                                             *)
(***************************************************************************)
EXTENDS Integers, SequencesExt, FiniteSetsExt, TLC

CONSTANTS
    Symbols,     \* the sets of Symbols that extraction may leave
    Imports,     \* the import edges by file
    Hints,       \* by call site, the receivers enrichment may have found
    Sites,       \* the call sites, in the order of their Symbols
    Parameters,  \* the names each caller's parameters bind
    Dynamic,     \* the call sites whose receiver is no name
    Extensions   \* the probe list

None == <<>>
DEFAULT == <<"<default>">>

VARIABLES
    program,      \* ResolveCallGraphInput; never changes
    answers,      \* for each call site taken, what its call says now
    edges,        \* CallEdge, in the order pushed
    diagnostics,  \* UnresolvedCallDiagnostic, in the order pushed
    usage,        \* LspHintUsage
    document      \* dependencies and stats, once written
vars == <<program, answers, edges, diagnostics, usage, document>>

Usages == {"consumed", "kindMismatch", "targetDropped"}
Buckets == {"local-scope", "dynamic", "ambiguous", "external", "no-match"}
Unwritten == [written |-> FALSE]

\* A Symbol has a language, a file, a name and a component, and may be kept,
\* own its members, be the default export. A call site has its caller's id and
\* component. A hint names a Symbol of the scan, dropped or not.
Id(s) == [language |-> s.language, file |-> s.file, name |-> s.name]

Init ==
    /\ program \in [symbols : Symbols, imports : Imports, hints : Hints]
    /\ \A k \in DOMAIN program.hints : \E s \in program.symbols : program.hints[k].target = Id(s)
    /\ answers = <<>>
    /\ edges = <<>>
    /\ diagnostics = <<>>
    /\ usage = [u \in Usages |-> 0]
    /\ document = Unwritten

Kept(S) == {s \in S : s.kept}
KeptIds(S) == {Id(s) : s \in Kept(S)}
SiteKey(c) == [file |-> c.caller.file, line |-> c.line, target |-> c.target]
ImportsOf(c) == program.imports[c.caller.file]
ParameterNames(c) == Parameters[Id(c.caller)]
FilesOf(language, S) == {s.file : s \in {t \in S : t.language = language}}

(***************************************************************************)
(* Names: a dotted target spelled as a name, and the member a target names. *)
(***************************************************************************)
Joined(name, separator, segment) == name \o <<separator, segment>>

Spelled(target) ==
    FoldLeft(LAMBDA name, segment : Joined(name, ".", segment), <<Head(target)>>, Tail(target))

\* The static side of a receiver comes before the instance side.
MemberId(c, S, file, first, rest) ==
    LET IdOf(name) == [language |-> c.caller.language, file |-> file, name |-> name]
        Next(name, segment) ==
            IF IdOf(Joined(name, "::", segment)) \in KeptIds(S) THEN Joined(name, "::", segment)
            ELSE Joined(name, ".", segment)
        id == IdOf(FoldLeft(Next, first, rest))
    IN  IF id \in KeptIds(S) THEN {id} ELSE {}

(***************************************************************************)
(* A scope's answer: whether the search ends in it, with which ids, at      *)
(* which confidence, and the candidates it could not choose between.        *)
(***************************************************************************)
Answer(bound, hit, confidence, ambiguous) ==
    [bound |-> bound, hit |-> hit, confidence |-> confidence, ambiguous |-> ambiguous]
Missed(ambiguous) == Answer(FALSE, {}, "none", ambiguous)
NO_MEMBER(ambiguous) == Answer(TRUE, {}, "none", ambiguous)
Hit(hit, confidence) == Answer(TRUE, hit, confidence, {})

Else(first, then) ==
    IF first.bound THEN first ELSE [then EXCEPT !.ambiguous = @ \cup first.ambiguous]

SoleCandidate(bucket, confidence) ==
    IF Cardinality(bucket) = 1 THEN Hit({Id(s) : s \in bucket}, confidence)
    ELSE Missed({Id(s) : s \in bucket})

\* Dropping a declaration keeps it out of what a call resolves to, not out of
\* what its name means: owners are looked for among the dropped ones too.
\* Mutant of Owners: a dropped Symbol no longer owns its members.
OwnersKept(S) == {s \in Kept(S) : s.owner}
Owners(S) == {s \in S : s.owner}
OwnsMembers(S, file, name) == \E s \in Owners(S) : s.file = file /\ s.name = name

FileScope(c, S) ==
    LET head == <<Head(c.target)>>
        file == c.caller.file
        owned == OwnsMembers(S, file, head)
        declared == {s \in Kept(S) : s.file = file /\ s.name = head}
        member == MemberId(c, S, file, head, Tail(c.target))
    IN  IF Cardinality(declared) > 1 THEN Missed({Id(s) : s \in declared})
        ELSE IF declared # {} /\ Len(c.target) = 1 THEN Hit({Id(s) : s \in declared}, "high")
        ELSE IF declared = {} /\ ~owned THEN Missed({})
        ELSE IF member # {} THEN Hit(member, "high")
        ELSE IF owned THEN NO_MEMBER({})
        ELSE Missed({})

(***************************************************************************)
(* Imports. A specifier is relative or not, names a directory or not, and   *)
(* is the path it joins to: its stem, and the extension written, if any.    *)
(***************************************************************************)
EmittedSources ==
    "js" :> <<"ts", "tsx", "js", "jsx">> @@ "jsx" :> <<"tsx", "ts", "jsx", "js">>
      @@ "mjs" :> <<"mts", "mjs">> @@ "cjs" :> <<"cts", "cjs">>

Probes(specifier) ==
    LET joined == specifier.stem \o specifier.extension
        sources(written) == SelectSeq(EmittedSources[written],
                                      LAMBDA e : e = written \/ Contains(Extensions, e))
        written ==
            IF specifier.extension = <<>> \/ Last(specifier.extension) \notin DOMAIN EmittedSources
            THEN <<joined>>
            ELSE [i \in DOMAIN sources(Last(specifier.extension)) |->
                    Append(specifier.stem, sources(Last(specifier.extension))[i])]
        below(path) == [i \in DOMAIN Extensions |-> Append(path, Extensions[i])]
    IN  (IF specifier.directory THEN <<>> ELSE written \o below(joined))
          \o below(Append(joined, "index"))

RelativeTarget(c, S, edge) ==
    LET known == SelectSeq(Probes(edge.specifier),
                           LAMBDA f : f \in FilesOf(c.caller.language, S))
    IN  IF edge.specifier.relative /\ known # <<>> THEN {Head(known)} ELSE {}

DefaultExports(S, file) ==
    {s.name : s \in {t \in Kept(S) : t.file = file /\ ~Contains(t.name, ".")
                                       /\ (t.name = DEFAULT \/ t.default)}}

\* The edges that bind a head, each with the names it may stand for there.
Binds(edge, head) == ~edge.dynamic /\ edge.local = head
Renames(edge) == edge.imported = "*" \/ edge.imported # edge.local

ImportedNames(c, S, edge) ==
    LET rest == Tail(c.target)
        In(file) ==
            CASE edge.imported = "*" ->
                   IF rest = <<>> THEN {}
                   ELSE {[file |-> file, name |-> <<Head(rest)>>, rest |-> Tail(rest)]}
              [] edge.imported = "default" ->
                   {[file |-> file, name |-> n, rest |-> rest] : n \in DefaultExports(S, file)}
              [] OTHER -> {[file |-> file, name |-> <<edge.imported>>, rest |-> rest]}
    IN  UNION {In(file) : file \in RelativeTarget(c, S, edge)}

ImportScope(c, S) ==
    LET binding == {e \in ImportsOf(c) : Binds(e, Head(c.target))}
        names == UNION {ImportedNames(c, S, e) : e \in binding}
        candidates == UNION {MemberId(c, S, n.file, n.name, n.rest) : n \in names}
        bound == \/ \E e \in binding : Renames(e)
                 \/ \E n \in names : OwnsMembers(S, n.file, n.name)
    IN  IF Cardinality(candidates) = 1 THEN Hit(candidates, "high")
        ELSE IF bound THEN NO_MEMBER(candidates)
        ELSE Missed(candidates)

SpelledAs(c, S) ==
    {s \in Kept(S) : s.language = c.caller.language /\ s.name = Spelled(c.target)}
ComponentScope(c, S) ==
    SoleCandidate({s \in SpelledAs(c, S) : s.component = c.caller.component}, "medium")
WorkspaceScope(c, S) == SoleCandidate(SpelledAs(c, S), "low")

Shadowed(c) == Head(c.target) \in ParameterNames(c)
Unnamed(c) == c.target = <<>> \/ (~Shadowed(c) /\ Head(c.target) \in {"this", "super"})

Found(c, S) ==
    IF Unnamed(c) \/ Shadowed(c) THEN Missed({})
    ELSE Else(FileScope(c, S),
         Else(ImportScope(c, S),
         IF Len(c.target) = 1 THEN Missed({})
         ELSE Else(ComponentScope(c, S), WorkspaceScope(c, S))))

(***************************************************************************)
(* The loop over the call sites.                                            *)
(***************************************************************************)
Site == Sites[Len(answers) + 1]
SitesLeft == Len(answers) < Len(Sites)

\* Mutant of HintOutcome: a hint followed wherever it leads.
HintOutcomeOfAnyTarget(c) ==
    IF SiteKey(c) \in DOMAIN program.hints THEN "consumed" ELSE "absent"
HintOutcome(c) ==
    IF SiteKey(c) \notin DOMAIN program.hints THEN "absent"
    ELSE LET hint == program.hints[SiteKey(c)]
         IN  IF c.target = <<>> \/ Head(c.target) # hint.kind THEN "kindMismatch"
             ELSE IF hint.target \notin KeptIds(program.symbols) THEN "targetDropped"
             ELSE "consumed"

Count(outcome) == [u \in Usages |-> usage[u] + IF u = outcome THEN 1 ELSE 0]

Take(c, id, confidence) ==
    /\ answers' = Append(answers, [resolved |-> {id}, confidence |-> confidence])
    /\ edges' = Append(edges, [from |-> Id(c.caller), to |-> id, confidence |-> confidence,
                               line |-> c.line])
    /\ UNCHANGED <<program, diagnostics, document>>

ResolveInScope ==
    /\ SitesLeft
    /\ \E id \in Found(Site, program.symbols).hit :
         Take(Site, id, Found(Site, program.symbols).confidence)
    /\ UNCHANGED usage

ResolveByHint ==
    /\ SitesLeft
    /\ Found(Site, program.symbols).hit = {}
    /\ HintOutcome(Site) = "consumed"
    /\ Take(Site, program.hints[SiteKey(Site)].target, "high")
    /\ usage' = Count("consumed")

BindsToExternal(c) ==
    \E e \in ImportsOf(c) : ~e.specifier.relative /\ Binds(e, Head(c.target))

Bucket(c, ambiguous) ==
    IF ~Unnamed(c) /\ Shadowed(c) THEN "local-scope"
    ELSE IF Unnamed(c) \/ SiteKey(c) \in Dynamic THEN "dynamic"
    ELSE IF ambiguous # {} THEN "ambiguous"
    ELSE IF BindsToExternal(c) THEN "external"
    ELSE "no-match"

LeaveUnresolved ==
    /\ SitesLeft
    /\ LET found == Found(Site, program.symbols)
           bucket == Bucket(Site, found.ambiguous)
       IN  /\ found.hit = {}
           /\ HintOutcome(Site) # "consumed"
           /\ diagnostics' =
                Append(diagnostics,
                       [symbol |-> Id(Site.caller), target |-> Site.target, line |-> Site.line,
                        bucket |-> bucket,
                        candidates |-> IF bucket = "ambiguous" THEN found.ambiguous ELSE {}])
    /\ answers' = Append(answers, [resolved |-> {}, confidence |-> "none"])
    /\ usage' = Count(HintOutcome(Site))
    /\ UNCHANGED <<program, edges, document>>

\* projectSymbolEdges: calls of one Symbol to another share a dependency.
Projected ==
    LET Project(dependencies, edge) ==
          LET dependency == [from |-> edge.from, to |-> edge.to]
          IN  IF Contains(dependencies, dependency) THEN dependencies
              ELSE Append(dependencies, dependency)
    IN  FoldLeft(Project, <<>>, edges)

BucketCounts == [b \in Buckets |-> Cardinality({i \in DOMAIN diagnostics : diagnostics[i].bucket = b})]

WriteDocument ==
    /\ ~SitesLeft
    /\ document = Unwritten
    /\ document' = [written |-> TRUE, dependencies |-> Projected,
                    totalCalls |-> Len(Sites), resolvedCalls |-> Len(edges),
                    unresolved |-> BucketCounts]
    /\ UNCHANGED <<program, answers, edges, diagnostics, usage>>

Next == ResolveInScope \/ ResolveByHint \/ LeaveUnresolved \/ WriteDocument

Spec == Init /\ [][Next]_vars

-----------------------------------------------------------------------------
(***************************************************************************)
(* Properties.                                                              *)
(***************************************************************************)
TypeOK ==
    /\ Len(answers) <= Len(Sites)
    /\ \A i \in DOMAIN diagnostics : diagnostics[i].bucket \in Buckets
    /\ usage \in [Usages -> 0..Len(Sites)]

ResolvedPairs ==
    UNION {{[from |-> Id(Sites[i].caller), to |-> id] : id \in answers[i].resolved} :
             i \in DOMAIN answers}
ResolvedSites == {i \in DOMAIN answers : answers[i].resolved # {}}

(* The integrity checks of the call graph: each holds where the check reports nothing. *)

\* Invariant 12: a call edge joins declared Symbols that are not dropped.
CheckCallEdgeEndpoints ==
    \A d \in Range(document.dependencies) : {d.from, d.to} \subseteq KeptIds(program.symbols)

\* Invariant 13.
CheckDependencyTupleUniqueness ==
    Cardinality(Range(document.dependencies)) = Len(document.dependencies)

\* Invariant 14.
CheckCallGraphProjectionAgrees == Range(document.dependencies) = ResolvedPairs

\* Invariant 15.
CheckCallResolutionStatsCensus ==
    /\ document.totalCalls = Len(Sites)
    /\ document.resolvedCalls = Cardinality(ResolvedSites)
    /\ MapThenSumSet(LAMBDA b : document.unresolved[b], Buckets)
         = document.totalCalls - document.resolvedCalls

\* The consumer's sum (docs/design/lsp-enrichment.md section 7.2): the sites no scope answered that found
\* a hint at their key, each counted for one outcome, and for "consumed" exactly where it got its edge.
HintsCounted ==
    LET missed == {i \in DOMAIN Sites : Found(Sites[i], program.symbols).hit = {}}
    IN  /\ MapThenSumSet(LAMBDA u : usage[u], Usages)
             = Cardinality({i \in missed : SiteKey(Sites[i]) \in DOMAIN program.hints})
        /\ usage["consumed"] = Cardinality(ResolvedSites \cap missed)

\* The document that is written passes these checks, any of which fails the whole scan, hints
\* included; its hint counts add up; and an ambiguous call, and no other, is left with several
\* candidates.
CallGraphAgrees ==
    /\ TypeOK
    /\ document.written =>
         /\ CheckCallEdgeEndpoints /\ CheckDependencyTupleUniqueness
         /\ CheckCallGraphProjectionAgrees /\ CheckCallResolutionStatsCensus
         /\ HintsCounted
         /\ \A i \in DOMAIN diagnostics :
              (diagnostics[i].bucket = "ambiguous") = (Cardinality(diagnostics[i].candidates) > 1)

\* What docs/design/call-resolution.md 4.3 and 4.4 call bound: by a declaration
\* of the file whose members are Symbols, kept or dropped; by an import under a
\* name the declaration does not have; by an import of such a declaration.
HeadIsBound(c) ==
    LET Declares(file, name) ==
          \E s \in program.symbols : s.file = file /\ s.name = <<name>> /\ s.owner
        binding == {e \in ImportsOf(c) : Binds(e, Head(c.target))}
    IN  \/ Declares(c.caller.file, Head(c.target))
        \/ \E e \in binding :
              \/ Renames(e)
              \/ \E file \in RelativeTarget(c, program.symbols, e) : Declares(file, e.imported)

Home(c) ==
    {c.caller.file} \cup
      UNION {RelativeTarget(c, program.symbols, e) :
               e \in {d \in ImportsOf(c) : Binds(d, Head(c.target))}}

\* A namesake is never taken for what a name is bound to. A call whose head a
\* parameter binds stays unresolved. A call whose head is bound, or whose edge
\* claims high confidence, says what it would say if the workspace held
\* nothing but the caller's file and the modules that bind its head.
BoundHeadsStayHome ==
    document.written =>
      \A i \in {j \in DOMAIN Sites : Sites[j].target # <<>>} :
       LET c == Sites[i]
           home == {s \in program.symbols : s.file \in Home(c)}
       IN  Head(c.target) \notin {"this", "super"} =>
             /\ Shadowed(c) => answers[i].resolved = {}
             /\ ~Shadowed(c) /\ (HeadIsBound(c) \/ answers[i].confidence = "high") =>
                  answers[i].resolved = Found(c, home).hit

\* A call's answer is both what the document says throughout and no namesake of what was called.
ResolvedSoundly == CallGraphAgrees /\ BoundHeadsStayHome
=============================================================================
