------------------------------ MODULE DiffReport -----------------------------
(***************************************************************************)
(* buildDiff from the matching to the finished diff (packages/diff/src:    *)
(* diff.ts, delta.ts, components.ts, slice.ts). The stages are those of    *)
(* MatchStages, but that the last one is walked as DroppedWeak does. Then  *)
(* come what changed in each pair, the Components, the dependencies read   *)
(* under the head's ids, and the Slices: the changed Symbols that calls    *)
(* of either document join.                                                *)
(*                                                                         *)
(* A document also has, by side: edges between Symbols (via "call") and    *)
(* between Components, Components with their roots, and the bodies of some *)
(* Symbols, which are their facts (ElementDelta) less the name and the     *)
(* confidence. A Component's id begins with 0, as no file's Symbol does.   *)
(***************************************************************************)
EXTENDS MatchStages, ElementDelta, WeakComponents

CONSTANT Folders   \* of a file: the directories it lies in, the innermost first

VARIABLES
    walked, at, take, matching,   \* the walk of the last stage: module DroppedWeak
    built,                        \* how far the diff is: see Progress
    diff                          \* the diff's parts besides symbols[]

walk == <<walked, at, take, matching>>

Sides == {"base", "head"}
Other(side) == CHOOSE s \in Sides : s # side
SymbolsOf(side) == IF side = "base" THEN input.base ELSE input.head
LostOf(side) == IF side = "base" THEN input.lostByBase ELSE input.lostByHead
IdsOf(side) == {Id(s) : s \in SymbolsOf(side)}

IdBefore(x, y) == x[1] < y[1] \/ (x[1] = y[1] /\ x[2] < y[2])

EdgeKey(e) == <<e.from, e.to, e.via>>

\* assertDiffable, for Components and dependencies; no id is a Symbol's and a Component's
\* (composeSymbolId, makeComponentId).
ASSUME EdgesAssumption ==
    /\ 0 \notin Files
    /\ \A i \in Inputs, side \in Sides :
        /\ i.edges[side] \subseteq
               [from : Nat \X Nat, to : Nat \X Nat, via : STRING, direction : STRING]
        /\ \A e, f \in i.edges[side] : EdgeKey(e) = EdgeKey(f) => e = f
        /\ \A c, d \in i.components[side] : c.id[1] = 0 /\ (c.id = d.id => c = d)

\* The fingerprints are hashes of the facts: Symbols that do not differ in what a fingerprint reads
\* do not differ in it.
ASSUME FingerprintsAssumption ==
    \A i \in Inputs : \A b \in i.base, h \in i.head :
        Id(b) \in DOMAIN i.bodies["base"] /\ Id(h) \in DOMAIN i.bodies["head"] =>
            LET f == [name |-> b.name] @@ i.bodies["base"][Id(b)]
                g == [name |-> h.name] @@ i.bodies["head"][Id(h)]
            IN  /\ ApiInput(f) = ApiInput(g) => b.sig = h.sig
                /\ LogicInput(f) = LogicInput(g) => b.logic = h.logic

Undiffed == [deltas |-> <<>>, components |-> <<>>, dependencies |-> <<>>, summary |-> <<>>, slices |-> <<>>]

DiffInit ==
    /\ Init
    /\ walked = {} /\ at = <<>> /\ take = TRUE /\ matching = {}
    /\ built = "matching"
    /\ diff = Undiffed

-----------------------------------------------------------------------------
(* The last matching stage, walked *)

Weak == INSTANCE DroppedWeak WITH
            bases <- DroppedOf(RemainingBase), heads <- DroppedOf(RemainingHead),
            keys <- [by \in {"name", "file"} |->
                        [s \in DroppedOf(RemainingBase) \cup DroppedOf(RemainingHead) |-> Key(s, by)]]

Walking == stage = "name" /\ candidates = {}

WalkDropped ==
    /\ Walking
    /\ UNCHANGED <<vars, built, diff>>
    /\ Weak!Next

KeepWalked ==
    /\ Walking
    /\ Weak!Done
    /\ pairs' = pairs \cup {Pair(p[1], p[2], "dropped-weak-match") : p \in matching}
    /\ stage' = "report"
    /\ UNCHANGED <<input, group, grouped, candidates, entries, counted, walk, built, diff>>

\* The steps of MatchStages but for the one the walk stands for.
MatchOrReport ==
    /\ \/ MatchById
       \/ MatchByRename
       \/ \E g \in Kinds \X Logics : OpenGroup(g) \/ PairLone(g) \/ ScoreGroup(g) \/ LeaveGroup(g)
       \/ AcceptByLogic
       \/ ScoreNames
       \/ AcceptByName
       \/ Report
    /\ UNCHANGED <<walk, built, diff>>

-----------------------------------------------------------------------------
(* computeSymbolDelta *)

Sole(S) == CHOOSE x \in S : TRUE

\* representativeSymbol: the head's, where the entry has one.
Representative(e) == Sole(IF e.after # {} THEN e.after ELSE e.before)

OfStatus(statuses) == {e \in entries : e.status \in statuses}
Changed == OfStatus({"changed", "moved+changed"})

\* The facts of a Symbol whose body the document leaves unsaid here are the same blank ones.
NoBody ==
    [exported |-> [keyword |-> FALSE, default |-> FALSE, clauses |-> {}], signature |-> {},
     rules |-> <<>>, effects |-> <<>>, calls |-> <<>>, decorators |-> <<>>, middleware |-> <<>>,
     component |-> {}, visibility |-> "internal"]
Facts(side, s) ==
    [name |-> s.name, short |-> LastSegment[s.name], confidence |-> s.confidence]
        @@ (IF Id(s) \in DOMAIN input.bodies[side] THEN input.bodies[side][Id(s)] ELSE NoBody)

Api(s) == <<s.kind, LastSegment[s.name], s.sig, s.ext>>

SymbolDelta(e) ==
    LET b == Sole(e.before)
        h == Sole(e.after)
    IN  FieldDelta(Facts("base", b), Facts("head", h),
                   [api        |-> Api(b) # Api(h),
                    logic      |-> b.logic # h.logic,
                    syntax     |-> b.syntax # h.syntax,
                    confidence |-> b.confidence # h.confidence])

-----------------------------------------------------------------------------
(* diffComponents and buildComponentAttribution *)

ComponentDiff ==
    LET base == input.components.base
        head == input.components.head
    IN  [added   |-> {c \in head : \A b \in base : b.id # c.id},
         removed |-> {b \in base : \A c \in head : b.id # c.id},
         changed |-> {p \in base \X head : p[1].id = p[2].id /\ p[1] # p[2]}]

\* Of the Components that claim one root, the lowest id; the innermost folder claimed owns a file.
Owners(side, file) ==
    LET Claims(i) == {c \in input.components[side] : Folders[file][i] \in c.roots}
        claimed == {i \in DOMAIN Folders[file] : Claims(i) # {}}
    IN  IF claimed = {} THEN {}
        ELSE {c.id : c \in {d \in Claims(Min(claimed)) :
                                \A o \in Claims(Min(claimed)) \ {d} : IdBefore(d.id, o.id)}}

-----------------------------------------------------------------------------
(* diffDependencies *)

PairedEntries == {e \in entries : e.before # {} /\ e.after # {}}

\* asHeadEndpoint, by headIdsByBaseId.
HeadIdOf(id) ==
    LET of == {e \in PairedEntries : \E b \in e.before : Id(b) = id}
    IN  IF of = {} THEN id ELSE Id(Representative(Sole(of)))

\* Mutant of AsHead: only the caller is read as the head names it.
AsHeadCaller(e) == [e EXCEPT !.from = HeadIdOf(@)]
AsHead(e) == [e EXCEPT !.from = HeadIdOf(@), !.to = HeadIdOf(@)]

Collides ==
    \E e, f \in input.edges.base : e # f /\ EdgeKey(AsHead(e)) = EdgeKey(AsHead(f))

NamesOn(side, file) == IF side = "base" THEN NamesInBase(file) ELSE NamesInHead(file)

\* lostCounterpart: the file under its own name, or the first of the names git says it has there.
LostCounterpart(side, file) ==
    LET lost == NamesOn(side, file) \cap LostOf(side)
    IN  CASE lost = {} -> {}
          [] file \in lost -> {file}
          [] OTHER -> {Min(lost)}

\* componentLostFiles.
ComponentLost(side, id) == {f \in LostOf(side) : id \in Owners(side, f)}

\* endpointsLostBy: the holder is the side that has the edge.
EndpointsLost(e, absent) ==
    ComponentLost(absent, e.from)
        \cup UNION {LostCounterpart(absent, s.file) :
                        s \in {t \in SymbolsOf(Other(absent)) : Id(t) \in {e.from, e.to}}}

KeptEdges ==
    {p \in input.edges.base \X input.edges.head : EdgeKey(AsHead(p[1])) = EdgeKey(p[2])}

DependencyDiff ==
    LET flipped == {p \in KeptEdges : p[1].direction # p[2].direction}
        gone == input.edges.base \ {p[1] : p \in KeptEdges}
        new == input.edges.head \ {p[2] : p \in KeptEdges}
        Unknown(S, absent) ==
            {[dependency |-> e, absentFrom |-> absent, lostFiles |-> EndpointsLost(e, absent)] :
                 e \in {d \in S : EndpointsLost(d, absent) # {}}}
    IN  [added   |-> {e \in new : EndpointsLost(e, "base") = {}} \cup {p[2] : p \in flipped},
         removed |-> {e \in gone : EndpointsLost(e, "head") = {}} \cup {p[1] : p \in flipped},
         unknown |-> Unknown(new, "base") \cup Unknown(gone, "head")]

Refuse ==
    /\ stage = "done" /\ built = "matching" /\ Collides
    /\ built' = "refused"
    /\ UNCHANGED <<vars, walk, diff>>

StatusOrder == <<"added", "changed", "dropped-toggled", "moved", "moved+changed", "removed", "unknown">>

\* The summary, as far as it counts Symbols the report lists.
Count(status) == Cardinality(OfStatus({status}))
Summary ==
    [status \in ToSet(StatusOrder) \cup {"duplicates"} |->
        IF status = "duplicates" THEN Cardinality({e \in entries : e.duplicateOf # {}}) ELSE Count(status)]

DiffDocuments ==
    /\ stage = "done" /\ built = "matching" /\ ~Collides
    /\ built' = "diffed"
    /\ diff' = [diff EXCEPT !.deltas = [e \in Changed |-> SymbolDelta(e)],
                            !.components = ComponentDiff,
                            !.dependencies = DependencyDiff,
                            !.summary = Summary]
    /\ UNCHANGED <<vars, walk>>

-----------------------------------------------------------------------------
(* computeSlices *)

Rank(status) == CHOOSE i \in DOMAIN StatusOrder : StatusOrder[i] = status

\* compareSymbolChange.
ChangeBefore(e, f) ==
    \/ Rank(e.status) < Rank(f.status)
    \/ e.status = f.status /\ IdBefore(Id(Representative(e)), Id(Representative(f)))

\* collectNodeIds: every entry but a moved one.
NodeEntries == {e \in entries : e.status # "moved"}
NodeIds ==
    LET sorted == SetToSortSeq(NodeEntries, ChangeBefore)
    IN  [i \in DOMAIN sorted |-> Id(Representative(sorted[i]))]

\* reconstructCallEdgesFromIR: the resolved calls of the document's own Symbols.
CallEdges(side) ==
    {<<e.from, e.to>> : e \in {d \in input.edges[side] : d.via = "call" /\ d.from \in IdsOf(side)}}

\* collectEdges.
SliceEdges ==
    LET ends == ToSet(NodeIds)
    IN  {p \in {<<HeadIdOf(e[1]), HeadIdOf(e[2])>> : e \in CallEdges("base")} \cup CallEdges("head") :
             p[1] \in ends /\ p[2] \in ends}

ComputeSlices ==
    /\ built = "diffed"
    /\ built' = "sliced"
    /\ diff' = [diff EXCEPT !.slices = WeaklyConnected(NodeIds, SliceEdges,
                                                     SetToSortSeq(ToSet(NodeIds), IdBefore))]
    /\ UNCHANGED <<vars, walk>>

DiffNext ==
    \/ MatchOrReport
    \/ WalkDropped
    \/ KeepWalked
    \/ DiffDocuments
    \/ Refuse
    \/ ComputeSlices

DiffSpec == DiffInit /\ [][DiffNext]_<<vars, walk, built, diff>>

-----------------------------------------------------------------------------
(* Properties *)

Progress == {"matching", "refused", "diffed", "sliced", "projected"}

\* Where the diff has its parts.
Built(step) == built \in Progress \ {"matching", "refused"} /\ (step = "sliced" => built # "diffed")

\* The walk is a way of taking the last stage's step: whatever order it goes in, the pairs it keeps
\* are a maximum set of those the keys identify, no two sharing a Symbol, and everything before and
\* after is a step of MatchStages or none of it: a dropped Symbol is left over only where a
\* competing pair needs its counterpart.
MatchesInStages == Spec

\* The delta of a pair takes, pass by pass, the best set of pairs that do not cross; the report
\* prints as a base's value only that of the element the delta paired it with; and a changed Symbol's
\* entry tells of each field exactly where the two documents differ in it.
DeltasAreTrue ==
    Built("diffed") =>
        \A e \in Changed :
            LET b == Facts("base", Sole(e.before))
                h == Facts("head", Sole(e.after))
            IN  /\ \A axis \in PairedAxes :
                       /\ PassesAreBest(b[axis], h[axis], Fuzz(axis))
                       /\ ReadingsAreTrue(b[axis], h[axis], Fuzz(axis))
                /\ \A s \in b.signature, t \in h.signature : InputReadingsAreTrue(s, t)
                /\ EveryChangeIsTold(diff.deltas[e], b, h)

\* A base's endpoint and a head's are one: the two ends of a pair, or one id no pair has.
Corresponds(x, y) ==
    LET of == {p \in pairs : Id(p.base) = x}
    IN  IF of = {} THEN x = y ELSE \E p \in of : Id(p.head) = y
SameEdge(b, h) == Corresponds(b.from, h.from) /\ Corresponds(b.to, h.to) /\ b.via = h.via

Unread(file, absent) ==
    file \in LostOf(absent) \/ \E r \in input.renames :
        IF absent = "head" THEN r[1] = file /\ r[2] \in LostOf(absent)
        ELSE r[2] = file /\ r[1] \in LostOf(absent)

\* The side without the edge did not read a file the edge may have been in.
Lost(e, absent) ==
    \/ \E s \in SymbolsOf(Other(absent)) : Id(s) \in {e.from, e.to} /\ Unread(s.file, absent)
    \/ \E f \in LostOf(absent) : e.from \in Owners(absent, f)

\* An edge has one counterpart at most. Without one it is called gone if nothing of it may have been
\* lost, and is unknown otherwise; with one it is called so only if it was flipped.
EdgeCounted(e, absent, same, called) ==
    LET unknown == {u \in diff.dependencies.unknown : u.dependency = e /\ u.absentFrom = absent}
    IN  /\ Cardinality(same) <= 1 /\ Cardinality(unknown) <= 1
        /\ e \in called <=> IF same = {} THEN ~Lost(e, absent)
                            ELSE \E f \in same : f.direction # e.direction
        /\ unknown # {} <=> same = {} /\ Lost(e, absent)

\* The census of the dependencies: each edge of either document is kept, removed or added, or
\* unknown, once; a flipped one is both removed and added. It is removed or added only against a
\* document that read the files its ends are in. The ids of two Symbols never come to be one, and
\* documents are refused only over an edge with an end that is no Symbol and no Component of its own.
EdgesAccounted ==
    /\ EndpointsStayApart
    /\ built = "refused" =>
           \E e \in input.edges.base : \E id \in {e.from, e.to} :
               id \notin IdsOf("base") \cup {c.id : c \in input.components.base}
    /\ Built("diffed") =>
           /\ \A e \in input.edges.base :
                  EdgeCounted(e, "head", {f \in input.edges.head : SameEdge(e, f)}, diff.dependencies.removed)
           /\ \A e \in input.edges.head :
                  EdgeCounted(e, "base", {f \in input.edges.base : SameEdge(f, e)}, diff.dependencies.added)

\* e's Symbol calls f's, in the base or in the head.
CallsIn(side, S, T) == \E s \in S, t \in T : <<Id(s), Id(t)>> \in CallEdges(side)
Joined(e, f) ==
    \/ CallsIn("base", e.before, f.before) \/ CallsIn("base", f.before, e.before)
    \/ CallsIn("head", e.after, f.after) \/ CallsIn("head", f.after, e.after)

EntryOf(id) == CHOOSE e \in NodeEntries : Id(Representative(e)) = id

\* A Slice is what calls join: each changed Symbol is in one Slice, a call of either document never
\* crosses from one Slice to another, and no Slice falls into two parts no call joins.
SlicesJoinCallers ==
    Built("sliced") =>
        LET members == [i \in DOMAIN diff.slices |-> ToSet(diff.slices[i])]
        IN  /\ UNION {members[i] : i \in DOMAIN members} = {Id(Representative(e)) : e \in NodeEntries}
            /\ \A i, j \in DOMAIN members : i # j =>
                   /\ members[i] \cap members[j] = {}
                   /\ \A x \in members[i], y \in members[j] : ~Joined(EntryOf(x), EntryOf(y))
            /\ \A i \in DOMAIN members : \A part \in SUBSET members[i] \ {{}, members[i]} :
                   \E x \in part, y \in members[i] \ part : Joined(EntryOf(x), EntryOf(y))
            /\ \A i \in DOMAIN members : \A j \in 2..Len(diff.slices[i]) :
                   IdBefore(diff.slices[i][j - 1], diff.slices[i][j])
=============================================================================
