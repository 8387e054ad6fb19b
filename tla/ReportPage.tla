------------------------------ MODULE ReportPage ------------------------------
(***************************************************************************)
(* The report a diff is written as (packages/markdown-projection/src/diff: *)
(* index.ts, partition.ts, test-files.ts, slice-view.ts) and the gate that *)
(* reads the same diff (packages/cli/src/fail-on.ts, and the fail-on.ts of *)
(* markdown-projection, which reads the summary).                          *)
(*                                                                         *)
(* What a section's text says is left out: a section is the changes and    *)
(* the edges it lists, and what it takes in bytes is an input.             *)
(***************************************************************************)
EXTENDS DiffReport, SliceTrees, SizeCap

CONSTANTS
    TestFiles,   \* the files the head's configuration marks as tests
    PageSizes    \* what the sections may take in bytes, and the cap, by the input's page

VARIABLE page        \* the report, Blank until it is projected

diffVars == <<vars, walk, built, diff>>
reportVars == <<diffVars, page>>

Blank == <<>>
ReportInit == DiffInit /\ page = Blank

-----------------------------------------------------------------------------
(* partition *)

\* inTestFile: the head's mark, where the entry has a head.
InTestFile(e) == Representative(e).file \in TestFiles

\* Mutant of AxisOf: confidence is taken for a part of the syntax.
AxisOfThree(e) ==
    LET moved == diff.deltas[e]
    IN  CASE moved.apiChanged -> "api"
          [] moved.logicChanged /\ ~moved.apiChanged -> "logic"
          [] moved.syntaxChanged /\ ~moved.apiChanged /\ ~moved.logicChanged -> "syntax"
          [] OTHER -> "nowhere"

\* routeChanged: the first of the axes that moved. A change on none of them is listed nowhere.
AxisOf(e) ==
    LET moved == diff.deltas[e]
    IN  CASE moved.apiChanged -> "api"
          [] moved.logicChanged /\ ~moved.apiChanged -> "logic"
          [] moved.confidenceChanged /\ ~moved.apiChanged /\ ~moved.logicChanged -> "confidence"
          [] moved.syntaxChanged
                 /\ ~moved.apiChanged /\ ~moved.logicChanged /\ ~moved.confidenceChanged -> "syntax"
          [] OTHER -> "nowhere"

OnAxis(E, axis) == {e \in E : e \in Changed /\ AxisOf(e) = axis}
Having(E, status) == {e \in E : e.status = status}

Partition(E) ==
    [api |-> OnAxis(E, "api"), logic |-> OnAxis(E, "logic"),
     confidence |-> OnAxis(E, "confidence"), syntax |-> OnAxis(E, "syntax"),
     added |-> Having(E, "added"), removed |-> Having(E, "removed"),
     unknown |-> Having(E, "unknown"), movedChanged |-> Having(E, "moved+changed"),
     moved |-> Having(E, "moved"), dropped |-> Having(E, "dropped-toggled")]

-----------------------------------------------------------------------------
(* splitDependencies and renderTestFiles *)

TestChanges == {e \in entries : InTestFile(e)}
Callers == {Id(s) : s \in UNION {e.before \cup e.after : e \in TestChanges}}
InTests(edge) == edge.from \in Callers

\* Moved + Changed lists a moved pair whole, so the groups of the fold take only what stayed.
Stayed(E) == Having(E, "changed")

FoldGroups ==
    LET buckets == Partition(TestChanges)
    IN  [buckets EXCEPT !.api = Stayed(@), !.logic = Stayed(@),
                        !.confidence = Stayed(@), !.syntax = Stayed(@)]
FoldEdges ==
    [added |-> {e \in diff.dependencies.added : InTests(e)},
     removed |-> {e \in diff.dependencies.removed : InTests(e)}]

KeptEdgeRows ==
    [diff.dependencies EXCEPT !.added = @ \ FoldEdges.added, !.removed = @ \ FoldEdges.removed]

-----------------------------------------------------------------------------
(* renderSliceView *)

\* resolvedCallSites: a base's call is named as the head names its ends, and is gone where the
\* caller is in the head and does not make it. A call's line is the place of its callee's id.
BaseCallees(e) == {HeadIdOf(c[2]) : c \in {d \in CallEdges("base") : d[1] \in {Id(b) : b \in e.before}}}
HeadCallees(e) == {c[2] : c \in {d \in CallEdges("head") : d[1] \in {Id(h) : h \in e.after}}}

Callee(id, removed) == [id |-> id, removed |-> removed]
SiteBefore(x, y) ==
    (~x.removed /\ y.removed) \/ (x.removed = y.removed /\ IdBefore(x.id, y.id))

CalleesIn(members, id) ==
    LET e == EntryOf(id)
        shown == (ToSet(members) \ {id})
    IN  SetToSortSeq({Callee(to, FALSE) : to \in HeadCallees(e) \cap shown} \cup
                     {Callee(to, e.after # {}) : to \in (BaseCallees(e) \ HeadCallees(e)) \cap shown},
                     SiteBefore)

Tree(members) ==
    LET calls == [id \in ToSet(members) |-> CalleesIn(members, id)]
    IN  [members |-> members, calls |-> calls, drawing |-> DrawTrees(members, calls)]

\* A Slice all of whose members are in test files is left to the fold.
SlicesShown ==
    LET testIds == {Id(Representative(e)) : e \in TestChanges}
    IN  {slice \in ToSet(diff.slices) : ~ToSet(slice) \subseteq testIds}

SliceView ==
    [trees |-> {Tree(s) : s \in {t \in SlicesShown : Len(t) > 1}},
     standalone |-> {Head(s) : s \in {t \in SlicesShown : Len(t) = 1}}]

-----------------------------------------------------------------------------
(* projectDiff *)

\* filesNeitherSideRead.
NotCompared ==
    {p \in LostOf("base") \X LostOf("head") : p[2] \in NamesInHead(p[1])}

SectionOrder ==
    <<"api", "logic", "slices", "added", "removed", "unknown", "notCompared", "movedChanged", "moved",
      "components", "dependencies", "dropped", "confidence", "syntax", "tests">>

\* The sections that can be shown as names only.
Indexed == {"api", "logic", "added", "removed", "unknown", "movedChanged", "confidence"}

\* Whether a section has a body: one without is left out.
HasBody(name, listed) ==
    CASE name = "slices" -> SlicesShown # {}
      [] name = "notCompared" -> NotCompared # {}
      [] name = "components" -> \E part \in DOMAIN diff.components : diff.components[part] # {}
      [] name = "dependencies" -> \E part \in DOMAIN KeptEdgeRows : KeptEdgeRows[part] # {}
      [] name = "tests" -> TestChanges # {}
      [] OTHER -> listed[name] # {}

\* The sections that have a body, as the size cap sees them.
PageOf(sizes, listed) ==
    LET names == SelectSeq(SectionOrder, LAMBDA name : HasBody(name, listed))
        SizeOf(name) == LET s == sizes.of[name]
                        IN  Section(s.whole, IF name \in Indexed THEN s.names ELSE s.whole, s.title)
    IN  [sections |-> [i \in DOMAIN names |-> SizeOf(names[i])],
         heading |-> sizes.heading, note |-> sizes.note, cap |-> sizes.cap]

ProjectDiff ==
    /\ built = "sliced"
    /\ built' = "projected"
    /\ \E sizes \in PageSizes[input.page] :
           LET listed == Partition(entries \ TestChanges)
               whole == PageOf(sizes, listed)
           IN  page' = [listed |-> listed, fold |-> FoldGroups, foldEdges |-> FoldEdges,
                        edges |-> KeptEdgeRows, slices |-> SliceView,
                        whole |-> whole, forms |-> Assemble(whole)]
    /\ UNCHANGED <<vars, walk, diff>>

ReportNext ==
    \/ DiffNext /\ UNCHANGED page
    \/ ProjectDiff

ReportSpec == ReportInit /\ [][ReportNext]_reportVars

-----------------------------------------------------------------------------
(* The gate *)

Statuses == {"added", "removed", "changed", "moved", "moved+changed", "dropped-toggled", "unknown"}
Tokens ==
    Statuses \cup {"removed:duplicate", "dropped-toggled:to-dropped", "dropped-toggled:to-kept",
                   "api-changed", "logic-changed", "syntax-changed", "confidence-changed"}
Scopes == {"all", "non-test"}

\* counts.
Counts(token, e) ==
    CASE token = "removed" -> e.status = "removed" /\ e.duplicateOf = {}
      [] token = "removed:duplicate" -> e.status = "removed" /\ e.duplicateOf # {}
      [] token = "dropped-toggled:to-dropped" ->
             e.status = "dropped-toggled" /\ Representative(e).dropped
      [] token = "dropped-toggled:to-kept" ->
             e.status = "dropped-toggled" /\ ~Representative(e).dropped
      [] token = "api-changed" -> e \in Changed /\ diff.deltas[e].apiChanged
      [] token = "logic-changed" -> e \in Changed /\ diff.deltas[e].logicChanged
      [] token = "syntax-changed" -> e \in Changed /\ diff.deltas[e].syntaxChanged
      [] token = "confidence-changed" -> e \in Changed /\ diff.deltas[e].confidenceChanged
      [] OTHER -> e.status = token

\* evaluateFailOn: the changes a scope takes in.
InScope(scope, e) == scope = "all" \/ ~InTestFile(e)

CountedIds(token, scope) ==
    {Id(Representative(e)) : e \in {d \in entries : InScope(scope, d) /\ Counts(token, d)}}

\* observedCount: the same gate from the summary alone.
ObservedCount(status) ==
    CASE status = "removed" -> diff.summary.removed - diff.summary.duplicates
      [] status = "removed:duplicate" -> diff.summary.duplicates
      [] OTHER -> diff.summary[status]

-----------------------------------------------------------------------------
(* Properties *)

Projected == built = "projected"

\* The Slice View draws what joins the changes: each call of either document between two changed
\* Symbols of which one is outside test files stands in one row under its caller, read as gone only
\* where the caller is in the head and calls it no more; each member is described once, however
\* deep the chain that leads to it and whatever cycle it is in. The Slices it draws are what calls
\* join, no more and no less.
SlicesDrawnWhole ==
  /\ SlicesJoinCallers
  /\ Projected =>
        LET outside == {e \in NodeEntries : ~InTestFile(e)}
            Members(t) == {EntryOf(id) : id \in ToSet(t.members)}
            Of(e, f) == {t \in page.slices.trees : {e, f} \subseteq Members(t)}
        IN  /\ \A t \in page.slices.trees : DrawnOnce(t.members, t.calls, t.drawing)
            /\ \A e \in outside :
                   \/ Id(Representative(e)) \in page.slices.standalone
                   \/ \E t \in page.slices.trees : e \in Members(t)
            /\ \A e \in NodeEntries, f \in NodeEntries :
                   /\ e # f /\ {e, f} \cap outside # {}
                   /\ CallsIn("base", e.before, f.before) \/ CallsIn("head", e.after, f.after)
                   => \E t \in Of(e, f) : \E r \in ToSet(t.drawing.rows) :
                          /\ r.under = Id(Representative(e)) /\ r.id = Id(Representative(f))
                          /\ r.removed <=> e.after # {} /\ ~CallsIn("head", e.after, f.after)

\* The size cap: a report is over it only where nothing at all fits, no section it leaves out
\* would fit back in either form, and no list is whole below one cut to names only.
CapHonoured ==
    Projected => /\ WithinCap(page.whole, page.forms)
                 /\ NothingFitsBack(page.whole, page.forms)
                 /\ InOrder(page.whole, page.forms)

\* Where the report lists an entry above the fold, and in it.
SectionsListing(e) == {name \in DOMAIN page.listed : e \in page.listed[name]}
GroupsListing(e) == {name \in DOMAIN page.fold : e \in page.fold[name]}

\* The report and the gates are of one mind. Each change is listed above the fold or in it: on
\* whatever axis classifyStatus finds a change of content, routeChanged has a section for it. It is
\* listed once, but that a moved Symbol that also changed is listed above the fold as both. What a gate outside
\* test files counts is listed above the fold under the id the gate names, what it passes over is
\* in the fold, and the gate that reads the summary counts as the one that reads the changes.
ListedAndGated ==
    Projected =>
        /\ \A e \in entries :
               /\ Cardinality(SectionsListing(e)) =
                      IF InTestFile(e) THEN 0 ELSE IF e.status = "moved+changed" THEN 2 ELSE 1
               /\ Cardinality(GroupsListing(e)) = IF InTestFile(e) THEN 1 ELSE 0
        /\ \A token \in Tokens :
               /\ CountedIds(token, "non-test") =
                      {Id(Representative(e)) :
                           e \in {d \in UNION {page.listed[n] : n \in DOMAIN page.listed} : Counts(token, d)}}
               /\ CountedIds(token, "all") \ CountedIds(token, "non-test") =
                      {Id(Representative(e)) :
                           e \in {d \in UNION {page.fold[n] : n \in DOMAIN page.fold} : Counts(token, d)}}
        /\ \A status \in (Statuses \cup {"removed:duplicate"}) :
               ObservedCount(status) = Cardinality(CountedIds(status, "all"))

\* What splitDependencies takes for granted: a call edge that comes or goes moves its caller's
\* calls, so a caller in a test file is one of the changes, and the edge goes to the fold with it.
CallersAreChanges ==
    built \in {"diffed", "sliced", "projected"} =>
        \A e \in diff.dependencies.added \cup diff.dependencies.removed :
            e.via = "call" /\ e.from[1] \in TestFiles =>
                \E c \in entries : \E s \in c.before \cup c.after : Id(s) = e.from
=============================================================================
