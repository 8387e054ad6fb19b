------------------------------ MODULE SliceTrees -----------------------------
(***************************************************************************)
(* How a report draws a Slice as trees of calls, packages/                 *)
(* markdown-projection/src/diff/slice-view.ts. A Slice is a sequence of    *)
(* members; calls[m] is the sequence of members m calls, each with whether *)
(* only the base makes the call.                                           *)
(***************************************************************************)
EXTENDS Integers, Sequences, FiniteSets, SequencesExt

CONSTANT MAX_DEPTH   \* deeper than this, a chain of calls carries on from a new row

Callees(calls, id) == [i \in DOMAIN calls[id] |-> calls[id][i].id]

-----------------------------------------------------------------------------
(* strongComponents: Tarjan's, without recursion over the calls *)

\* The walk: what was visited in which order and how low it reaches, the visits still open, the
\* frames under way, and the components found.
Unvisited == [order |-> <<>>, low |-> <<>>, next |-> <<>>, open |-> <<>>, frames |-> <<>>,
              component |-> <<>>, components |-> 0]

\* Functions whose domain grows.
With(f, x, v) == [y \in DOMAIN f \cup {x} |-> IF y = x THEN v ELSE f[y]]

Enter(w, id) ==
    LET order == Cardinality(DOMAIN w.order)
    IN  [w EXCEPT !.order = With(@, id, order), !.low = With(@, id, order), !.next = With(@, id, 1),
                  !.open = Append(@, id), !.frames = Append(@, id)]

Lower(w, id, order) == [w EXCEPT !.low[id] = Min({@, order})]

\* The next callee of the frame under way.
Advance(w, id, to) ==
    LET v == [w EXCEPT !.next[id] = @ + 1]
    IN  CASE to \notin DOMAIN w.order -> Enter(v, to)
          [] to \in DOMAIN w.order \ DOMAIN w.component -> Lower(v, id, w.order[to])
          [] OTHER -> v

\* A member that reaches nothing visited before it closes a component: itself and what is open above.
Close(w, id) ==
    LET from == CHOOSE i \in DOMAIN w.open : w.open[i] = id
    IN  [w EXCEPT !.component =
             [x \in DOMAIN @ \cup {w.open[i] : i \in from..Len(w.open)} |->
                 IF x \in DOMAIN @ THEN @[x] ELSE w.components],
                  !.components = @ + 1,
                  !.open = SubSeq(@, 1, from - 1)]

\* Mutant of Leave: a frame's reach is not handed to the frame below it.
LeaveAlone(w, id) ==
    LET v == [w EXCEPT !.frames = Front(@)]
    IN  IF v.low[id] = v.order[id] THEN Close(v, id) ELSE v
Leave(w, id) ==
    LET v == [w EXCEPT !.frames = Front(@)]
        u == IF v.frames = <<>> THEN v ELSE Lower(v, Last(v.frames), v.low[id])
    IN  IF u.low[id] = u.order[id] THEN Close(u, id) ELSE u

\* One turn of the frame loop.
Turn(w, calls) ==
    LET id == Last(w.frames)
        callees == Callees(calls, id)
    IN  IF w.next[id] <= Len(callees) THEN Advance(w, id, callees[w.next[id]]) ELSE Leave(w, id)

\* Each call is looked at once, and each member left once.
CallCount(calls) == MapThenSumSet(LAMBDA m : Len(calls[m]), DOMAIN calls)
Turns(calls) == CallCount(calls) + Cardinality(DOMAIN calls)

Walk(w, calls) ==
    LET after[n \in 0..Turns(calls)] ==
            IF n = 0 THEN w
            ELSE LET v == after[n - 1] IN IF v.frames = <<>> THEN v ELSE Turn(v, calls)
    IN  after[Turns(calls)]

StrongComponents(members, calls) ==
    FoldLeft(LAMBDA w, root : IF root \in DOMAIN w.order THEN w ELSE Walk(Enter(w, root), calls),
             Unvisited, members).component

-----------------------------------------------------------------------------
(* treeStarts and draw *)

\* The first member of each component that no member outside it calls.
TreeStarts(members, calls) ==
    LET component == StrongComponents(members, calls)
        entered == {component[to] : to \in
                       UNION {{t \in ToSet(Callees(calls, m)) : component[t] # component[m]} :
                                  m \in ToSet(members)}}
        Opens(i) == /\ component[members[i]] \notin entered
                    /\ \A j \in 1..(i - 1) : component[members[j]] # component[members[i]]
    IN  [i \in 1..Cardinality({i \in DOMAIN members : Opens(i)}) |->
            members[SetToSortSeq({j \in DOMAIN members : Opens(j)}, <)[i]]]

\* A row: the member, the one whose call it stands under, its depth, whether the call is gone, and
\* how it reads, in full, as shown above, or as one whose calls carry on here.
Row(id, under, depth, removed, reads) ==
    [id |-> id, under |-> under, depth |-> depth, removed |-> removed, reads |-> reads]

NoCaller == <<>>
Drawing == [rows |-> <<>>, shown |-> {}, todo |-> <<>>, resumed |-> <<>>]

\* A call of draw that is still to come.
ToDraw(id, under, depth, removed) == [id |-> id, under |-> under, depth |-> depth, removed |-> removed]
CalleesToDraw(calls, id, depth) ==
    [i \in DOMAIN calls[id] |-> ToDraw(calls[id][i].id, id, depth, calls[id][i].removed)]

\* draw: its callees come before what was still to draw.
Draw(d, calls) ==
    LET t == Head(d.todo)
        above == t.id \in d.shown
        tooDeep == t.depth = MAX_DEPTH /\ \E c \in ToSet(Callees(calls, t.id)) : c \notin d.shown \cup {t.id}
    IN  [rows |-> Append(d.rows, Row(t.id, t.under, t.depth, t.removed, IF above THEN "above" ELSE "full")),
         shown |-> d.shown \cup {t.id},
         todo |-> (IF above \/ tooDeep THEN <<>> ELSE CalleesToDraw(calls, t.id, t.depth + 1)) \o Tail(d.todo),
         resumed |-> IF ~above /\ tooDeep THEN Append(d.resumed, t.id) ELSE d.resumed]

\* A chain too deep to draw where it is, and one too deep again further down the list.
Resume(d, calls) ==
    LET id == Head(d.resumed)
    IN  [d EXCEPT !.rows = Append(@, Row(id, NoCaller, 0, FALSE, "continued")),
                  !.todo = CalleesToDraw(calls, id, 1),
                  !.resumed = Tail(@)]

DrawNext(d, calls) ==
    IF d.todo # <<>> THEN Draw(d, calls) ELSE IF d.resumed # <<>> THEN Resume(d, calls) ELSE d

\* A tree: a row for its start and for each call, and one for each chain carried on.
DrawTree(d, start, calls) ==
    LET rows == 1 + CallCount(calls) + Cardinality(DOMAIN calls)
        after[n \in 0..rows] ==
            IF n = 0 THEN [d EXCEPT !.todo = <<ToDraw(start, NoCaller, 0, FALSE)>>]
            ELSE DrawNext(after[n - 1], calls)
    IN  after[rows]

DrawTrees(members, calls) ==
    FoldLeft(LAMBDA d, start : DrawTree(d, start, calls), Drawing, TreeStarts(members, calls))

-----------------------------------------------------------------------------
(* What is promised of the trees *)

RowsOf(d, Test(_)) == {i \in DOMAIN d.rows : Test(d.rows[i])}

\* Each member is described in one row, each call between members stands in one row under its
\* caller, and no row is deeper than the depth a list reads as a tree at, but for one naming what
\* stands above it.
DrawnOnce(members, calls, d) ==
    /\ \A m \in ToSet(members) :
           Cardinality(RowsOf(d, LAMBDA r : r.id = m /\ r.reads = "full")) = 1
    /\ \A m \in ToSet(members) : \A i \in DOMAIN calls[m] :
           Cardinality(RowsOf(d, LAMBDA r : /\ r.under = m /\ r.id = calls[m][i].id
                                            /\ r.removed = calls[m][i].removed)) = 1
    /\ Cardinality(RowsOf(d, LAMBDA r : r.under # NoCaller))
           = MapThenSumSet(LAMBDA m : Len(calls[m]), ToSet(members))
    /\ \A i \in DOMAIN d.rows :
           d.rows[i].depth <= IF d.rows[i].reads = "above" THEN MAX_DEPTH + 1 ELSE MAX_DEPTH
=============================================================================
