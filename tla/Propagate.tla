------------------------------ MODULE Propagate ------------------------------
(***************************************************************************)
(* Effect propagation over the call graph (packages/core/src/propagate.ts  *)
(* and propagate-graph.ts): strongly connected components are swept        *)
(* callees first. Inside a component a worklist raises each caller's       *)
(* confidence until nothing rises; beside it, one aggregate per component  *)
(* records which rule an effect is attributed to. Effect keys do not       *)
(* interact, so one key is followed.                                       *)
(*                                                                         *)
(* Which ready component is swept next (the code takes the smallest index) *)
(* and which worklist entry is popped (the code takes the last) are left   *)
(* open: the properties say the answer does not depend on them.            *)
(***************************************************************************)
EXTENDS Integers, FiniteSets

CONSTANTS
    Nodes,   \* the Symbols
    RuleOf,  \* RuleOf[n]: derivedBy of n's local effect, ordered as integers
    Inputs   \* the call graphs and local effects to propagate

\* CONFIDENCE: none, low, medium, high.
Levels == 0..3

ASSUME NodesAssumption == IsFiniteSet(Nodes)
ASSUME RuleAssumption == RuleOf \in [Nodes -> Nat \ {0}]
ASSUME InputsAssumption ==
    Inputs \subseteq [edges: SUBSET (Nodes \X Nodes \X (1..3)), local: [Nodes -> Levels]]

VARIABLES
    input,    \* the CallEdges and each Symbol's local effect, of confidence 0 if it has none
    reached,  \* confidenceByNode
    swept,    \* the nodes whose component is done
    current,  \* the component under way, {} between two
    pending,  \* its worklist
    agg       \* aggregateBySccIdx, by member: the rule attributed, 0 without an entry

vars == <<input, reached, swept, current, pending, agg>>

\* maxConfidence over a set of levels, and minConfidence.
Sup(S) == IF 3 \in S THEN 3 ELSE IF 2 \in S THEN 2 ELSE IF 1 \in S THEN 1 ELSE 0
Inf(a, b) == IF a <= b THEN a ELSE b

\* buildAdjacency: duplicate edges keep the highest confidence.
EdgeConfidence(n, m) == Sup({c \in 1..3 : <<n, m, c>> \in input.edges})
Callees(n) == {m \in Nodes : EdgeConfidence(n, m) > 0}

\* The components, as tarjanSCC finds them: two nodes are in the same one when they are in
\* the same sets closed under calls, that is, when each reaches the other.
ClosedSets == {S \in SUBSET Nodes : \A e \in input.edges : e[1] \in S => e[2] \in S}
Reaches(n, m) == \A S \in ClosedSets : n \in S => m \in S
Components ==
    LET closed == ClosedSets
    IN  {{m \in Nodes : \A S \in closed : n \in S <=> m \in S} : n \in Nodes}

\* condense's outSccs, as nodes.
OutOf(S) == {m \in Nodes \ S : \E n \in S : m \in Callees(n)}

Init ==
    /\ input \in Inputs
    /\ reached = [n \in Nodes |-> 0]
    /\ swept = {} /\ current = {} /\ pending = {}
    /\ agg = [n \in Nodes |-> 0]

\* Mutants of Offer and Ready: the edge's confidence does not limit what it carries; a
\* component is swept before its callees.
OfferUnlimited(n, m) == IF EdgeConfidence(n, m) > 0 THEN reached[m] ELSE 0
ReadyAtOnce(S) == S \cap swept = {}

\* What a call from n to m carries up.
Offer(n, m) == Inf(EdgeConfidence(n, m), reached[m])

\* reverseTopoOrder: every component below S is done.
Ready(S) == S \cap swept = {} /\ OutOf(S) \subseteq swept

\* Mutant of Requeue: a caller raised a second time is not queued again.
RequeueNever(S) == {}
Requeue(S) == S

\* Mutant of Rises: an equal offer counts as a rise.
RisesOrEquals(n, m) == Offer(n, m) >= reached[n] /\ Offer(n, m) > 0

\* raise: only a higher confidence replaces the one held.
Rises(n, m) == Offer(n, m) > reached[n]

\* callersWithinScc: who may call m from the component under way.
CallersWithin(m) == current \ {m}

\* A component's members start at their local effect and what callees outside it carry up.
Sweep(S) ==
    /\ current = {} /\ Ready(S)
    /\ current' = S
    /\ reached' = [n \in Nodes |->
         IF n \in S THEN Sup({input.local[n]} \cup {Offer(n, m) : m \in Nodes \ S})
                    ELSE reached[n]]
    /\ pending' = IF Cardinality(S) > 1 THEN {n \in S : reached'[n] > 0} ELSE {}
    /\ UNCHANGED <<input, swept, agg>>

\* settleWithinScc: one worklist entry. A caller whose confidence rises is queued.
Settle(m) ==
    /\ m \in pending
    /\ LET raised == {n \in CallersWithin(m) : Rises(n, m)}
       IN  /\ reached' = [n \in Nodes |-> IF n \in raised THEN Offer(n, m) ELSE reached[n]]
           /\ pending' = (pending \ {m}) \cup Requeue(raised)
    /\ UNCHANGED <<input, swept, current, agg>>

Least(R) == IF R = {} THEN 0 ELSE CHOOSE r \in R : \A q \in R : r <= q
LocalRules(S) == {RuleOf[n] : n \in {m \in S : input.local[m] > 0}}
DownstreamRules(S) == {agg[m] : m \in OutOf(S)} \ {0}

\* The aggregate of a component: its own members' first rule, else the first one below it.
Attribution(S) ==
    IF LocalRules(S) # {} THEN Least(LocalRules(S)) ELSE Least(DownstreamRules(S))

\* The worklist is empty: the component is done.
Close ==
    /\ current # {} /\ pending = {}
    /\ swept' = swept \cup current
    /\ current' = {}
    /\ agg' = [n \in Nodes |-> IF n \in current THEN Attribution(current) ELSE agg[n]]
    /\ UNCHANGED <<input, reached, pending>>

Next ==
    \/ \E S \in Components : Sweep(S)
    \/ \E m \in Nodes : Settle(m)
    \/ Close

Spec == Init /\ [][Next]_vars /\ WF_vars(Next)

-----------------------------------------------------------------------------
(* The result *)

Done == swept = Nodes

\* A Symbol's propagated entry: the callees it comes from. It has none for its own effect.
DerivedFrom(n) == {m \in Callees(n) : agg[m] # 0}
Emitted(n) == agg[n] # 0 /\ input.local[n] = 0 /\ DerivedFrom(n) # {}

-----------------------------------------------------------------------------
(* Properties *)

\* Types; at most one component is under way and it is not swept yet.
TypeOK ==
    /\ input \in Inputs
    /\ reached \in [Nodes -> Levels]
    /\ swept \in SUBSET Nodes /\ current \in SUBSET Nodes /\ pending \in SUBSET current
    /\ current \cap swept = {}
    /\ agg \in [Nodes -> Nat]

\* f satisfies the propagation equations from above: no local effect and no CallEdge offers more.
ClosedConfidence(f) ==
    /\ \A n \in Nodes : input.local[n] <= f[n]
    /\ \A e \in input.edges : Inf(e[3], f[e[2]]) <= f[e[1]]

\* No Symbol is ever given more confidence than the calls justify: reached lies below every
\* solution of the equations, at every step of the sweep and in whatever order it goes.
NeverOverstated ==
    \A f \in [Nodes -> Levels] :
        ClosedConfidence(f) => \A n \in Nodes : reached[n] <= f[n]

\* Nor less: once all components are swept, nothing can be raised any more. With
\* NeverOverstated, the result is the least solution, whatever the order.
NothingLeftToRaise == TypeOK /\ (Done => ClosedConfidence(reached))

\* The worklist's confidences and the components' aggregates are computed apart and agree: an
\* entry is emitted exactly for the Symbols that reach the effect through a call, so the
\* "reached at no confidence" failure is never hit and no reached effect is lost. The rule an
\* entry names is that of an effect the Symbol reaches; when a member of its own recursion has
\* the effect, it is one of theirs.
EmittedWhereReached ==
    \A n \in Nodes :
      /\ input.local[n] = 0 => (Emitted(n) <=> reached[n] > 0)
      /\ Emitted(n) =>
           LET own == LocalRules(CHOOSE S \in Components : n \in S)
           IN  IF own # {} THEN agg[n] \in own
               ELSE \E m \in Nodes : Reaches(n, m) /\ input.local[m] > 0 /\ agg[n] = RuleOf[m]

\* Propagation ends, cycles included, with every Symbol swept, and each effect has come to the
\* surface: an entry is emitted just where it is reached.
EffectsSurface == <>[](Done /\ EmittedWhereReached)
=============================================================================
