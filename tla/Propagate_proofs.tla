-------------------------- MODULE Propagate_proofs ---------------------------
(***************************************************************************)
(* Proofs about Propagate, for every call graph, every set of Symbols and  *)
(* every order of the sweep and the worklist: the confidences it computes  *)
(* are the least solution of the propagation equations.                    *)
(***************************************************************************)
EXTENDS Propagate, WellFoundedInduction, FiniteSetTheorems, TLAPS

-----------------------------------------------------------------------------
(* Confidence levels *)

\* maxConfidence bounds every confidence it is taken of, and is the least that does.
LEMMA SupBounds ==
    ASSUME NEW S, S \subseteq Levels
    PROVE  /\ Sup(S) \in Levels
           /\ \A c \in S : c <= Sup(S)
           /\ \A u \in Levels : (\A c \in S : c <= u) => Sup(S) <= u
BY DEF Sup, Levels

\* minConfidence stays within the levels, rises with what is carried, never exceeds it,
\* and carries nothing over an edge that is not there.
LEMMA InfFacts ==
    ASSUME NEW a \in Levels, NEW b \in Levels, NEW c \in Levels
    PROVE  /\ Inf(a, b) \in Levels
           /\ Inf(a, b) <= b
           /\ b <= c => Inf(a, b) <= Inf(a, c)
           /\ c <= a => Inf(c, b) <= Inf(a, b)
           /\ Inf(0, b) = 0
BY DEF Inf, Levels

\* What buildAdjacency keeps of the CallEdges from n to m: a level no less than any of them,
\* and, when it is not 0, the level of one of them.
LEMMA EdgeFacts ==
    ASSUME InputsAssumption, input \in Inputs, NEW n \in Nodes, NEW m \in Nodes
    PROVE  /\ EdgeConfidence(n, m) \in Levels
           /\ EdgeConfidence(n, m) # 0 => <<n, m, EdgeConfidence(n, m)>> \in input.edges
           /\ \A c \in 1..3 : <<n, m, c>> \in input.edges => c <= EdgeConfidence(n, m)
<1> DEFINE S == {c \in 1..3 : <<n, m, c>> \in input.edges}
<1>1. S \subseteq Levels
  BY DEF Levels
<1>2. Sup(S) \in Levels /\ \A c \in S : c <= Sup(S)
  BY <1>1, SupBounds
<1>3. Sup(S) # 0 => Sup(S) \in S
  BY DEF Sup
<1> QED
  BY <1>2, <1>3 DEF EdgeConfidence

\* The least rule of a set of rules is one of them.
LEMMA LeastFacts ==
    ASSUME NEW R, R \subseteq Nat, R # {}
    PROVE  Least(R) \in R
<1>1. PICK r \in R : \A q \in R : ~ (<<q, r>> \in OpToRel(<, Nat))
  BY NatLessThanWellFounded, WFMin
<1>2. \A q \in R : ~ (q < r)
  BY <1>1, Zenon DEF OpToRel
<1>3. \A q \in R : r <= q
  BY <1>2
<1> QED
  BY <1>3 DEF Least

-----------------------------------------------------------------------------
(* Types *)

LEMMA InputType ==
    ASSUME InputsAssumption, input \in Inputs
    PROVE  /\ input.edges \subseteq Nodes \X Nodes \X (1..3)
           /\ input.local \in [Nodes -> Levels]
BY DEF InputsAssumption

\* A component is a set of nodes.
LEMMA ComponentsType == \A S \in Components : S \subseteq Nodes
BY DEF Components

LEMMA OfferType ==
    ASSUME TypeOK, InputsAssumption, NEW n \in Nodes, NEW m \in Nodes
    PROVE  Offer(n, m) \in Levels
BY EdgeFacts, InfFacts DEF TypeOK, Offer

\* What a node starts its sweep at.
LEMMA StartType ==
    ASSUME TypeOK, InputsAssumption, NEW n \in Nodes, NEW S
    PROVE  {input.local[n]} \cup {Offer(n, m) : m \in Nodes \ S} \subseteq Levels
BY InputType, OfferType DEF TypeOK

LEMMA AttributionType ==
    ASSUME TypeOK, RuleAssumption, NEW S, S \subseteq Nodes
    PROVE  Attribution(S) \in Nat
<1>1. LocalRules(S) \subseteq Nat
  BY DEF LocalRules, RuleAssumption
<1>2. OutOf(S) \subseteq Nodes
  BY DEF OutOf, Callees
<1>3. DownstreamRules(S) \subseteq Nat
  BY <1>2 DEF DownstreamRules, TypeOK
<1>4. \A R : R \subseteq Nat => Least(R) \in Nat
  BY LeastFacts DEF Least
<1> QED
  BY <1>1, <1>3, <1>4 DEF Attribution

\* Type correctness: in particular a worklist never holds a node outside its component, and a
\* component under way was not swept before.
THEOREM TypeCorrect == Spec => []TypeOK
<1> USE InputsAssumption, RuleAssumption
<1>1. Init => TypeOK
  BY DEF Init, TypeOK, Levels
<1>2. TypeOK /\ [Next]_vars => TypeOK'
  <2> SUFFICES ASSUME TypeOK, [Next]_vars PROVE TypeOK'
    OBVIOUS
  <2>1. CASE \E S \in Components : Sweep(S)
    <3> PICK S \in Components : Sweep(S)
      BY <2>1
    <3>1. S \subseteq Nodes
      BY ComponentsType
    <3>2. reached' \in [Nodes -> Levels]
      <4>1. \A n \in Nodes : Sup({input.local[n]} \cup {Offer(n, m) : m \in Nodes \ S}) \in Levels
        BY StartType, SupBounds
      <4> QED
        BY <4>1 DEF Sweep, TypeOK
    <3> QED
      BY <3>1, <3>2 DEF Sweep, Ready, TypeOK
  <2>2. CASE \E m \in Nodes : Settle(m)
    <3> PICK m \in Nodes : Settle(m)
      BY <2>2
    <3>1. reached' \in [Nodes -> Levels]
      BY OfferType DEF Settle, TypeOK
    <3> QED
      BY <3>1 DEF Settle, Requeue, CallersWithin, TypeOK
  <2>3. CASE Close
    <3>1. Attribution(current) \in Nat
      BY AttributionType DEF TypeOK
    <3> QED
      BY <2>3, <3>1 DEF Close, TypeOK
  <2>4. CASE UNCHANGED vars
    BY <2>4 DEF vars, TypeOK
  <2> QED
    BY <2>1, <2>2, <2>3, <2>4 DEF Next
<1> QED
  BY <1>1, <1>2, PTL DEF Spec

-----------------------------------------------------------------------------
(* Never more than the calls justify *)

\* Under a solution f, no call offers a node more than f gives it.
LEMMA OfferBelow ==
    ASSUME TypeOK, InputsAssumption, NEW f \in [Nodes -> Levels], ClosedConfidence(f),
           \A k \in Nodes : reached[k] <= f[k],
           NEW n \in Nodes, NEW m \in Nodes
    PROVE  Offer(n, m) <= f[n]
<1> DEFINE c == EdgeConfidence(n, m)
<1>1. c \in Levels /\ reached[m] \in Levels /\ f[m] \in Levels /\ f[n] \in Levels
  BY EdgeFacts DEF TypeOK
<1>2. Inf(c, reached[m]) <= Inf(c, f[m])
  BY <1>1, InfFacts
<1>3. CASE c = 0
  BY <1>1, <1>3, InfFacts DEF Offer, Levels
<1>4. CASE c # 0
  <2>1. <<n, m, c>> \in input.edges
    BY <1>4, EdgeFacts DEF TypeOK
  <2>2. Inf(c, f[m]) <= f[n]
    BY <2>1 DEF ClosedConfidence
  <2> QED
    BY <1>1, <1>2, <2>2, InfFacts DEF Offer, Levels
<1> QED
  BY <1>3, <1>4

\* No Symbol is given more confidence than the calls justify, whatever the order of the sweep.
THEOREM NeverOverstatedHolds == Spec => []NeverOverstated
<1> USE InputsAssumption, RuleAssumption
<1>1. Init => NeverOverstated
  BY DEF Init, NeverOverstated, Levels
<1>2. TypeOK /\ TypeOK' /\ NeverOverstated /\ [Next]_vars => NeverOverstated'
  <2> SUFFICES ASSUME TypeOK, TypeOK', NeverOverstated, [Next]_vars,
                      NEW f \in [Nodes -> Levels], ClosedConfidence(f)'
               PROVE  (\A n \in Nodes : reached[n] <= f[n])'
    BY DEF NeverOverstated
  <2>0. input' = input
    BY DEF Next, Sweep, Settle, Close, vars
  <2>1. ClosedConfidence(f)
    BY <2>0 DEF ClosedConfidence
  <2>2. \A n \in Nodes : reached[n] <= f[n]
    BY <2>1 DEF NeverOverstated
  <2>3. \A n, m \in Nodes : Offer(n, m) <= f[n]
    BY <2>1, <2>2, OfferBelow
  <2>4. CASE \E S \in Components : Sweep(S)
    <3> PICK S \in Components : Sweep(S)
      BY <2>4
    <3> SUFFICES ASSUME NEW n \in S, n \in Nodes
                 PROVE  Sup({input.local[n]} \cup {Offer(n, m) : m \in Nodes \ S}) <= f[n]
      BY <2>2, ComponentsType DEF Sweep
    <3> DEFINE T == {input.local[n]} \cup {Offer(n, m) : m \in Nodes \ S}
    <3>1. T \subseteq Levels
      BY StartType
    <3>2. \A c \in T : c <= f[n]
      BY <2>1, <2>3 DEF ClosedConfidence
    <3> QED
      BY <3>1, <3>2, SupBounds
  <2>5. CASE \E m \in Nodes : Settle(m)
    BY <2>2, <2>3, <2>5 DEF Settle
  <2>6. CASE Close
    BY <2>2, <2>6 DEF Close
  <2>7. CASE UNCHANGED vars
    BY <2>2, <2>7 DEF vars
  <2> QED
    BY <2>4, <2>5, <2>6, <2>7 DEF Next
<1> QED
  BY <1>1, <1>2, TypeCorrect, PTL DEF Spec

-----------------------------------------------------------------------------
(* Nor less *)

\* What the sweep has settled: a node of a swept component, or of the one under way, has its
\* local effect and every offer from below; inside the component under way, an offer not yet
\* taken comes from a node still on the worklist.
Settled(n) == n \in swept \cup current
LocalTaken == \A n \in Nodes : Settled(n) => input.local[n] <= reached[n]
CalleesSettled ==
    \A n, m \in Nodes :
        EdgeConfidence(n, m) # 0 =>
            /\ n \in swept => m \in swept
            /\ n \in current => m \in swept \cup current
OffersTaken ==
    \A n, m \in Nodes :
        Settled(n) => \/ Offer(n, m) <= reached[n]
                      \/ n \in current /\ m \in pending
SweepInv == LocalTaken /\ CalleesSettled /\ OffersTaken

\* An edge that is there is a call.
LEMMA CalleesFacts ==
    ASSUME TypeOK, InputsAssumption, NEW n \in Nodes, NEW m \in Nodes
    PROVE  EdgeConfidence(n, m) # 0 <=> m \in Callees(n)
<1>1. EdgeConfidence(n, m) \in Levels
  BY EdgeFacts DEF TypeOK
<1> QED
  BY <1>1 DEF Callees, Levels

\* A set of at most one node has at most one node.
LEMMA AtMostOne ==
    ASSUME NodesAssumption, NEW S, S \subseteq Nodes, ~ (Cardinality(S) > 1),
           NEW n \in S, NEW m \in S
    PROVE  n = m
<1>1. IsFiniteSet(S) /\ IsFiniteSet({n, m})
  BY FS_Subset, FS_AddElement, FS_EmptySet, FS_Singleton DEF NodesAssumption
<1>2. Cardinality({n, m}) <= Cardinality(S)
  BY <1>1, FS_Subset
<1>3. n # m => Cardinality({n, m}) = 2
  <2>1. IsFiniteSet({n}) /\ Cardinality({n}) = 1
    BY FS_Singleton
  <2>2. {n, m} = {n} \cup {m}
    OBVIOUS
  <2>3. n # m => Cardinality({n, m}) = 2
    <3>1. Cardinality({n} \cup {m}) = IF m \in {n} THEN 1 ELSE 1 + 1
      BY <2>1, FS_AddElement
    <3> QED
      BY <2>2, <3>1
  <2> QED
    BY <2>3
<1> QED
  BY <1>1, <1>2, <1>3, FS_CardinalityType

\* The offers to n after a step, by what is reached after it.
LEMMA OfferNext ==
    ASSUME input' = input, NEW n, NEW m
    PROVE  Offer(n, m)' = Inf(EdgeConfidence(n, m), reached'[m])
BY DEF Offer, EdgeConfidence

LEMMA SweepInvSweep ==
    ASSUME InputsAssumption, NodesAssumption, TypeOK, TypeOK', SweepInv,
           NEW S \in Components, Sweep(S)
    PROVE  SweepInv'
<1> USE DEF Settled
<1>0. /\ S \subseteq Nodes /\ current = {} /\ current' = S /\ input' = input
      /\ swept' = swept /\ S \cap swept = {} /\ OutOf(S) \subseteq swept
  BY ComponentsType DEF Sweep, Ready
<1>1. \A n \in Nodes \ S : reached'[n] = reached[n]
  BY DEF Sweep
<1>2. \A n, m \in Nodes : EdgeConfidence(n, m)' = EdgeConfidence(n, m)
  BY <1>0 DEF EdgeConfidence
<1>3. ASSUME NEW n \in S
      PROVE  /\ input.local[n] <= reached'[n]
             /\ \A m \in Nodes \ S : Offer(n, m) <= reached'[n]
  <2> DEFINE T == {input.local[n]} \cup {Offer(n, m) : m \in Nodes \ S}
  <2>1. reached'[n] = Sup(T)
    BY <1>0 DEF Sweep
  <2>2. T \subseteq Levels
    BY <1>0, StartType
  <2> QED
    BY <2>1, <2>2, SupBounds
<1>4. LocalTaken'
  BY <1>0, <1>1, <1>3 DEF SweepInv, LocalTaken
<1>5. CalleesSettled'
  <2>1. \A n \in S, m \in Nodes : EdgeConfidence(n, m) # 0 => m \in swept \cup S
    BY <1>0, CalleesFacts DEF OutOf
  <2> QED
    BY <1>0, <1>2, <2>1 DEF SweepInv, CalleesSettled
<1>6. OffersTaken'
  <2> SUFFICES ASSUME NEW n \in Nodes, NEW m \in Nodes, n \in swept \cup S
               PROVE  \/ Offer(n, m)' <= reached'[n]
                      \/ n \in S /\ m \in pending'
    BY <1>0 DEF OffersTaken
  <2>1. Offer(n, m)' = Inf(EdgeConfidence(n, m), reached'[m])
    BY <1>0, OfferNext
  <2>2. /\ EdgeConfidence(n, m) \in Levels /\ reached'[m] \in Levels
        /\ reached'[n] \in Levels /\ reached[m] \in Levels
    BY EdgeFacts DEF TypeOK
  <2>3. CASE n \in swept
    <3>1. Offer(n, m) <= reached[n]
      BY <1>0, <2>3 DEF SweepInv, OffersTaken
    <3>2. EdgeConfidence(n, m) # 0 => m \in swept
      BY <2>3 DEF SweepInv, CalleesSettled
    <3>3. EdgeConfidence(n, m) # 0 => reached'[m] = reached[m]
      BY <1>0, <1>1, <3>2
    <3>4. reached'[n] = reached[n]
      BY <1>0, <1>1, <2>3
    <3> QED
      BY <2>1, <2>2, <3>1, <3>3, <3>4, InfFacts DEF Offer, Levels
  <2>4. CASE n \in S /\ m \notin S
    <3>1. reached'[m] = reached[m]
      BY <1>1, <2>4
    <3> QED
      BY <1>3, <2>1, <2>4, <3>1 DEF Offer
  <2>5. CASE n \in S /\ m \in S
    <3>1. CASE reached'[m] = 0
      BY <2>1, <2>2, <3>1, InfFacts DEF Levels
    <3>2. CASE reached'[m] # 0 /\ Cardinality(S) > 1
      BY <2>2, <2>5, <3>2 DEF Sweep, Levels
    <3>3. CASE ~ (Cardinality(S) > 1)
      <4>1. n = m
        BY <1>0, <2>5, <3>3, AtMostOne
      <4> QED
        BY <2>1, <2>2, <4>1, InfFacts
    <3> QED
      BY <3>1, <3>2, <3>3
  <2> QED
    BY <2>3, <2>4, <2>5
<1> QED
  BY <1>4, <1>5, <1>6 DEF SweepInv

LEMMA SweepInvSettle ==
    ASSUME InputsAssumption, TypeOK, TypeOK', SweepInv, NEW k \in Nodes, Settle(k)
    PROVE  SweepInv'
<1> USE DEF Settled
<1> DEFINE raised == {n \in current \ {k} : Offer(n, k) > reached[n]}
<1>0. /\ input' = input /\ swept' = swept /\ current' = current /\ k \in pending
      /\ pending' = (pending \ {k}) \cup raised
      /\ current \subseteq Nodes /\ pending \subseteq current /\ current \cap swept = {}
  BY DEF Settle, CallersWithin, Rises, Requeue, TypeOK
<1>1. \A n \in Nodes : reached'[n] = IF n \in raised THEN Offer(n, k) ELSE reached[n]
  BY DEF Settle, CallersWithin, Rises
<1>2. \A n \in Nodes : reached[n] \in Levels /\ reached'[n] \in Levels
  BY DEF TypeOK
<1>3. \A n \in Nodes : reached[n] <= reached'[n]
  BY <1>1, <1>2, OfferType DEF Levels
<1>4. LocalTaken'
  <2>1. \A n \in Nodes : input.local[n] \in Levels
    BY InputType DEF TypeOK
  <2> QED
    BY <1>0, <1>2, <1>3, <2>1 DEF SweepInv, LocalTaken, Levels
<1>5. CalleesSettled'
  BY <1>0 DEF SweepInv, CalleesSettled, EdgeConfidence
<1>6. OffersTaken'
  <2> SUFFICES ASSUME NEW n \in Nodes, NEW m \in Nodes, n \in swept \cup current
               PROVE  \/ Offer(n, m)' <= reached'[n]
                      \/ n \in current /\ m \in pending'
    BY <1>0 DEF OffersTaken
  <2>1. Offer(n, m)' = Inf(EdgeConfidence(n, m), reached'[m])
    BY <1>0, OfferNext
  <2>2. EdgeConfidence(n, m) \in Levels
    BY EdgeFacts DEF TypeOK
  <2>3. CASE m \in raised
    <3>1. n \in swept => EdgeConfidence(n, m) = 0
      BY <1>0, <2>3 DEF SweepInv, CalleesSettled
    <3>2. CASE n \in swept
      BY <1>2, <2>1, <3>1, <3>2, InfFacts DEF Levels
    <3> QED
      BY <1>0, <2>3, <3>2
  <2>4. CASE m \notin raised
    <3>1. Offer(n, m)' = Offer(n, m)
      BY <1>1, <2>1, <2>4 DEF Offer
    <3>2. Offer(n, m) \in Levels
      BY OfferType
    <3>3. CASE Offer(n, m) <= reached[n]
      BY <1>2, <1>3, <3>1, <3>2, <3>3 DEF Levels
    <3>4. CASE n \in current /\ m \in pending /\ m # k
      BY <1>0, <3>4
    <3>5. CASE n \in current /\ m = k /\ n # k
      BY <1>1, <1>2, <3>1, <3>2, <3>5 DEF Levels
    <3>6. CASE n = m
      BY <1>2, <2>1, <2>2, <3>6, InfFacts
    <3> QED
      BY <3>3, <3>4, <3>5, <3>6 DEF SweepInv, OffersTaken
  <2> QED
    BY <2>3, <2>4
<1> QED
  BY <1>4, <1>5, <1>6 DEF SweepInv

LEMMA SweepInvClose ==
    ASSUME TypeOK, SweepInv, Close
    PROVE  SweepInv'
BY DEF Close, TypeOK, SweepInv, LocalTaken, CalleesSettled, OffersTaken, Settled,
       EdgeConfidence, Offer

\* What the sweep keeps at every step.
LEMMA SweepInvHolds == Spec => []SweepInv
<1> USE InputsAssumption, RuleAssumption, NodesAssumption
<1>1. Init => SweepInv
  BY DEF Init, SweepInv, LocalTaken, CalleesSettled, OffersTaken, Settled
<1>2. TypeOK /\ TypeOK' /\ SweepInv /\ [Next]_vars => SweepInv'
  <2>1. CASE UNCHANGED vars
    BY <2>1 DEF vars, SweepInv, LocalTaken, CalleesSettled, OffersTaken, Settled,
                EdgeConfidence, Offer
  <2> QED
    BY <2>1, SweepInvSweep, SweepInvSettle, SweepInvClose DEF Next
<1> QED
  BY <1>1, <1>2, TypeCorrect, PTL DEF Spec

\* Once every component is swept, no Symbol's confidence can be raised any more: with
\* NeverOverstatedHolds, the confidences are the least solution whatever the order.
THEOREM NothingLeftToRaiseHolds == Spec => []NothingLeftToRaise
<1> USE InputsAssumption
<1>1. TypeOK /\ SweepInv => NothingLeftToRaise
  <2> SUFFICES ASSUME TypeOK, SweepInv
               PROVE  swept = Nodes => ClosedConfidence(reached)
    BY DEF NothingLeftToRaise, Done
  <2> HAVE swept = Nodes
  <2>1. \A n \in Nodes : input.local[n] <= reached[n]
    BY DEF SweepInv, LocalTaken, Settled
  <2>2. ASSUME NEW e \in input.edges
        PROVE  Inf(e[3], reached[e[2]]) <= reached[e[1]]
    <3> DEFINE n == e[1]
               m == e[2]
    <3>1. n \in Nodes /\ m \in Nodes /\ e[3] \in 1..3 /\ e = <<n, m, e[3]>>
      BY InputType DEF TypeOK
    <3>2. e[3] <= EdgeConfidence(n, m) /\ EdgeConfidence(n, m) \in Levels
      BY <3>1, EdgeFacts DEF TypeOK
    <3>3. Offer(n, m) <= reached[n]
      BY <3>1 DEF SweepInv, OffersTaken, Settled, TypeOK
    <3>4. reached[n] \in Levels /\ reached[m] \in Levels /\ e[3] \in Levels
      BY <3>1 DEF TypeOK, Levels
    <3>5. Inf(e[3], reached[m]) <= Offer(n, m)
      BY <3>2, <3>4, InfFacts DEF Offer
    <3>6. Inf(e[3], reached[m]) \in Levels /\ Offer(n, m) \in Levels
      BY <3>1, <3>4, InfFacts, OfferType
    <3> QED
      BY <3>3, <3>4, <3>5, <3>6 DEF Levels
  <2> QED
    BY <2>1, <2>2 DEF ClosedConfidence
<1> QED
  BY <1>1, TypeCorrect, SweepInvHolds, PTL
=============================================================================
