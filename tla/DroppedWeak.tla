----------------------------- MODULE DroppedWeak -----------------------------
(***************************************************************************)
(* The last matching stage of a diff (packages/diff/src/match/             *)
(* dropped-weak.ts): dropped Symbols that no earlier stage paired. A pair  *)
(* is identified when each side holds its name key only once, or its file  *)
(* key only once; identified pairs that share a Symbol exclude each other, *)
(* and the code keeps as many as it can by walking each path of such pairs *)
(* from one end and taking every second one, then walking the cycles.      *)
(*                                                                         *)
(* The code walks in the order of the ids. Here any start and any next     *)
(* pair may be chosen: which matching comes out depends on it, its size    *)
(* must not. DiffReport takes these steps where MatchStages has one that   *)
(* keeps a maximum matching.                                               *)
(***************************************************************************)
EXTENDS Integers, FiniteSets

VARIABLES
    bases, heads,  \* the dropped Symbols left on each side
    keys,          \* nameKey and fileKey of each of them
    walked,        \* the identified pairs a walk has passed
    at,            \* the pair the walk under way stands on, NoPair between two walks
    take,          \* whether the next pair of the walk is taken
    matching       \* the pairs taken

left == <<bases, heads, keys>>
vars == <<left, walked, at, take, matching>>

\* soleCarriers: no other Symbol of its side has the same key.
SoleCarrier(s, side, keyOf) == \A t \in side \ {s} : keyOf[t] # keyOf[s]

\* pairsIdentifiedBy, for both keys. A pair that both keys identify is there twice.
PairsIdentifiedBy(by) ==
    {p \in bases \X heads \X {by} :
        /\ keys[by][p[1]] = keys[by][p[2]]
        /\ SoleCarrier(p[1], bases, keys[by])
        /\ SoleCarrier(p[2], heads, keys[by])}
Identified == PairsIdentifiedBy("name") \cup PairsIdentifiedBy("file")

NoPair == <<>>

AtBase(p) == {q \in Identified \ {p} : q[1] = p[1]}
AtHead(p) == {q \in Identified \ {p} : q[2] = p[2]}
Adjacent(p) == AtBase(p) \cup AtHead(p)

\* The end of a path. The list the code counts holds a pair that shares both Symbols twice.
IsEnd(p) == Cardinality(AtBase(p)) + Cardinality(AtHead(p)) <= 1

Init == walked = {} /\ at = NoPair /\ take = TRUE /\ matching = {}

\* One iteration of takeAlternateEdgesFrom.
Pass(p) ==
    /\ walked' = walked \cup {p}
    /\ matching' = IF take THEN matching \cup {p} ELSE matching
    /\ take' = ~take
    /\ at' = p
    /\ UNCHANGED left

\* The first loop starts a walk at each end not walked yet, the second wherever is left.
StartAtEnd(p) == at = NoPair /\ p \in Identified \ walked /\ IsEnd(p) /\ Pass(p)
StartOnCycle(p) ==
    /\ at = NoPair
    /\ \A q \in Identified \ walked : ~IsEnd(q)
    /\ p \in Identified \ walked
    /\ Pass(p)

Walk(p) == at # NoPair /\ p \in Adjacent(at) \ walked /\ Pass(p)

\* Mutant of EndWalk: the next walk goes on alternating where this one stopped.
EndWalkAlternating ==
    /\ at # NoPair /\ Adjacent(at) \subseteq walked
    /\ at' = NoPair
    /\ UNCHANGED <<left, walked, take, matching>>

\* Nothing unwalked adjoins the pair: the walk is over, the next one begins with a taken pair.
EndWalk ==
    /\ at # NoPair /\ Adjacent(at) \subseteq walked
    /\ at' = NoPair /\ take' = TRUE
    /\ UNCHANGED <<left, walked, matching>>

Next ==
    \/ \E p \in Identified : StartAtEnd(p) \/ StartOnCycle(p) \/ Walk(p)
    \/ EndWalk

Done == at = NoPair /\ Identified \subseteq walked
=============================================================================
