---------------------------- MODULE WeakComponents ---------------------------
(***************************************************************************)
(* The weakly connected components of a graph, packages/core/src/wcc.ts:   *)
(* a forest over the nodes' places, joined edge by edge.                   *)
(***************************************************************************)
EXTENDS Integers, Sequences, FiniteSets, SequencesExt

Forest(n) == [parent |-> [i \in 1..n |-> i], rank |-> [i \in 1..n |-> 0]]

\* find: the root, and the parents with the path to it halved.
Find(parent, x) ==
    LET find[p \in [DOMAIN parent -> DOMAIN parent], y \in DOMAIN parent] ==
            IF p[y] = y THEN [parent |-> p, root |-> y]
            ELSE LET grand == p[p[y]] IN find[[p EXCEPT ![y] = grand], grand]
    IN  find[parent, x]

\* Mutant of Join: a node is hung under the other, not a root under a root.
JoinNodes(forest, a, b) == [forest EXCEPT !.parent[b] = a]

\* union, by rank.
Join(forest, a, b) ==
    LET fromA == Find(forest.parent, a)
        fromB == Find(fromA.parent, b)
        ra == fromA.root
        rb == fromB.root
        halved == [forest EXCEPT !.parent = fromB.parent]
    IN  CASE ra = rb -> halved
          [] ra # rb /\ forest.rank[ra] < forest.rank[rb] -> [halved EXCEPT !.parent[ra] = rb]
          [] ra # rb /\ forest.rank[ra] > forest.rank[rb] -> [halved EXCEPT !.parent[rb] = ra]
          [] OTHER -> [halved EXCEPT !.parent[rb] = ra, !.rank[ra] = @ + 1]

PairLess(p, q) == p[1] < q[1] \/ (p[1] = q[1] /\ p[2] < q[2])

\* canonEdges: the places of the ends, the lower first, an edge to itself or to no node left out.
CanonEdges(nodes, edges) ==
    LET Joins(i, j) == <<nodes[i], nodes[j]>> \in edges \/ <<nodes[j], nodes[i]>> \in edges
    IN  SetToSortSeq({p \in (DOMAIN nodes) \X (DOMAIN nodes) : p[1] < p[2] /\ Joins(p[1], p[2])},
                     PairLess)

\* The components, each in the order of its keys and in that of their first ones.
WeaklyConnected(nodes, edges, byKey) ==
    LET forest == FoldLeft(LAMBDA f, e : Join(f, e[1], e[2]), Forest(Len(nodes)),
                           CanonEdges(nodes, edges))
        root == [n \in ToSet(nodes) |->
                    Find(forest.parent, CHOOSE i \in DOMAIN nodes : nodes[i] = n).root]
        With(n) == SelectSeq(byKey, LAMBDA m : root[m] = root[n])
        firsts == SelectSeq(byKey, LAMBDA n : Head(With(n)) = n)
    IN  [k \in DOMAIN firsts |-> With(firsts[k])]
=============================================================================
