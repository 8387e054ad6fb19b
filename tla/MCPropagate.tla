----------------------------- MODULE MCPropagate -----------------------------
(***************************************************************************)
(* Propagate over four Symbols: the graphs made of a recursion of three    *)
(* (two cycles through "b") and calls out of it, some edges given twice    *)
(* with different confidences; three of the Symbols may have the effect.   *)
(***************************************************************************)
EXTENDS Propagate

MCNodes == {"a", "b", "c", "d"}
MCRuleOf == [n \in MCNodes |-> CASE n = "a" -> 3 [] n = "b" -> 2 [] n = "c" -> 2 [] OTHER -> 1]

\* The confidences each call may have, as the set of CallEdges given for it.
Choices ==
    {[ab |-> ab, bc |-> bc, ca |-> ca, ba |-> ba, cd |-> cd, ad |-> ad] :
        ab \in {{2}, {3}}, bc \in {{}, {3}}, ca \in {{}, {2}, {3}}, ba \in {{}, {1}},
        cd \in {{}, {1, 3}}, ad \in {{}, {1}}}

Calls(x, n, m) == {<<n, m, c>> : c \in x}
Graph(f) ==
    Calls(f.ab, "a", "b") \cup Calls(f.bc, "b", "c") \cup Calls(f.ca, "c", "a")
      \cup Calls(f.ba, "b", "a") \cup Calls(f.cd, "c", "d") \cup Calls(f.ad, "a", "d")

Locals ==
    {[n \in MCNodes |-> CASE n = "a" -> 0 [] n = "b" -> b [] n = "c" -> c [] OTHER -> d] :
        b \in {0, 2}, c \in {0, 1}, d \in {0, 3}}

MCInputs == [edges : {Graph(f) : f \in Choices}, local : Locals]
=============================================================================
