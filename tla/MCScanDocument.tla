--------------------------- MODULE MCScanDocument ----------------------------
(***************************************************************************)
(* Four families of workspaces: what the plugins do with each of three     *)
(* files and how re-exports run between them; what discovery makes of      *)
(* sizes, spellings, ignore rules and directories; every name of up to     *)
(* three characters, some of which no document or id can hold; and rules   *)
(* of up to three pieces over five paths.                                  *)
(***************************************************************************)
EXTENDS ScanDocument

MCCodeUnits == <<"\t", "#", "-", ".", "/", "2", ":", "@", "K", "\\", "a", "app", "b", "c", "d", "e", "f",
                 "fault", "lib", "m", "p", "package.json", "q", "ts", "kelvin", "c2">>
MCNfc == [c \in {"kelvin", "c2"} |-> IF c = "kelvin" THEN "K" ELSE "c"]
MCDriveLetters == {"K", "a", "b", "c", "d"}
MCLowercase == {"a", "b", "c", "d", "f", "s", "l", "i", "e", "ts", "app", "lib"}
MCIdStart == MCLowercase \cup {"K", "kelvin"}
MCIdentifiers == {<<"f">>, <<"kelvin">>, <<"#", "f">>}
MCBracket == [c \in {"[ab]"} |-> {"a", "b"}]
MCNames == {"x", "y"}

A == <<"a">>
B == <<"b">>
D == <<"d">>
DC == <<"d", "/", "c">>
P == <<"@", "p">>
To(specifier, name) == [to |-> specifier, name |-> name]
Exports(x, y) == [n \in MCNames |-> IF n = "x" THEN x ELSE y]
Nothing == Exports(None, None)
NoFiles == [d \in {} |-> <<>>]

\* A workspace of fine files and no rules, none of which vanishes.
Plain(raws) ==
    LET paths == {ToNfc(r) : r \in Range(raws)} IN
    [raws |-> raws, foreign |-> {}, big |-> {}, fleeting |-> {}, unlisted |-> {}, checkouts |-> {},
     gitignores |-> NoFiles, barred |-> {}, unit |-> [p \in paths |-> "fine"],
     reexports |-> [p \in paths |-> Nothing], use |-> [p \in paths |-> None], frameworks |-> FALSE,
     components |-> <<>>, packages |-> <<>>, managers |-> <<>>]

ByPath(a, b, c) == [p \in {A, B, DC} |-> CASE p = A -> a [] p = B -> b [] p = DC -> c]

\* Who re-exports what, and what each file's decorator is imported from.
Links ==
    { \* a chain a - b - c - out, and a second asker later in the order
      [reexports |-> ByPath(Nothing, Exports(To(DC, "x"), None), Exports(To(P, "x"), None)),
       use |-> ByPath(To(B, "x"), None, To(B, "x"))],
      \* one barrel passed twice, under two names
      [reexports |-> ByPath(Nothing, Exports(To(DC, "x"), To(P, "y")), Exports(To(B, "y"), None)),
       use |-> ByPath(To(B, "x"), To(DC, "x"), To(DC, "x"))],
      \* a cycle, and a barrel back to the file that asks
      [reexports |-> ByPath(Exports(To(B, "x"), None), Exports(To(A, "x"), None), Nothing),
       use |-> ByPath(To(B, "x"), To(A, "y"), To(A, "x"))],
      \* packages, a namespace, a resolver at fault, a file that is not there
      [reexports |-> ByPath(Exports(To(Fault, "x"), To(<<"d", "/", "m">>, "x")),
                            Exports(To(P, "x"), None), Exports(To(B, NAMESPACE), None)),
       use |-> ByPath(To(<<"@", "q">>, "x"), To(A, "x"), To(DC, "x"))] }

\* Two Components, the outer of which is found first, and a name both of their manifests declare.
Components == <<[id |-> <<"lib">>, roots |-> <<<<".">>>>, publicApi |-> <<>>],
                [id |-> <<"app">>, roots |-> <<D>>, publicApi |-> <<>>]>>
Packages == <<[name |-> <<"p">>, root |-> D], [name |-> <<"q">>, root |-> D],
              [name |-> <<"q">>, root |-> <<".">>]>>

OfPlugins ==
    {[Plain(<<A, B, DC>>) EXCEPT !.unit = ByPath(a, b, c), !.reexports = l.reexports, !.use = l.use,
        !.fleeting = {B, DC}, !.frameworks = TRUE,
        !.components = Components, !.packages = Packages] :
        a \in Profiles, b \in Profiles, c \in {"fine", "slow body"},
        l \in Links}

Lines2 == {<<>>, <<<<"d", "/">>>>, <<<<"c">>, <<"#", "c">>>>, <<<<"c">>, <<"!", "c">>>>,
           <<<<"d", "/", "*">>, <<"!", "d", "/", "c">>>>, <<<<"*">>, <<"!", "d">>>>}
OfDiscovery ==
    {[Plain(<<A, B, DC, <<"d", "/", "c2">>>>) EXCEPT
        !.foreign = f, !.big = g, !.fleeting = {A, DC}, !.unlisted = u, !.checkouts = k,
        !.gitignores = [d \in {<<>>, D} |-> IF d = D THEN inner ELSE outer], !.barred = b,
        !.use = [p \in {A, B, DC} |-> IF p = A THEN To(DC, "x") ELSE None]] :
        f \in {{}, {DC}}, g \in {{}, {DC}}, u \in {{}, {D}}, k \in {{}, {D}},
        outer \in Lines2, inner \in {<<>>, <<<<"c">>>>, <<<<"!", "c">>>>, <<<<"?", "?", "?", "?", "?", "?", "?", "?">>>>},
        b \in {{}, {D}, {<<>>}}}

NameCharacters == {"a", "K", "kelvin", ":", "#", "\\", "/", "."}
FileNames ==
    {r \in UNION {[1..n -> NameCharacters] : n \in 1..3} :
       \A i \in DOMAIN Segments(r) : Segments(r)[i] \notin {<<>>, <<".">>, <<".", ".">>}}
OfNames == {Plain(<<<<"K">>, r>>) : r \in FileNames \ {<<"K">>}}

Pieces == {A, B, <<"/">>, <<"*">>, <<"?">>, <<"*", "*", "/">>, <<"/", "*", "*">>, <<"[ab]">>, <<"[">>}
Patterns == {FlattenSeq(s) : s \in UNION {[1..n -> Pieces] : n \in 1..3}}
Files == <<B, <<"a", "b">>, <<"d", "/", "b">>, <<"a", "/", "b">>, <<"a", "/", "a", "/", "b">>>>
OfRules == {[Plain(Files) EXCEPT !.gitignores = [d \in {<<>>} |-> <<p>>]] : p \in Patterns}

MCWorkspaces == OfPlugins \cup OfDiscovery \cup OfNames \cup OfRules
=============================================================================
