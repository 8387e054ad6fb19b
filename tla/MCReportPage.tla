---------------------------- MODULE MCReportPage -----------------------------
(***************************************************************************)
(* ReportPage over ten families of documents, each of which varies what    *)
(* one part of the code tells apart: the matching stages, the names they   *)
(* compare, the walk of the dropped Symbols, the dependencies, Components, *)
(* Slices, the elements of a pair, its other facts, the axes a change is   *)
(* on, and the sections' sizes.                                            *)
(***************************************************************************)
EXTENDS ReportPage

\* The files of every family but the walk's are 1 to 4, the names 1 to 9.
WalkFiles == {40, 50, 60} \cup {100 + 10 * n + k : n \in 1..6, k \in 1..3}
WalkNames == {100 + 10 * n + k : n \in 1..6, k \in 1..4}

MCFiles == 1..4 \cup WalkFiles
MCNames == 1..9 \cup WalkNames
MCKinds == {"function", "class"}
MCLogics == 0..3
MCSyntaxes == {1, 2}
MCSignatures == 0..3

\* Files 1 and 3 have the same basename. A name or file of the walk ends in its key.
MCBaseName == [f \in MCFiles |-> IF f = 3 THEN 1 ELSE IF f > 4 THEN f % 10 ELSE f]
\* The names, by the tokens they split into. 1 to 3 resemble each other. 4 is of two tokens, and 6 is
\* it in an owner of several carts; 7 is 1 in an owner, 9 has no token. 5 is a token of three Han
\* characters, which is one word: too little to pair on. 8 is one of four. The last is any of the walk's.
Name(owner, member) == [owner |-> owner, member |-> member]
OneToThree == {"load", "the", "open", "orders", "of", "one"}
NameTable ==
    <<Name(<<>>, OneToThree \cup {"shop", "day"}),
      Name(<<>>, OneToThree \cup {"shop"}),
      Name(<<>>, OneToThree),
      Name(<<{"cart"}, {"daily", "entry"}>>, {"add", "item"}),
      Name(<<>>, {"three han"}),
      Name(<<{"carts"}, {"entries", "daily"}>>, {"add", "item"}),
      Name(<<{"shop"}>>, OneToThree \cup {"shop", "day"}),
      Name(<<>>, {"four han"}),
      Name(<<{"cart", "daily"}>>, {}),
      Name(<<>>, {"walk"})>>
OfName(n) == IF n > 9 THEN 10 ELSE n

Chars(token) == CASE token = "three han" -> {1, 2, 3} [] token = "four han" -> {1, 2, 3, 4} [] OTHER -> {}
AllTokens == UNION {name.member \cup UNION ToSet(name.owner) : name \in ToSet(NameTable)}
Naming == INSTANCE NameSimilarity WITH
              Whole <- Scale,
              Plurals <- {<<"cart", "carts">>, <<"entry", "entries">>},
              Alphabetic <- AllTokens \ {"three han", "four han"},
              Han <- [t \in AllTokens |-> Chars(t)],
              Syllabic <- [t \in AllTokens |-> {}]

\* Of the names whose last segments are alike, the first. A walk's name ends in its key.
MCLastSegment == [n \in MCNames |-> CASE n > 9 -> n % 10 [] n = 6 -> 4 [] n = 7 -> 1 [] OTHER -> n]

\* What Of says of each name or pair of them, written out so that it is computed once.
EachName(Of(_)) == [n \in 1..10 |-> Of(NameTable[n])] \o <<>>
EachPair(Of(_, _)) == [n \in 1..10 |-> [m \in 1..10 |-> Of(NameTable[n], NameTable[m])] \o <<>>] \o <<>>

NameScores == EachPair(Naming!NameJaccard)
MemberScores == EachPair(Naming!MemberJaccard)
OwnersAgree == EachPair(Naming!OwnersCompatible)
Thresholds == EachName(Naming!RowFor)
Tells == EachName(Naming!SaysEnoughToPair)
TokensOfMember == EachName(Naming!MemberTokens)
MCNameScore == [p \in MCNames \X MCNames |-> NameScores[OfName(p[1])][OfName(p[2])]]
MCMemberScore == [p \in MCNames \X MCNames |-> MemberScores[OfName(p[1])][OfName(p[2])]]
MCThreshold == [n \in MCNames |-> Thresholds[OfName(n)]]
MCIndexedUnder == [n \in MCNames |-> TokensOfMember[OfName(n)]]
MCCorresponding == {p \in MCNames \X MCNames : OwnersAgree[OfName(p[1])][OfName(p[2])]}
MCTelling == {n \in MCNames : Tells[OfName(n)]}

\* Signature 0 is none; 2 differs from 1 in half of its inputs, 3 in their number.
SignatureOf(g) ==
    IF g = 0 THEN {}
    ELSE {[inputs |-> CASE g = 1 -> <<"A", "B">> [] g = 2 -> <<"A", "C">> [] g = 3 -> <<"A">>,
           outputs |-> <<"A">>, throws |-> {}]}
SignatureScores ==
    [g \in 1..3 |-> [k \in 1..3 |-> Naming!SignatureSimilarity(SignatureOf(g), SignatureOf(k))] \o <<>>] \o <<>>
MCSignatureScore ==
    [p \in MCSignatures \X MCSignatures |->
        IF 0 \in {p[1], p[2]} THEN Naming!SignatureSimilarity(SignatureOf(p[1]), SignatureOf(p[2]))
        ELSE SignatureScores[p[1]][p[2]]]
MCNamesNothing == {2}

\* Folder 2 lies in folder 1. File 4 is a test.
MCFolders == [f \in MCFiles |-> CASE f \in {1, 2} -> <<1>> [] f = 3 -> <<2, 1>> [] OTHER -> <<3>>]
MCTestFiles == {4}

\* The values 1 and 2 read alike.
MCReads == <<1, 1, 3>>

Sym(f, n, k, l, x, g, d, e) ==
    [file |-> f, name |-> n, kind |-> k, logic |-> l, syntax |-> x, sig |-> g, dropped |-> d, ext |-> e,
     confidence |-> "high"]
Kept(f, n, l, x, g) == Sym(f, n, "function", l, x, g, FALSE, FALSE)
Dropped(f, n) == Sym(f, n, "class", 0, 1, 0, TRUE, FALSE)

UpTo(n, S) == {T \in SUBSET S : Cardinality(T) <= n}
FilesOf(S) == {s.file : s \in S}

Call(from, to) == [from |-> from, to |-> to, via |-> "call", direction |-> "one-way"]
Import(from, to, direction) == [from |-> <<0, from>>, to |-> <<0, to>>, via |-> "import", direction |-> direction]
Component(n, roots, other) == [id |-> <<0, n>>, roots |-> roots, other |-> other]
BothSides(x) == [base |-> x, head |-> x]

Sizes(of, note, cap) == [of |-> of, heading |-> 2, note |-> note, cap |-> cap]
Roomy == Sizes([name \in ToSet(SectionOrder) |-> [whole |-> 4, names |-> 3, title |-> 1]], 1, 1000)

\* A document is of what it skipped nothing.
Documents(base, head, renames, lostByBase, lostByHead) ==
    [base |-> base, head |-> head, renames |-> renames, lostByBase |-> lostByBase, lostByHead |-> lostByHead,
     edges |-> BothSides({}), components |-> BothSides({}), bodies |-> BothSides(<<>>), page |-> "roomy"]
Sound(i) == FilesOf(i.base) \cap i.lostByBase = {} /\ FilesOf(i.head) \cap i.lostByHead = {}

-----------------------------------------------------------------------------
(* The stages: documents of at most three Symbols drawn from seven a side *)

BasePool ==
    {Kept(1, 1, 1, 1, 1), Kept(3, 1, 1, 1, 1), Kept(1, 2, 1, 2, 1), Kept(4, 4, 2, 1, 1),
     Sym(2, 3, "class", 1, 1, 1, FALSE, FALSE), Dropped(1, 3), Dropped(3, 4)}
HeadPool ==
    {Kept(2, 1, 1, 1, 1), Kept(2, 2, 3, 1, 2), Kept(1, 3, 3, 2, 1), Kept(2, 4, 2, 2, 1),
     Kept(2, 3, 1, 1, 1), Sym(4, 2, "class", 1, 1, 1, FALSE, TRUE), Dropped(4, 3), Dropped(3, 5)}

StageInputs ==
    {i \in [base : UpTo(3, BasePool), head : UpTo(3, HeadPool), renames : {{}, {<<1, 2>>, <<3, 2>>}},
            lostByBase : {{}, {1}}, lostByHead : {{}, {2}},
            edges : {BothSides({})}, components : {BothSides({})}, bodies : {BothSides(<<>>)},
            page : {"roomy"}] : Sound(i)}

-----------------------------------------------------------------------------
(* The names: at most two Symbols a side that only their names and signatures can pair *)

NamedPool(file, logic, names, signatures) ==
    {Kept(file, n, logic, 1, g) : n \in names, g \in signatures}
NameInputs ==
    {Documents(b, h, {}, {}, {}) :
        b \in UpTo(2, NamedPool(1, 1, {1, 4, 5, 7, 8, 9}, {1})),
        h \in UpTo(2, NamedPool(2, 3, {2, 4, 5, 6, 8, 9}, {1})) \cup UpTo(1, NamedPool(2, 3, {2, 6}, {0, 2, 3}))}

-----------------------------------------------------------------------------
(* The walk: three dropped Symbols a side, by the keys they carry *)

\* Each name key of the base is its own; the third may share the second's file key.
WalkBase(third) ==
    {Dropped(111, 111), Dropped(122, 122), Dropped(130 + third, 133)}
WalkHead(n, key) == Dropped(130 + 10 * n + key[2], 130 + 10 * n + key[1])
WalkKeys == (1..4) \X (1..3)
KeyBefore(k, l) == IdBefore(k, l) \/ k = l

WalkInputs ==
    {Documents(WalkBase(third), {WalkHead(n, keys[n]) : n \in 1..3}, {}, {}, {}) :
        third \in {2, 3},
        keys \in {ks \in [1..3 -> WalkKeys] : KeyBefore(ks[1], ks[2]) /\ KeyBefore(ks[2], ks[3])}}

-----------------------------------------------------------------------------
(* The dependencies: three Symbols with their fates, a test among them *)

X == Kept(1, 1, 1, 1, 1)
Y == Kept(1, 2, 3, 1, 1)
T == Kept(4, 4, 2, 1, 1)
N == Kept(3, 3, 1, 2, 2)

\* Kept as it is, changed, moved by a rename, or gone; changed or gone; changed, moved or gone.
FatesOfX == {{X}, {[X EXCEPT !.sig = 2]}, {[X EXCEPT !.file = 2]}, {}}
FatesOfY == {{Y}, {[Y EXCEPT !.syntax = 2]}, {}}
FatesOfT == {{T}, {[T EXCEPT !.logic = 3]}, {}}

\* One edge of the base begins at an id no Symbol of it has, which the rename gives to X.
BaseCalls == {Call(Id(X), Id(Y)), Call(Id(Y), Id(X)), Call(Id(T), Id(X)), Call(<<2, 1>>, Id(Y))}
HeadCalls ==
    {Call(c[1], c[2]) : c \in
        {<<Id(T), Id(X)>>, <<Id(N), Id(Y)>>} \cup
            UNION {{<<x, Id(Y)>>, <<Id(T), x>>, <<Id(N), x>>, <<x, Id(N)>>} : x \in {Id(X), <<2, 1>>}}}
EndsIn(S, calls) == \A e \in calls : {e.from, e.to} \subseteq {Id(s) : s \in S}

EdgeInputs ==
    {i \in [base : {{X, Y, T}},
            head : {x \cup y \cup t \cup n : x \in FatesOfX, y \in FatesOfY, t \in FatesOfT, n \in {{}, {N}}},
            renames : {{<<1, 2>>}}, lostByBase : {{}, {3}}, lostByHead : {{}, {1}, {2}},
            edges : [base : UpTo(2, BaseCalls), head : UpTo(2, HeadCalls)],
            components : {BothSides({})}, bodies : {BothSides(<<>>)}, page : {"roomy"}] :
        Sound(i) /\ EndsIn(i.head, i.edges.head)}

\* Components that claim one folder, or one inside another's, and what imports what.
ComponentInputs ==
    LET components == {Component(1, {1}, 1), Component(1, {1}, 2), Component(2, {1, 3}, 1), Component(3, {2}, 1)}
        imports == {Import(1, 2, "one-way"), Import(2, 1, "one-way"), Import(1, 3, "one-way")}
        OneOfEach(S) == \A c, d \in S : c.id = d.id => c = d
    IN  {i \in [base : {{X, T}}, head : {{X, [T EXCEPT !.logic = 3]}}, renames : {{}},
                lostByBase : {{}, {2}}, lostByHead : {{}, {2}, {2, 3}},
                edges : [base : UpTo(1, imports), head : UpTo(1, imports \cup {Import(1, 2, "bidirectional")})],
                components : [base : UpTo(2, components), head : UpTo(2, components)],
                bodies : {BothSides(<<>>)}, page : {"roomy"}] :
            OneOfEach(i.components.base) /\ OneOfEach(i.components.head)}

-----------------------------------------------------------------------------
(* The Slices: four changed Symbols, one a test's, any four calls among them in the head *)

Four == {Kept(1, 1, 1, 1, 1), Kept(1, 2, 1, 1, 1), Kept(1, 3, 1, 1, 1), Kept(4, 1, 1, 1, 1)}
FourIds == {Id(s) : s \in Four}
AllCalls == {Call(c[1], c[2]) : c \in {d \in FourIds \X FourIds : d[1] # d[2]}}
Chain == {Call(<<1, 1>>, <<1, 2>>), Call(<<1, 2>>, <<1, 3>>), Call(<<1, 3>>, <<4, 1>>)}

SliceInputs ==
    {[Documents(Four, {[s EXCEPT !.logic = 3] : s \in Four}, {}, {}, {})
        EXCEPT !.edges = [base |-> e[1], head |-> e[2]]] :
        e \in {{}} \X UpTo(4, AllCalls) \cup {Chain} \X UpTo(3, AllCalls)}

-----------------------------------------------------------------------------
(* The elements: up to three rules and effects in the base and two in the head, or calls and decorators *)

Element(key, part, line) == [key |-> key, parts |-> <<part>>, line |-> line]
Lines == {1, 2, 5}
Elements(key, n) ==
    LET places == UNION {[S -> 1..3] : S \in UpTo(n, Lines)}
    IN  {[i \in 1..Cardinality(DOMAIN p) |->
              LET line == SetToSortSeq(DOMAIN p, <)[i] IN Element(key, p[line], line)] : p \in places}

BodyWith(elements) == [NoBody EXCEPT !.rules = elements, !.effects = elements]
Called(elements) ==
    [NoBody EXCEPT !.calls = elements, !.decorators = [i \in DOMAIN elements |-> elements[i] @@ [boundary |-> FALSE]]]
OfX(body) == <<1, 1>> :> body
-----------------------------------------------------------------------------
(* The other facts of one pair, a field or two at a time *)

\* The pair's fingerprints, where its bodies are b and h and the head's Symbol is named n; the
\* syntax always differs, and an n other than the base's leaves the logic to pair them by.
FactInput(b, h, n, confidence) ==
    LET f == [name |-> 1] @@ b
        g == [name |-> n] @@ h
        head == [X EXCEPT !.name = n, !.syntax = 2, !.confidence = confidence,
                          !.sig = IF ApiInput(f) = ApiInput(g) THEN 1 ELSE 2,
                          !.logic = IF LogicInput(f) = LogicInput(g) THEN 1 ELSE 3]
    IN  [Documents({X}, {head}, {}, {}, {}) EXCEPT !.bodies = [base |-> OfX(b), head |-> <<1, n>> :> h]]

SeqsUpTo(S, n) == UNION {[1..k -> S] : k \in 0..n}

ElementInputs ==
    {FactInput(BodyWith(b), BodyWith(h), 1, "high") : b \in Elements("k", 3), h \in Elements("k", 2)}
        \cup {FactInput(Called(b), Called(h), 1, "high") : b \in Elements("k", 2), h \in Elements("k", 1)}

Chains ==
    {FactInput([NoBody EXCEPT !.middleware = b], [NoBody EXCEPT !.middleware = h], 1, "high") :
        b \in SeqsUpTo({"auth", "log"}, 3), h \in SeqsUpTo({"auth", "log"}, 3)}

Exported == [keyword : BOOLEAN, default : BOOLEAN, clauses : {{}, {1}, {2}}]
Exports ==
    {FactInput([NoBody EXCEPT !.exported = b], [NoBody EXCEPT !.exported = h], n, "high") :
        b \in Exported, h \in Exported, n \in {1, 2}}

Parameter(name) == [name : {name}, written : {1, 2, 3}]
WithInputs(inputs) == {[NoSignatureAtAll EXCEPT !.inputs = inputs]}
Parameters ==
    {FactInput([NoBody EXCEPT !.signature = WithInputs(b)], [NoBody EXCEPT !.signature = WithInputs(h)], 1, "high") :
        b \in SeqsUpTo(Parameter("a") \cup Parameter("b"), 2),
        h \in SeqsUpTo(Parameter("a"), 1) \cup {<<q, r>> : q \in Parameter("a"), r \in Parameter("b")}}

Signed ==
    {{}} \cup {{[NoSignatureAtAll EXCEPT !.outputs = outputs, !.throws = throws]} :
                  outputs \in SeqsUpTo({"A", "B"}, 2), throws \in {{}, {"E"}}}
         \cup {{[NoSignatureAtAll EXCEPT !.async = async, !.generator = generator, !.typeParameters = types]} :
                  async \in BOOLEAN, generator \in BOOLEAN, types \in {<<>>, <<"T">>}}
OfSignatures ==
    {FactInput([NoBody EXCEPT !.signature = b], [NoBody EXCEPT !.signature = h], 1, "high") :
        b \in Signed, h \in Signed}

\* What explains a fingerprint and what does not, by itself and together.
Marked(boundary) == <<[key |-> "k", parts |-> <<1>>, line |-> 1, boundary |-> boundary]>>
Explanations ==
    {FactInput([NoBody EXCEPT !.decorators = Marked(FALSE)],
               [NoBody EXCEPT !.decorators = Marked(boundary), !.component = component,
                              !.visibility = visibility, !.middleware = middleware], n, confidence) :
        boundary \in BOOLEAN, component \in {{}, {<<0, 1>>}}, visibility \in {"internal", "exported"},
        middleware \in {<<>>, <<"auth">>}, n \in {1, 2, 7}, confidence \in {"high", "low"}}

FactInputs == Chains \cup Exports \cup Parameters \cup OfSignatures \cup Explanations

-----------------------------------------------------------------------------
(* The axes: one Symbol, in a test file or not, moved or not, changed on any of the four *)

AxisInputs ==
    {Documents({[X EXCEPT !.file = from]},
               {[X EXCEPT !.file = to, !.sig = g, !.logic = l, !.syntax = x, !.confidence = c]},
               {<<from, to>>} \ {<<from, from>>}, {}, {}) :
        from \in {1, 4}, to \in {1, 2, 4}, g \in {1, 2}, l \in {1, 3}, x \in {1, 2},
        c \in {"high", "low"}}

-----------------------------------------------------------------------------
(* The size cap: a document of four sections, by what each takes *)

Bytes(whole, names, title) == [whole |-> whole, names |-> names, title |-> title]
CutPages ==
    LET forms == {<<4, 99>>, <<7, 3>>, <<12, 3>>, <<12, 6>>}
    IN  {Sizes([name \in ToSet(SectionOrder) |->
                    CASE name = "slices" -> Bytes(slices, 0, title)
                      [] name = "api" -> Bytes(a[1], a[2], title)
                      [] name = "added" -> Bytes(b[1], b[2], title)
                      [] OTHER -> Bytes(c[1], c[2], title)], note, cap) :
              slices \in {4, 12}, a \in forms, b \in forms, c \in forms,
              title \in {1, 5}, note \in {1, 4}, cap \in 8..24}
MCPageSizes == [p \in {"roomy", "cut"} |-> IF p = "roomy" THEN {Roomy} ELSE CutPages]

SizeInputs ==
    {[Documents({X, Kept(1, 4, 3, 1, 2)}, {[X EXCEPT !.sig = 2], N}, {}, {}, {}) EXCEPT !.page = "cut"]}

MCInputs ==
    StageInputs \cup NameInputs \cup WalkInputs \cup EdgeInputs \cup ComponentInputs \cup SliceInputs
        \cup ElementInputs \cup FactInputs \cup AxisInputs \cup SizeInputs
=============================================================================
