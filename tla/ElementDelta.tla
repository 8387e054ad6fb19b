---------------------------- MODULE ElementDelta -----------------------------
(***************************************************************************)
(* What a diff says of a pair of Symbols, packages/diff/src/delta.ts, what *)
(* packages/markdown-projection reads back out of it, and what of a Symbol *)
(* the API and logic fingerprints hash (packages/core/src/fingerprint).    *)
(*                                                                         *)
(* A rule, effect, call, decorator or parameter is an element: a record    *)
(* with a key, the parts the diff compares, and a line. Equality is of the *)
(* key and the parts, never of the line. A document's array is a sequence  *)
(* in the order of its lines. A line here is counted from the first line   *)
(* of the element's own Symbol.                                            *)
(*                                                                         *)
(* The facts of a Symbol: its name and the last segment of it ("short"),   *)
(* how the module exports it, its signature (a set of one or none), the    *)
(* four arrays of elements, its middleware, Component (a set of one or     *)
(* none), visibility and confidence.                                       *)
(***************************************************************************)
EXTENDS Integers, Sequences, FiniteSets, SequencesExt

CONSTANT Reads   \* what a part's value reads as where it is printed: two values may read alike

\* DEFAULT_LINE_FUZZ, and effects' Number.POSITIVE_INFINITY.
DEFAULT_LINE_FUZZ == 2
Unbounded == 1000000

Distance(b, h) == IF b.line < h.line THEN h.line - b.line ELSE b.line - h.line

\* rulesEqual, effectsEqual, callsEqual.
SameElement(a, b) == a.key = b.key /\ a.parts = b.parts

-----------------------------------------------------------------------------
(* assignInOrder: the best set of pairs that do not cross *)

Outranks(a, b) == a.pairs > b.pairs \/ (a.pairs = b.pairs /\ a.distance < b.distance)

\* The better of going on without one base slot and without one head slot.
BestSkip(best, i, j) ==
    IF Outranks(best[i + 1, j], best[i, j + 1]) THEN best[i + 1, j] ELSE best[i, j + 1]

\* pairingAt, where the two slots may pair.
Scored(rest, b, h) == [pairs |-> rest.pairs + 1, distance |-> rest.distance + Distance(b, h)]

\* bestFromSuffix: the score of the suffixes that begin at slots i and j.
BestFromSuffix(B, H, admits) ==
    LET best[i \in 1..(Len(B) + 1), j \in 1..(Len(H) + 1)] ==
            IF i > Len(B) \/ j > Len(H) THEN [pairs |-> 0, distance |-> 0]
            ELSE LET paired == Scored(best[i + 1, j + 1], B[i].element, H[j].element)
                 IN  IF <<B[i].index, H[j].index>> \in admits /\ Outranks(paired, BestSkip(best, i, j))
                     THEN paired ELSE BestSkip(best, i, j)
    IN  best

\* Walked from the front, taking a pair wherever it is on an optimal path.
AssignInOrder(B, H, admits) ==
    LET best == BestFromSuffix(B, H, admits)
        walk[i \in 1..(Len(B) + 1), j \in 1..(Len(H) + 1)] ==
            CASE i > Len(B) \/ j > Len(H) -> {}
              [] i <= Len(B) /\ j <= Len(H) ->
                    IF /\ <<B[i].index, H[j].index>> \in admits
                       /\ Scored(best[i + 1, j + 1], B[i].element, H[j].element) = best[i, j]
                    THEN {<<B[i].index, H[j].index>>} \cup walk[i + 1, j + 1]
                    ELSE IF best[i + 1, j] = best[i, j] THEN walk[i + 1, j] ELSE walk[i, j + 1]
    IN  walk[1, 1]

-----------------------------------------------------------------------------
(* classifyArrayDelta: an exact pass, then one by proximity, key by key *)

\* groupByKey, less what earlier passes took: the slots keep their place in the whole array.
SlotsOf(A, key, free) ==
    SelectSeq([i \in DOMAIN A |-> [index |-> i, element |-> A[i]]],
              LAMBDA slot : slot.element.key = key /\ slot.index \in free)

Keys(B, H) == {B[i].key : i \in DOMAIN B} \cap {H[i].key : i \in DOMAIN H}

\* The pairs of places a pass may take.
Exact(B, H) == {p \in (DOMAIN B) \X (DOMAIN H) : SameElement(B[p[1]], H[p[2]])}
Near(B, H, fuzz) == {p \in (DOMAIN B) \X (DOMAIN H) : Distance(B[p[1]], H[p[2]]) <= fuzz}

Pass(B, H, taken, admits) ==
    LET freeBase == DOMAIN B \ {p[1] : p \in taken}
        freeHead == DOMAIN H \ {p[2] : p \in taken}
    IN  UNION {AssignInOrder(SlotsOf(B, key, freeBase), SlotsOf(H, key, freeHead), admits) :
                   key \in Keys(B, H)}

\* Mutant of Partners: one pass, by proximity alone.
PartnersByProximity(B, H, fuzz) ==
    Pass(B, H, {}, Near(B, H, fuzz))

\* partnerOf, as pairs of places.
Partners(B, H, fuzz) ==
    LET exact == Pass(B, H, {}, Exact(B, H))
    IN  exact \cup Pass(B, H, exact, Near(B, H, fuzz))

Places(A, S) == [i \in 1..Cardinality(S) |-> A[SetToSortSeq(S, <)[i]]]

ArrayDelta(B, H, fuzz) ==
    LET partners == Partners(B, H, fuzz)
    IN  [added    |-> Places(H, DOMAIN H \ {p[2] : p \in partners}),
         removed  |-> Places(B, DOMAIN B \ {p[1] : p \in partners}),
         modified |-> Places(H, {p[2] : p \in {q \in partners : ~SameElement(B[q[1]], H[q[2]])}})]

-----------------------------------------------------------------------------
(* computeSymbolDelta *)

\* What is paired by line, and how far apart a pair's lines may be.
PairedAxes == {"rules", "effects", "calls", "decorators"}
Fuzz(axis) == IF axis = "effects" THEN Unbounded ELSE DEFAULT_LINE_FUZZ

\* A default export's name, which no Symbol has.
DEFAULT_EXPORT_NAME == 0

\* exportNames, from the tokens of derivedBy: export-keyword gives the Symbol's own name.
ExportNames(f) ==
    (IF f.exported.keyword THEN {f.name} ELSE {})
        \cup (IF f.exported.default THEN {DEFAULT_EXPORT_NAME} ELSE {})
        \cup f.exported.clauses

\* diffStringSet, and diffStringList: place by place.
StringSetDelta(B, H) == [added |-> H \ B, removed |-> B \ H]
Replaced(A, B) == Places(A, {i \in DOMAIN A : i \in DOMAIN B => A[i] # B[i]})
StringListDelta(B, H) == [added |-> Replaced(H, B), removed |-> Replaced(B, H)]

Occurrences(A, x, n) == Cardinality({i \in 1..n : A[i] = x})

\* What one side has beyond the other's count of it, the earlier ones paired first.
BeyondCounts(A, B) == Places(A, {i \in DOMAIN A : Occurrences(A, A[i], i) > Occurrences(B, A[i], Len(B))})

LongestCommonSubsequence(A, B) ==
    LET lcs[i \in 0..Len(A), j \in 0..Len(B)] ==
            CASE i = 0 \/ j = 0 -> 0
              [] i > 0 /\ j > 0 ->
                    IF A[i] = B[j] THEN lcs[i - 1, j - 1] + 1
                    ELSE IF lcs[i - 1, j] > lcs[i, j - 1] THEN lcs[i - 1, j] ELSE lcs[i, j - 1]
    IN  lcs[Len(A), Len(B)]

MiddlewareDelta(B, H) ==
    LET removed == BeyondCounts(B, H)
    IN  [added     |-> BeyondCounts(H, B),
         removed   |-> removed,
         reordered |-> LongestCommonSubsequence(B, H) < Len(B) - Len(removed)]

\* A parameter is paired with the one in its place that has its name.
InputElements(inputs) ==
    [i \in DOMAIN inputs |-> [key |-> <<i, inputs[i].name>>, parts |-> <<inputs[i].written>>, line |-> i]]

NoSignatureAtAll ==
    [inputs |-> <<>>, outputs |-> <<>>, throws |-> {}, async |-> FALSE, generator |-> FALSE,
     typeParameters |-> <<>>]

\* diffSignature, and oneSidedSignatureDelta: the whole of the present side is added or removed.
SignatureDelta(B, H) ==
    LET b == IF B = {} THEN NoSignatureAtAll ELSE CHOOSE s \in B : TRUE
        h == IF H = {} THEN NoSignatureAtAll ELSE CHOOSE s \in H : TRUE
    IN  IF B = {} /\ H = {} THEN {}
        ELSE {[inputs                |-> ArrayDelta(InputElements(b.inputs), InputElements(h.inputs), 0),
               outputs               |-> StringListDelta(b.outputs, h.outputs),
               throws                |-> StringSetDelta(b.throws, h.throws),
               asyncChanged          |-> b.async # h.async,
               generatorChanged      |-> b.generator # h.generator,
               typeParametersChanged |-> b.typeParameters # h.typeParameters]}

\* moved says which of the fingerprints, and whether the confidence, differ.
FieldDelta(b, h, moved) ==
    [apiChanged        |-> moved.api,
     logicChanged      |-> moved.logic,
     syntaxChanged     |-> moved.syntax,
     confidenceChanged |-> moved.confidence,
     axes              |-> [axis \in PairedAxes |-> ArrayDelta(b[axis], h[axis], Fuzz(axis))],
     exportedAs        |-> StringSetDelta(ExportNames(b), ExportNames(h)),
     signature         |-> SignatureDelta(b.signature, h.signature),
     middleware        |-> MiddlewareDelta(b.middleware, h.middleware),
     componentChanged  |-> b.component # h.component,
     visibilityChanged |-> b.visibility # h.visibility]

-----------------------------------------------------------------------------
(* The fingerprints: what of a Symbol's facts they hash *)

\* canonicalizeExportNames: left out for a Symbol exported under its own name alone.
HashedExports(f) == IF ExportNames(f) = {f.name} THEN {} ELSE ExportNames(f)

\* canonicalizeParameter leaves the name out, canonicalizeDecorators the arguments' lines.
HashedSignature(s) ==
    [s EXCEPT !.inputs = [i \in DOMAIN s.inputs |-> s.inputs[i].written]]
HashedDecorators(f) ==
    LET D == f.decorators
    IN  [name \in {D[i].key : i \in DOMAIN D} |->
            LET named == SelectSeq(D, LAMBDA d : d.key = name)
            IN  [i \in DOMAIN named |-> <<named[i].parts, named[i].boundary>>]]

\* buildApiInput, but for what MatchStages tells apart by itself: the kinds and the short name.
ApiInput(f) == <<HashedDecorators(f), HashedExports(f), {HashedSignature(s) : s \in f.signature}, f.visibility>>

\* buildLogicInput, where no effect is propagated: the rules, the effects' targets, the middleware.
LogicInput(f) ==
    <<[i \in DOMAIN f.rules |-> <<f.rules[i].key, f.rules[i].parts>>],
      [i \in DOMAIN f.effects |-> f.effects[i].key],
      f.middleware>>

-----------------------------------------------------------------------------
(* The projection: the base value a modified row may print *)

\* sameValue compares whole elements, their lines too.
WithoutEach(values, taken) ==
    FoldLeft(LAMBDA left, value : RemoveFirst(left, value), values, taken)

\* Mutant of Alike: two elements are alike where they read alike.
AlikeAsRead(a, b) ==
    a.key = b.key /\ \A p \in DOMAIN a.parts : Reads[a.parts[p]] = Reads[b.parts[p]]
Alike(a, b) == a.key = b.key /\ \A p \in DOMAIN a.parts : a.parts[p] = b.parts[p]

\* modifiedBases: what is left of the base once each unchanged head element took one like it.
ModifiedBases(delta, before, after) ==
    LET kept == WithoutEach(before, delta.removed)
        unchanged == WithoutEach(after, delta.added \o delta.modified)
        left == FoldLeft(LAMBDA l, item : RemoveFirstMatch(l, LAMBDA b : Alike(b, item)),
                         kept, unchanged)
    IN  {b \in ToSet(kept) : \E l \in ToSet(left) : Alike(l, b)}

CandidatesFor(item, delta, before, after) ==
    {b \in ModifiedBases(delta, before, after) : b.key = item.key /\ ~Alike(b, item)}

\* modifiedPart: the base's reading, where every candidate agrees on it, else nothing.
BaseReading(part, item, candidates) ==
    LET readings == {Reads[c.parts[part]] : c \in candidates}
    IN  IF \/ \E c \in candidates : c.parts[part] = item.parts[part]
           \/ Cardinality(readings) # 1
           \/ Reads[item.parts[part]] \in readings
        THEN {} ELSE readings

-----------------------------------------------------------------------------
(* The projection: the rows of a changed Symbol, each by its label and bucket *)

Buckets == {"added", "removed", "modified"}
FieldRow(label, holds) == IF holds THEN {<<label, "changed">>} ELSE {}

\* bucketRows, appendInlineRow: a row, or a list of them, for each bucket that holds anything.
BucketRows(label, delta, nothing) ==
    {<<label, bucket>> : bucket \in {k \in Buckets \cap DOMAIN delta : delta[k] # nothing}}

SignatureRows(sig) ==
    FieldRow("outputs", sig.outputs.added # <<>> \/ sig.outputs.removed # <<>>)
        \cup BucketRows("throws", sig.throws, {})
        \cup BucketRows("inputs", sig.inputs, <<>>)
        \cup FieldRow("async", sig.asyncChanged)
        \cup FieldRow("generator", sig.generatorChanged)
        \cup FieldRow("typeParameters", sig.typeParametersChanged)

\* The name row already says it.
OnlyOwnNameRenamed(delta, b, h) == delta.exportedAs = [added |-> {h.name}, removed |-> {b.name}]

ExportRows(delta, b, h) ==
    IF OnlyOwnNameRenamed(delta, b, h) THEN {} ELSE BucketRows("export name", delta.exportedAs, {})

MiddlewareRows(delta) ==
    {r \in BucketRows("middleware", delta, <<>>) : r[2] # "modified"}
        \cup FieldRow("middleware order", delta.reordered)

DetailRows(delta, b, h) ==
    UNION {SignatureRows(sig) : sig \in delta.signature}
        \cup ExportRows(delta, b, h)
        \cup MiddlewareRows(delta.middleware)
        \cup UNION {BucketRows(axis, delta.axes[axis], <<>>) : axis \in PairedAxes}

\* appendUnexplainedChangeNote: one note, of the first fingerprint that changed.
UnexplainedChangeNote(delta) ==
    CASE delta.apiChanged -> {<<"note", "API">>}
      [] ~delta.apiChanged /\ delta.logicChanged -> {<<"note", "logic">>}
      [] ~delta.apiChanged /\ ~delta.logicChanged /\ delta.syntaxChanged -> {<<"note", "syntax">>}
      [] OTHER -> {}

\* Neither a longer name nor a Component nor a confidence explains a fingerprint.
Explained(delta, b, h) ==
    DetailRows(delta, b, h) # {} \/ b.short # h.short \/ delta.visibilityChanged

RenderDeltaBody(delta, b, h) ==
    FieldRow("name", b.name # h.name)
        \cup DetailRows(delta, b, h)
        \cup FieldRow("component", delta.componentChanged)
        \cup FieldRow("visibility", delta.visibilityChanged)
        \cup FieldRow("confidence", delta.confidenceChanged)
        \cup IF Explained(delta, b, h) THEN {} ELSE UnexplainedChangeNote(delta)

-----------------------------------------------------------------------------
(* What is promised of them *)

\* The sets of pairs a pass may choose from: of one key, admissible, one to one, not crossing.
Crossing(p, q) == p[1] = q[1] \/ p[2] = q[2] \/ (p[1] < q[1] /\ p[2] > q[2])
InOrderPairings(E) == {M \in SUBSET E : \A p, q \in M : p # q => ~Crossing(p, q)}
TotalDistance(B, H, M) == MapThenSumSet(LAMBDA p : Distance(B[p[1]], H[p[2]]), M)

\* M is as good a choice as E offers: more pairs beats fewer, less distance wins among equals.
BestOf(B, H, E, M) ==
    /\ M \in InOrderPairings(E)
    /\ \A N \in InOrderPairings(E) :
           \/ Cardinality(N) < Cardinality(M)
           \/ Cardinality(N) = Cardinality(M) /\ TotalDistance(B, H, N) >= TotalDistance(B, H, M)

\* Each pass takes the best set of its pairs, over what the pass before it left.
PassesAreBest(B, H, fuzz) ==
    LET places == (DOMAIN B) \X (DOMAIN H)
        OfKey(S, key) == {p \in S : B[p[1]].key = key /\ H[p[2]].key = key}
        exact == Pass(B, H, {}, Exact(B, H))
    IN  \A key \in Keys(B, H) :
            LET first == OfKey(exact, key)
                second == OfKey(Partners(B, H, fuzz), key) \ first
                free == {p \in OfKey(places, key) : \A q \in first : q[1] # p[1] /\ q[2] # p[2]}
            IN  /\ BestOf(B, H, OfKey(Exact(B, H), key), first)
                /\ BestOf(B, H, free \cap Near(B, H, fuzz), second)

\* A row that prints a base value prints the value of the element the diff paired.
ReadingsAreTrue(B, H, fuzz) ==
    LET delta == ArrayDelta(B, H, fuzz)
    IN  \A p \in Partners(B, H, fuzz) :
            ~SameElement(B[p[1]], H[p[2]]) =>
                LET candidates == CandidatesFor(H[p[2]], delta, B, H)
                IN  \A part \in DOMAIN H[p[2]].parts :
                        BaseReading(part, H[p[2]], candidates)
                            \subseteq {Reads[B[p[1]].parts[part]]}
\* The same of a parameter, whose row is found by its name alone, whatever its place.
KeyedByName(A) == [i \in DOMAIN A |-> [key |-> A[i].key[2], parts |-> A[i].parts, line |-> 0]]
InputReadingsAreTrue(b, h) ==
    LET B == InputElements(b.inputs)
        H == InputElements(h.inputs)
        delta == ArrayDelta(B, H, 0)
        named == [bucket \in Buckets |-> KeyedByName(delta[bucket])]
        Counterparts(row) == CandidatesFor(row, named, KeyedByName(B), KeyedByName(H))
    IN  \A p \in Partners(B, H, 0) :
            ~SameElement(B[p[1]], H[p[2]]) =>
                BaseReading(1, KeyedByName(H)[p[2]], Counterparts(KeyedByName(H)[p[2]]))
                    \subseteq {Reads[B[p[1]].parts[1]]}

\* Elements that are not the same, taken together, are told; and what is told, the documents differ in.
KeyAndParts(A) == [i \in DOMAIN A |-> <<A[i].key, A[i].parts>>]
AxisIsTold(axis, rows, b, h) ==
    LET B == KeyAndParts(b[axis])
        H == KeyAndParts(h[axis])
        told == \E bucket \in Buckets : <<axis, bucket>> \in rows
    IN  /\ (\E x \in ToSet(B) \cup ToSet(H) : Occurrences(B, x, Len(B)) # Occurrences(H, x, Len(H))) => told
        /\ told => b[axis] # h[axis]

\* The facts, less what explains no fingerprint: the owner in the name, the Component, the confidence.
AllButWhere(f) == [f EXCEPT !.name = 0, !.component = {}, !.confidence = "none"]

SignatureLabels == {"outputs", "throws", "inputs", "async", "generator", "typeParameters"}

\* A changed Symbol's entry says something, and each field it lists says it changed exactly where the
\* documents differ in it: a chain of middleware by its order too, an export name by the row of the
\* Symbol's own name where that is all. A signature beside none is told by what it has. A fingerprint
\* that changed with no field to show for it is said to have, in so many words.
EveryChangeIsTold(delta, b, h) ==
    LET rows == RenderDeltaBody(delta, b, h)
        Told(labels) == \E r \in rows : r[1] \in labels
        Written(s) == IF s = {} THEN {NoSignatureAtAll} ELSE s
    IN  /\ rows # {}
        /\ \A axis \in PairedAxes : AxisIsTold(axis, rows, b, h)
        /\ Told({"middleware", "middleware order"}) <=> b.middleware # h.middleware
        /\ Told(SignatureLabels) <=> Written(b.signature) # Written(h.signature)
        /\ \A bucket \in {"added", "removed"} : \A n \in delta.exportedAs[bucket] :
               \/ <<"export name", bucket>> \in rows
               \/ <<"name", "changed">> \in rows /\ n = (IF bucket = "added" THEN h.name ELSE b.name)
        /\ /\ AllButWhere(b) = AllButWhere(h)
           /\ delta.apiChanged \/ delta.logicChanged \/ delta.syntaxChanged
           => Told({"note", "export name"})
=============================================================================
