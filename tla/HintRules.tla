------------------------------- MODULE HintRules -------------------------------
(***************************************************************************)
(* The frameworkHints of a config (packages/config/src/framework-hints.ts): *)
(* each entry is made a framework plugin, its manifest synthesized from    *)
(* what its rules say, and it classifies and drops by those rules.         *)
(***************************************************************************)
EXTENDS PluginRegistry, SequencesExt

NoWord == <<>>

\* An extKind may be written without the "hint" segment only: the loader adds it.
WritesReserved(extKind) == Len(extKind) > 2 /\ Under(extKind, HintNamespace)

InjectHintSegment(extKind) ==
    IF extKind = NoWord THEN NoWord ELSE <<Head(extKind), "hint">> \o Tail(extKind)

\* compileRule: a hint's rules, those for decorators first.
RulesOf(hint) ==
    LET Compiled(r) == [r EXCEPT !.extKind = InjectHintSegment(@)]
    IN  [i \in DOMAIN hint.rules |-> Compiled(hint.rules[i])]

Said(rules, field) == {r[field] : r \in Range(rules)} \ {NoWord}

\* uniqueSortedParentPrefixes
ParentPrefixes(words) == SetToSeq({IF Len(w) > 1 THEN Front(w) ELSE w : w \in words})

Synthesized(hint, rules) ==
    [name |-> hint.plugin, type |-> "framework", root |-> "", plain |-> TRUE,
     ids |-> [v \in Vocabularies |-> IF v = "framework" THEN <<<<hint.name>>>> ELSE <<>>],
     prefixes |-> [v \in Vocabularies |->
                     IF v \in {"extKind", "derivedBy"} THEN ParentPrefixes(Said(rules, v)) ELSE <<>>]]

SynthesizeManifest(hint) == Synthesized(hint, RulesOf(hint))

-----------------------------------------------------------------------------
\* A decorator as the source writes it, receiver included.
WrittenForm(decorator) == <<decorator.qualifier, decorator.name>>

NoDecorator == "none"

\* The rules that apply and the decorators they apply through, in the order of the decorators, then
\* of the class-name patterns.
Hits(hint, symbol) ==
    LET Through(r, d) == [rule |-> r, through |-> d]
        OfClass == SelectSeq(RulesOf(hint), LAMBDA r : r.source = "class name" /\ symbol.name \in r.takes)
    IN  FlattenSeq([i \in DOMAIN symbol.decorators |->
          LET d == symbol.decorators[i]
              named == SelectSeq(RulesOf(hint), LAMBDA r : r.source = "decorator" /\ r.key = d.name)
          IN  [k \in DOMAIN named |-> Through(named[k], WrittenForm(d))]])
        \o (IF symbol.kind = "class" THEN [k \in DOMAIN OfClass |-> Through(OfClass[k], NoDecorator)]
            ELSE <<>>)

\* What a framework says of a Symbol: nothing, or an extKind, tags and boundaries by written form.
Nothing == [extKind |-> NoWord, derivedBy |-> {}, boundaries |-> [w \in {} |-> FALSE]]

\* The first extKind said, each derivedBy, and the boundary of each decorator a rule has one for.
Classify(hits) ==
    LET saying == SelectSeq(hits, LAMBDA h : h.rule.extKind # NoWord)
        bounding == {h \in Range(hits) : h.through # NoDecorator /\ h.rule.boundary # {}}
    IN  [extKind |-> IF saying = <<>> THEN NoWord ELSE Head(saying).rule.extKind,
         derivedBy |-> {h.rule.derivedBy : h \in Range(hits)} \ {NoWord},
         boundaries |-> [w \in {h.through : h \in bounding} |->
                           \E h \in bounding : h.through = w /\ h.rule.boundary = {TRUE}]]

Bounded(symbol) == \E d \in Range(symbol.decorators) : d.boundary

\* symbolDropHint: a boundary decorator overrides a hint's rule too.
HintDrops(hint, symbol) ==
    ~Bounded(symbol) /\ \E h \in Range(Hits(hint, symbol)) : h.rule.drop

=============================================================================
