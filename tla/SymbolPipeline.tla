---------------------------- MODULE SymbolPipeline ----------------------------
(***************************************************************************)
(* What a scan makes of one file's declarations                            *)
(* (packages/core/src/scan/pipeline.ts), run by the plugins that           *)
(* ScanSetup loaded: a framework classifies each candidate, the drop rules *)
(* judge it, its body's calls become effects or stay calls, and each word  *)
(* said is checked against the registry as it is said. A file's results    *)
(* reach the document all together or not at all. Its clocks may run out   *)
(* at every look.                                                          *)
(***************************************************************************)
EXTENDS ScanSetup

CONSTANTS
    CoreEffects,  \* effect ids that no plugin owns
    Overruns      \* classifications of a file that run past their budget, at most

VARIABLES
    file,      \* "waiting", "candidates", "classified", "calls"; "extracted", "abandoned", "withdrawn" or an error's code
    left,      \* the candidates still to take
    held,      \* the candidate in hand, its calls still to place and where the others went
    symbols,   \* the file's Symbols so far
    recorded,  \* VocabCheck: the words that no manifest of their plugin declares
    late,      \* ClassifyTimeoutEvent: the classifications that overran
    document   \* what the file gave to the document

pipeline == <<file, left, held, symbols, recorded, late, document>>

Source == ws.file
OfType(type) == SelectSeq(loaded, LAMBDA m : m.type = type)
FrameworkPlugins == OfType("framework")
Language == Head(OfType("lang"))

None == [symbol |-> "none"]
NothingGiven == [symbols |-> <<>>, recorded |-> <<>>, late |-> <<>>]

PipelineInit ==
    /\ SetupInit
    /\ file = "waiting" /\ left = <<>> /\ held = None
    /\ symbols = <<>> /\ recorded = <<>> /\ late = <<>>
    /\ document = NothingGiven

-----------------------------------------------------------------------------
(* The plugins' answers: a hint's by its rules, the others' as the file has them. *)
HintsNamed(m) == {h \in Range(ws.hints) : SynthesizeManifest(h).name = m.name}
TheHint(m) == CHOOSE h \in HintsNamed(m) : TRUE

ClassifySymbol(m, c) ==
    IF HintsNamed(m) # {} THEN Classify(Hits(TheHint(m), c))
    ELSE IF <<m.name, c.id>> \in DOMAIN Source.says THEN Source.says[<<m.name, c.id>>] ELSE Nothing

DropsByHint(m, c) ==
    IF HintsNamed(m) # {} THEN HintDrops(TheHint(m), c) ELSE <<m.name, c.id>> \in Source.drops

Promise == <<"a promise">>
Refusal == <<"refused through ctx.registry">>
ClassifyCall(m, call) ==
    IF <<m.name, call.target>> \in DOMAIN Source.says THEN Source.says[<<m.name, call.target>>] ELSE NoWord

-----------------------------------------------------------------------------
AnsweringFrameworks(c) == {i \in DOMAIN FrameworkPlugins : ClassifySymbol(FrameworkPlugins[i], c) # Nothing}

WithBoundary(decorator, boundaries) ==
    IF WrittenForm(decorator) \in DOMAIN boundaries
    THEN [decorator EXCEPT !.boundary = boundaries[WrittenForm(decorator)]] ELSE decorator

Merge(c, m, said) ==
    [symbol |-> [c EXCEPT !.extKind = IF said.extKind = NoWord THEN @ ELSE said.extKind,
                          !.derivedBy = @ \cup said.derivedBy,
                          !.decorators = [i \in DOMAIN @ |-> WithBoundary(@[i], said.boundaries)]],
     extKindBy |-> IF said.extKind = NoWord THEN Language ELSE m]

\* The first framework that says anything has the Symbol: its extKind, or else the language's own,
\* its boundaries, and its tags with those there were.
MergeFrameworkClassification(c) ==
    LET FromFirst(m) == Merge(c, m, ClassifySymbol(m, c))
        Among(answering) == IF answering = {} THEN [symbol |-> c, extKindBy |-> Language]
                            ELSE FromFirst(FrameworkPlugins[FirstOf(answering)])
    IN  Among(AnsweringFrameworks(c))

Kept == "kept"

\* decideSymbolDrop
CoreDrop(c) ==
    IF Bounded(c) THEN Kept
    ELSE CASE c.kind = "interface" -> "interface (data model)"
           [] c.kind = "type" -> "type alias"
           [] c.kind \in {"function", "method"} /\ ~c.body -> "empty body"
           [] OTHER -> IF <<"re-export">> \in c.derivedBy THEN "re-export" ELSE Kept

\* decideDropReason: the core's rules, every framework in turn, the language.
DropReason(c) ==
    LET dropping == SelectSeq(Append(FrameworkPlugins, Language), LAMBDA m : DropsByHint(m, c))
    IN  IF CoreDrop(c) # Kept THEN CoreDrop(c)
        ELSE IF dropping # <<>> THEN Head(dropping).name ELSE Kept

-----------------------------------------------------------------------------
(* VocabCheck *)
Word(vocabulary, value, m, c) ==
    [vocabulary |-> vocabulary, value |-> value, plugin |-> m, symbol |-> c.id]

IsUndeclared(word) ==
    /\ word.value # NoWord
    /\ word.vocabulary = "effect" => word.value \notin CoreEffects
    /\ ~Finds(word.vocabulary, word.value, word.plugin)

EndsRun(word) == Source.strict /\ IsUndeclared(word)

Record(word) == recorded' = IF IsUndeclared(word) THEN Append(recorded, word) ELSE recorded

-----------------------------------------------------------------------------
(* DropCFilter: a callee is its segments, and a prefix takes whole ones. *)
CoreDropPrefixes ==
    {<<"console", f>> : f \in {"log", "info", "warn", "error", "debug", "trace", "table", "dir",
                               "group", "groupEnd"}}
      \cup {<<"process", s, "write">> : s \in {"stdout", "stderr"}}

Composed(written) == {ToNfc(p) : p \in written}
KeepPrefixes == Composed({IF Head(k) = "@" THEN Tail(k) ELSE k : k \in Source.keep})
DropPrefixes == CoreDropPrefixes \cup Composed(Source.suppress)

MatchesAnyPrefix(target, dropped) == \E p \in dropped : Under(target, p)
ShouldDropCall(call) == ~MatchesAnyPrefix(call.target, KeepPrefixes) /\ MatchesAnyPrefix(call.target, DropPrefixes)

-----------------------------------------------------------------------------
Ends(how) == file' = how
Untouched == UNCHANGED <<left, held, symbols, recorded, late, document>>

\* The tree is extracted, each candidate's names in one form.
ExtractSymbols ==
    /\ file = "waiting" /\ Source.candidates # <<>>
    /\ Ends("candidates")
    /\ left' = Source.candidates
    /\ UNCHANGED <<held, symbols, recorded, late, document>>

\* ParseDeadline: looked at before each candidate.
Abandon ==
    /\ file = "candidates"
    /\ left # <<>>
    /\ Ends("abandoned")
    /\ Untouched

ClassifyCandidate ==
    /\ file = "candidates" /\ left # <<>>
    /\ held' = MergeFrameworkClassification(Head(left))
    /\ left' = Tail(left)
    /\ Ends("classified")
    /\ UNCHANGED <<symbols, recorded, late, document>>

SaidExtKind == Word("extKind", held.symbol.extKind, held.extKindBy, held.symbol)

RefuseExtKind ==
    /\ file = "classified"
    /\ EndsRun(SaidExtKind)
    /\ Ends("vocab-undeclared")
    /\ Untouched

Built(c, effects, calls, reason) ==
    [id |-> c.id, extKind |-> c.extKind, derivedBy |-> c.derivedBy, decorators |-> c.decorators,
     effects |-> effects, calls |-> calls, dropReason |-> reason]

\* A throw of walkBody, as of any step that is no fault of the plugin set, costs the file.
WalkThrows(reason) ==
    /\ reason = Kept /\ held.symbol.throws
    /\ Ends("withdrawn")
    /\ Untouched

\* extractLanguageFromId, once a kept Symbol's body is walked.
RefuseId(reason) ==
    /\ ~held.symbol.prefixed /\ (reason = Kept => ~held.symbol.throws)
    /\ Ends("scan-plugin-misconfigured")
    /\ Untouched

\* buildDroppedSymbol: its body is not walked.
DropSymbol(reason) ==
    /\ reason # Kept /\ held.symbol.prefixed
    /\ Record(SaidExtKind)
    /\ symbols' = Append(symbols, Built(held.symbol, <<>>, <<>>, reason))
    /\ held' = None
    /\ Ends("candidates")
    /\ UNCHANGED <<left, late, document>>

WalkBody(reason) ==
    /\ reason = Kept /\ ~held.symbol.throws /\ held.symbol.prefixed
    /\ Record(SaidExtKind)
    /\ held' = [symbol |-> held.symbol, pending |-> held.symbol.calls, effects |-> <<>>, calls |-> <<>>]
    /\ Ends("calls")
    /\ UNCHANGED <<left, symbols, late, document>>

TakeCandidate ==
    /\ file = "classified"
    /\ ~EndsRun(SaidExtKind)
    /\ \E reason \in {DropReason(held.symbol)} :
         WalkThrows(reason) \/ RefuseId(reason) \/ DropSymbol(reason) \/ WalkBody(reason)

-----------------------------------------------------------------------------
\* normalizeCallStrings
Pending == [Head(held.pending) EXCEPT !.target = ToNfc(@)]

SuppressCall(call) ==
    /\ ShouldDropCall(call)
    /\ held' = [held EXCEPT !.pending = Tail(@)]
    /\ UNCHANGED <<file, left, symbols, recorded, late, document>>

EffectPlugins == OfType("effects")

\* The plugins that are asked about a call: each in turn up to the first that answers.
AskedOf(call, answering) == IF answering = {} THEN EffectPlugins ELSE SubSeq(EffectPlugins, 1, FirstOf(answering))
Asked(call) == AskedOf(call, {i \in DOMAIN EffectPlugins : ClassifyCall(EffectPlugins[i], call) # NoWord})

Heard(call, asked) ==
    IF asked = <<>> THEN [asked |-> asked, by |-> Language, said |-> NoWord]
    ELSE [asked |-> asked, by |-> Last(asked), said |-> ClassifyCall(Last(asked), call)]

\* Not the code: an answer that came past its budget is none.
AnswerInTime(consult, overrun) == IF consult.by \in overrun THEN NoWord ELSE consult.said

\* classifyWithTimeout: an overrun is an event, and its answer stands.
AnswerGiven(consult, overrun) == consult.said

Misconducts(consult) == consult.said \in {Promise, Refusal}
SaidEffect(consult) == Word("effect", consult.said, consult.by, held.symbol)

\* A promise for an answer; a value the plugin itself refused, strict or not; or an undeclared one.
RefuseAnswer(consult) ==
    /\ Misconducts(consult) \/ EndsRun(SaidEffect(consult))
    /\ Ends(IF consult.said = Promise THEN "scan-plugin-misconfigured" ELSE "vocab-undeclared")
    /\ Untouched

Placed(call, given, m) ==
    LET entry == [id |-> given, target |-> call.target, line |-> call.line, plugin |-> m]
    IN  IF given = NoWord THEN [held EXCEPT !.pending = Tail(@), !.calls = Append(@, entry)]
        ELSE [held EXCEPT !.pending = Tail(@), !.effects = Append(@, entry)]

OverrunEvent(m, call) == [plugin |-> m, symbol |-> held.symbol.id, target |-> call.target]

PlaceCall(call, consult) ==
    /\ ~Misconducts(consult) /\ ~EndsRun(SaidEffect(consult))
    /\ \E overrun \in SUBSET Range(consult.asked) :
         /\ Len(late) + Cardinality(overrun) <= Overruns
         /\ late' = late \o SetToSeq({OverrunEvent(m, call) : m \in overrun})
         /\ held' = Placed(call, AnswerGiven(consult, overrun), consult.by)
    /\ Record(SaidEffect(consult))
    /\ UNCHANGED <<file, left, symbols, document>>

ClassifyCallExpression ==
    /\ file = "calls" /\ held.pending # <<>>
    /\ \E call \in {Pending} :
         \/ SuppressCall(call)
         \/ /\ ~ShouldDropCall(call)
            /\ \E consult \in {Heard(call, Asked(call))} : RefuseAnswer(consult) \/ PlaceCall(call, consult)

\* byTargetThenLine, and then by line alone.
Earlier(a, b) == a.line < b.line \/ (a.line = b.line /\ Before(a.target, b.target))

BuildKeptSymbol ==
    /\ file = "calls" /\ held.pending = <<>>
    /\ symbols' = Append(symbols, Built(held.symbol, SortSeq(held.effects, Earlier),
                                        SortSeq(held.calls, Earlier), Kept))
    /\ held' = None
    /\ Ends("candidates")
    /\ UNCHANGED <<left, recorded, late, document>>

TwinIds == \E i, j \in DOMAIN symbols : i # j /\ symbols[i].id = symbols[j].id

\* Not the code: the words are recorded before the Symbols are let in.
GiveAndRecord ==
    document' = [symbols |-> IF TwinIds THEN <<>> ELSE symbols, recorded |-> recorded, late |-> late]

\* extractFiles: a withdrawn file's overruns count, its words do not.
Give ==
    document' = IF TwinIds THEN [NothingGiven EXCEPT !.late = late]
                ELSE [symbols |-> symbols, recorded |-> recorded, late |-> late]

EndFile ==
    /\ file = "candidates" /\ left = <<>>
    /\ Ends(IF TwinIds THEN "withdrawn" ELSE "extracted")
    /\ Give
    /\ UNCHANGED <<left, held, symbols, recorded, late>>

RunFilePipeline ==
    \/ ExtractSymbols \/ Abandon \/ ClassifyCandidate \/ RefuseExtKind \/ TakeCandidate
    \/ ClassifyCallExpression \/ BuildKeptSymbol \/ EndFile

ScanNext ==
    \/ SetupNext /\ UNCHANGED pipeline
    \/ stage = "ready" /\ RunFilePipeline /\ UNCHANGED setupVars

ScanSpec == PipelineInit /\ [][ScanNext]_<<setupVars, pipeline>>

-----------------------------------------------------------------------------
Over == {"extracted", "abandoned", "withdrawn", "vocab-undeclared", "scan-plugin-misconfigured"}

PipelineTypeOK ==
    /\ file \in {"waiting", "candidates", "classified", "calls"} \cup Over
    /\ file \in {"waiting", "candidates", "extracted"} => held = None
    /\ file # "waiting" => stage = "ready"
    /\ Len(late) <= Overruns

Candidate(id) == CHOOSE c \in Range(Source.candidates) : c.id = id

\* Who could have said a Symbol's extKind.
Emitters(s) ==
    {m \in Range(loaded) : \/ m = Language /\ Candidate(s.id).extKind = s.extKind
                           \/ m.type = "framework" /\ ClassifySymbol(m, Candidate(s.id)).extKind = s.extKind}

RecordedAs(word) == \E i \in DOMAIN document.recorded : document.recorded[i] = word

\* Each word in the document is in the manifest of the plugin that said it, or, with strict off, on
\* record against that plugin; and the record names Symbols the document holds, never those of a
\* file that was withdrawn or abandoned (docs/design/extension-vocab.md section 6). A hint's words
\* are always its own: the namespace its rules are moved into is the one its manifest was granted.
WordsAccounted ==
    /\ PipelineTypeOK
    /\ \A s \in Range(document.symbols) :
         /\ s.extKind # NoWord =>
              \E m \in Emitters(s) : IsUndeclared(Word("extKind", s.extKind, m, s)) =>
                                       ~Source.strict /\ RecordedAs(Word("extKind", s.extKind, m, s))
         /\ \A e \in Range(s.effects) :
              IsUndeclared(Word("effect", e.id, e.plugin, s)) =>
                ~Source.strict /\ RecordedAs(Word("effect", e.id, e.plugin, s))
    /\ \A word \in Range(document.recorded) : \E s \in Range(document.symbols) :
         /\ s.id = word.symbol
         /\ \/ s.extKind = word.value
            \/ \E e \in Range(s.effects) : e.id = word.value /\ e.plugin = word.plugin
    /\ outcome = "loaded" =>
         \A h \in Range(ws.hints) : \A c \in Range(Source.candidates) :
             LET said == Classify(Hits(h, c))
                 m == SynthesizeManifest(h)
             IN  /\ said.extKind # NoWord => Finds("extKind", said.extKind, m) /\ ~LookupRaises("extKind", said.extKind)
                 /\ \A tag \in said.derivedBy : Finds("derivedBy", tag, m) /\ ~LookupRaises("derivedBy", tag)

\* The calls of a candidate that the filter lets through, by where an answer would put them.
Let(c) == {i \in DOMAIN c.calls : ~ShouldDropCall([c.calls[i] EXCEPT !.target = ToNfc(@)])}
Answered(call) == {m \in Range(EffectPlugins) : ClassifyCall(m, [call EXCEPT !.target = ToNfc(@)]) # NoWord}

\* A Symbol is what the plugins said of it and never how long they took: each call the filter lets
\* through is an effect of a plugin that answered it, or a call nobody did, once, in the order of
\* the source (docs/design/effect-plugin.md EP13); one with a boundary decorator is left in unless a
\* plugin of its own code drops it. An abandoned file gives nothing (docs/design/lang-plugin.md
\* section 7.1).
AnswersStand ==
    /\ \A s \in Range(document.symbols) :
         LET c == Candidate(s.id) IN
         IF s.dropReason = Kept
         THEN /\ Len(s.effects) = Cardinality({i \in Let(c) : Answered(c.calls[i]) # {}})
              /\ Len(s.calls) = Cardinality({i \in Let(c) : Answered(c.calls[i]) = {}})
              /\ \A e \in Range(s.effects) : \E i \in Let(c) :
                   /\ ToNfc(c.calls[i].target) = e.target /\ c.calls[i].line = e.line
                   /\ e.plugin \in Answered(c.calls[i])
              /\ \A i, j \in DOMAIN s.effects : i < j => s.effects[i].line <= s.effects[j].line
              /\ \A i, j \in DOMAIN s.calls : i < j => s.calls[i].line <= s.calls[j].line
         ELSE /\ s.effects = <<>> /\ s.calls = <<>>
              /\ Bounded(s) => \E m \in Range(loaded) : s.dropReason = m.name /\ HintsNamed(m) = {}
    /\ file \in Over \ {"extracted", "withdrawn"} => document = NothingGiven

=============================================================================
