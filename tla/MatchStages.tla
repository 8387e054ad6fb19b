----------------------------- MODULE MatchStages -----------------------------
(***************************************************************************)
(* How a diff pairs the Symbols of two documents and what it reports of    *)
(* each (packages/diff/src: diff.ts, match/, status.ts and the loss lookup *)
(* of components.ts). Five stages consume Symbols in turn; whatever none   *)
(* of them paired is added, removed, unknown or only counted.              *)
(*                                                                         *)
(* A Symbol's id is its file and its qualified name. How alike two names   *)
(* or signatures are is given as tables, which NameSimilarity computes.    *)
(* The last stage keeps a maximum set of the pairs its keys identify:      *)
(* module DroppedWeak is how the code finds one.                           *)
(***************************************************************************)
EXTENDS Integers, FiniteSets

CONSTANTS
    Files, Names,    \* integers, ordered as the strings are
    Kinds, Logics, Syntaxes, Signatures,
    BaseName,        \* the last segment of a file's path
    LastSegment,     \* of a qualified name
    NameScore,       \* scorer.name of two names
    MemberScore,     \* scorer.member
    IndexedUnder,    \* the tokens of a name's last segment, or a mark of having none
    Corresponding,   \* scorer.ownersCompatible: the pairs of names it holds of
    SignatureScore,  \* signatureSimilarity
    Threshold,       \* rowFor: the composite score a head name asks for
    Parts,           \* every ratio is a number of twentieths of these
    Telling,         \* the names that say enough to pair on
    NamesNothing,    \* the logic fingerprints of bodies that name nothing: both read the same fields
    Inputs           \* the pairs of documents, with git's renames and the skipped files

\* ZERO_FINGERPRINT, and the null signature.
Zero == 0
NoSignature == 0

Symbols ==
    [file : Files, name : Names, kind : Kinds, logic : Logics, syntax : Syntaxes,
     sig : Signatures, dropped : BOOLEAN, ext : BOOLEAN, confidence : {"high", "medium", "low"}]

Id(s) == <<s.file, s.name>>
IdLess(s, t) == s.file < t.file \/ (s.file = t.file /\ s.name < t.name)

\* assertDiffable: no id twice in one document.
Distinct(S) == \A s, t \in S : Id(s) = Id(t) => s = t

ASSUME OrderAssumption == Files \subseteq Nat /\ Names \subseteq Nat

\* The ratio 1. The code compares fractions, which these are, of one denominator.
Scale == 20 * Parts

NAME_DISAMBIGUATION_THRESHOLD == 17 * Parts
TWO_TOKEN_THRESHOLD == 19 * Parts

ASSUME ScoreAssumption ==
    /\ Parts \in Nat \ {0}
    /\ NameScore \in [Names \X Names -> 0..Scale]
    /\ MemberScore \in [Names \X Names -> 0..Scale]
    /\ \A n, m \in Names : MemberScore[<<n, m>>] > 0 => IndexedUnder[n] \cap IndexedUnder[m] # {}
    /\ SignatureScore \in [Signatures \X Signatures -> 0..Scale]
    /\ Threshold \in [Names -> {NAME_DISAMBIGUATION_THRESHOLD, TWO_TOKEN_THRESHOLD, Scale}]
ASSUME InputsAssumption ==
    \A i \in Inputs :
        /\ i.base \subseteq Symbols /\ i.head \subseteq Symbols
        /\ IsFiniteSet(i.base) /\ IsFiniteSet(i.head)
        /\ Distinct(i.base) /\ Distinct(i.head)
        /\ i.renames \subseteq Files \X Files
        /\ \A r, q \in i.renames : r[1] = q[1] => r = q
        /\ i.lostByBase \subseteq Files /\ i.lostByHead \subseteq Files

VARIABLES
    input,       \* the two documents, git's rename map, the files each side skipped
    stage,       \* the matching stage under way, then "report" and "done"
    pairs,       \* the pairs matched so far
    group,       \* the logic group under way, NoGroup between two
    grouped,     \* the logic groups done
    candidates,  \* acceptInScoreOrder: the scored pairs still to decide
    entries,     \* diff.symbols
    counted      \* what only a summary counter stands for: unchanged pairs, dropped Symbols

vars == <<input, stage, pairs, group, grouped, candidates, entries, counted>>

NoGroup == <<>>

\* unclaimed: a stage's remainder, by id.
RemainingBase == {b \in input.base : \A p \in pairs : Id(p.base) # Id(b)}
RemainingHead == {h \in input.head : \A p \in pairs : Id(p.head) # Id(h)}

Pair(b, h, r) == [base |-> b, head |-> h, rationale |-> r]

Init ==
    /\ input \in Inputs
    /\ stage = "id"
    /\ pairs = {} /\ candidates = {} /\ entries = {} /\ counted = {}
    /\ group = NoGroup /\ grouped = {}

-----------------------------------------------------------------------------
(* Stages 1 and 2: the same id, and the same id under git's rename *)

\* Mutant of SameId: a Symbol whose kind changed is not the same Symbol.
SameIdAndKind(b, h) == Id(b) = Id(h) /\ b.kind = h.kind
SameId(b, h) == Id(b) = Id(h)

MatchById ==
    /\ stage = "id"
    /\ pairs' = {Pair(p[1], p[2], "id-match") : p \in
                   {q \in input.base \X input.head : SameId(q[1], q[2])}}
    /\ stage' = "git-rename"
    /\ UNCHANGED <<input, group, grouped, candidates, entries, counted>>

\* claimants: the base Symbols whose file git renamed to h's and whose rewritten id is h's.
Claimants(h) ==
    {b \in RemainingBase : <<b.file, h.file>> \in input.renames /\ b.name = h.name}

\* Mutant of Winners: every claimant is paired.
WinnersAll(h) == Claimants(h)

\* lowestId: of several claimants one is paired.
Winners(h) == {b \in Claimants(h) : \A c \in Claimants(h) : c # b => IdLess(b, c)}

MatchByRename ==
    /\ stage = "git-rename"
    /\ pairs' = pairs \cup {Pair(p[1], p[2], "git-rename") : p \in
                   {q \in RemainingBase \X RemainingHead : q[1] \in Winners(q[2])}}
    /\ stage' = "logic"
    /\ UNCHANGED <<input, group, grouped, candidates, entries, counted>>

-----------------------------------------------------------------------------
(* acceptInScoreOrder, which stages 3 and 4 share *)

Candidate(b, h, score) == [base |-> b, head |-> h, score |-> score]

\* compareByEndpoints.
EndpointsLess(p, q) ==
    IdLess(p.base, q.base) \/ (Id(p.base) = Id(q.base) /\ IdLess(p.head, q.head))

\* Mutant of Before: candidates are taken by id alone.
BeforeById(p, q) == EndpointsLess(p, q)

\* compareCandidates.
Before(p, q) == p.score > q.score \/ (p.score = q.score /\ EndpointsLess(p, q))

Undecided(p) == {q \in candidates : q.base # p.base /\ q.head # p.head}

\* The next candidate neither of whose Symbols is claimed. It claims them.
AcceptBest(rationale) ==
    \E p \in candidates :
        /\ \A q \in candidates \ {p} : Before(p, q)
        /\ pairs' = pairs \cup {Pair(p.base, p.head, rationale)}
        /\ candidates' = Undecided(p)

-----------------------------------------------------------------------------
(* Stage 3: the same logic fingerprint *)

CarriesLogic(s) == ~s.dropped /\ s.logic # Zero

\* logicKey. A group of bodies that name nothing admits only names that say enough.
GroupOf(s) == <<s.kind, s.logic>>
Evidenceless(g) == g[2] \in NamesNothing
Admissible(s, g) ==
    CarriesLogic(s) /\ GroupOf(s) = g /\ (Evidenceless(g) => s.name \in Telling)
FreeBase(g) == {b \in RemainingBase : Admissible(b, g)}
FreeHead(g) == {h \in RemainingHead : Admissible(h, g)}

Similarity(b, h) == NameScore[b.name, h.name]

\* closestNameTo: the highest score, of equals the lowest id.
ClosestTo(b, S) ==
    {h \in S : \A k \in S \ {h} :
        \/ Similarity(b, h) > Similarity(b, k)
        \/ Similarity(b, h) = Similarity(b, k) /\ IdLess(h, k)}

CandidatesIn(g) ==
    {Candidate(p[1], p[2], Similarity(p[1], p[2])) : p \in
        {q \in FreeBase(g) \X FreeHead(g) :
            Similarity(q[1], q[2]) >= NAME_DISAMBIGUATION_THRESHOLD}}

\* The keys of headGroups, which stage 3 goes through.
Groups == {GroupOf(h) : h \in {s \in RemainingHead : CarriesLogic(s)}}

OpenGroup(g) ==
    /\ stage = "logic" /\ group = NoGroup
    /\ g \in Groups \ grouped
    /\ group' = g
    /\ UNCHANGED <<input, stage, pairs, grouped, candidates, entries, counted>>

CloseGroup ==
    /\ grouped' = grouped \cup {group}
    /\ group' = NoGroup

\* The while loop of a group begins a round.
RoundBegins(g) == group = g /\ g # NoGroup /\ candidates = {}

\* Mutant of Alone: the group is asked only once, before any round.
AloneAtFirst(g) ==
    ~Evidenceless(g) /\ Cardinality({b \in input.base : Admissible(b, g)}) = 1

\* A lone base Symbol follows its body whatever its name is, unless the body names nothing.
Alone(g) == ~Evidenceless(g) /\ Cardinality(FreeBase(g)) = 1

PairLone(g) ==
    /\ RoundBegins(g) /\ Alone(g)
    /\ \E b \in FreeBase(g) : \E h \in ClosestTo(b, FreeHead(g)) :
           pairs' = pairs \cup {Pair(b, h, "logic-fingerprint")}
    /\ CloseGroup
    /\ UNCHANGED <<input, stage, candidates, entries, counted>>

\* Otherwise the names that are close enough are scored for a round.
ScoreGroup(g) ==
    /\ RoundBegins(g) /\ ~Alone(g)
    /\ CandidatesIn(g) # {}
    /\ candidates' = CandidatesIn(g)
    /\ UNCHANGED <<input, stage, pairs, group, grouped, entries, counted>>

AcceptByLogic ==
    /\ stage = "logic"
    /\ AcceptBest("logic-fingerprint+name-disambiguation")
    /\ UNCHANGED <<input, stage, group, grouped, entries, counted>>

\* The group is exhausted: one side of it is, or no name is close enough.
LeaveGroup(g) ==
    /\ RoundBegins(g)
    /\ IF Alone(g) THEN FreeHead(g) = {} ELSE CandidatesIn(g) = {}
    /\ CloseGroup
    /\ UNCHANGED <<input, stage, pairs, candidates, entries, counted>>

-----------------------------------------------------------------------------
(* Stage 4: a name and a signature that are close enough together *)

\* ruleRefusing, and no dropped Symbol.
Compared(s) == ~s.dropped /\ s.name \in Telling /\ s.sig # NoSignature

\* scoreOf, in tenths: weights of 5 for the member, 3 for the signature and 2 for the owner, which
\* is satisfied in full.
Composite(b, h) ==
    5 * MemberScore[b.name, h.name] + 3 * SignatureScore[b.sig, h.sig] + 2 * Scale

\* A pair that stage 4 may make, told without its shortcuts.
Comparable(b, h) ==
    /\ Compared(b) /\ Compared(h) /\ b.kind = h.kind
    /\ <<b.name, h.name>> \in Corresponding
    /\ Composite(b, h) >= 10 * Threshold[h.name]

\* basesSharingAToken: the whole bucket where the index would reach as many of it.
Bucket(kind) == {b \in RemainingBase : Compared(b) /\ b.kind = kind}
Reached(h) == {p \in IndexedUnder[h.name] \X Bucket(h.kind) : p[1] \in IndexedUnder[p[2].name]}
BasesSharingAToken(h) ==
    IF Cardinality(Reached(h)) >= Cardinality(Bucket(h.kind)) THEN Bucket(h.kind)
    ELSE {p[2] : p \in Reached(h)}

\* row.memberFloor: a member below it leaves a pair short of the threshold whatever else it has.
AboveFloor(b, h) == 5 * MemberScore[b.name, h.name] >= 10 * Threshold[h.name] - 5 * Scale

\* collectCandidate.
Collected(b, h) ==
    /\ AboveFloor(b, h)
    /\ <<b.name, h.name>> \in Corresponding
    /\ Composite(b, h) >= 10 * Threshold[h.name]

CandidatesOf(h) ==
    {Candidate(b, h, Composite(b, h)) : b \in {c \in BasesSharingAToken(h) : Collected(c, h)}}

ScoreNames ==
    /\ stage = "logic" /\ group = NoGroup /\ Groups \subseteq grouped
    /\ stage' = "name"
    /\ candidates' = UNION {CandidatesOf(h) : h \in {k \in RemainingHead : Compared(k)}}
    /\ UNCHANGED <<input, pairs, group, grouped, entries, counted>>

AcceptByName ==
    /\ stage = "name"
    /\ AcceptBest("name-signature")
    /\ UNCHANGED <<input, stage, group, grouped, entries, counted>>

-----------------------------------------------------------------------------
(* Stage 5: dropped Symbols, by a key only one Symbol of each side has *)

\* nameKey and fileKey.
Key(s, by) == <<s.kind, IF by = "name" THEN LastSegment[s.name] ELSE BaseName[s.file]>>
DroppedOf(S) == {s \in S : s.dropped}
SoleCarrier(s, S, by) == \A t \in S \ {s} : Key(t, by) # Key(s, by)

IdentifiedIn(B, H) ==
    {p \in B \X H : \E by \in {"name", "file"} :
        /\ Key(p[1], by) = Key(p[2], by)
        /\ SoleCarrier(p[1], B, by) /\ SoleCarrier(p[2], H, by)}

IsMatching(M) == \A p, q \in M : p # q => p[1] # q[1] /\ p[2] # q[2]
MaximumMatchings(E) ==
    LET matchings == {M \in SUBSET E : IsMatching(M)}
    IN  {M \in matchings : \A L \in matchings : Cardinality(L) <= Cardinality(M)}

MatchDropped ==
    /\ stage = "name" /\ candidates = {}
    /\ \E M \in MaximumMatchings(IdentifiedIn(DroppedOf(RemainingBase), DroppedOf(RemainingHead))) :
           pairs' = pairs \cup {Pair(p[1], p[2], "dropped-weak-match") : p \in M}
    /\ stage' = "report"
    /\ UNCHANGED <<input, group, grouped, candidates, entries, counted>>

-----------------------------------------------------------------------------
(* The report *)

\* The fingerprints, which a dropped Symbol does not have, and the confidence, which is not compared
\* for one.
Content(s) ==
    IF s.dropped THEN <<>> ELSE <<s.kind, LastSegment[s.name], s.sig, s.ext, s.logic, s.syntax, s.confidence>>

\* classifyStatus.
Status(b, h) ==
    LET path == Id(b) # Id(h)
        content == Content(b) # Content(h)
    IN  CASE b.dropped # h.dropped -> "dropped-toggled"
          [] b.dropped = h.dropped /\ path /\ content -> "moved+changed"
          [] b.dropped = h.dropped /\ path /\ ~content -> "moved"
          [] b.dropped = h.dropped /\ ~path /\ content -> "changed"
          [] OTHER -> "unchanged"

Entry(status, before, after, duplicateOf) ==
    [status |-> status, before |-> before, after |-> after, duplicateOf |-> duplicateOf]

PairEntries == {Entry(Status(p.base, p.head), {p.base}, {p.head}, {}) : p \in pairs}

\* Mutant of NamesInBase: the rename map is read in the direction the head's lookup takes.
NamesInBaseForward(f) == {f} \cup {r[2] : r \in {q \in input.renames : q[1] = f}}

\* lostCounterpart: the names a file goes by on the side that does not have the Symbol.
NamesInBase(f) == {f} \cup {r[1] : r \in {q \in input.renames : q[2] = f}}
NamesInHead(f) == {f} \cup {r[2] : r \in {q \in input.renames : q[1] = f}}

LeftoverHead(h) ==
    CASE h.dropped -> Entry("dropped-added", {}, {h}, {})
      [] ~h.dropped /\ NamesInBase(h.file) \cap input.lostByBase # {} -> Entry("unknown", {}, {h}, {})
      [] OTHER -> Entry("added", {}, {h}, {})

\* survivorsOf: a head Symbol, paired or not, that holds a removed Symbol's body.
Survivor(b) ==
    IF b.ext \/ ~CarriesLogic(b) \/ b.logic \in NamesNothing THEN {}
    ELSE ClosestTo(b, {h \in input.head :
             CarriesLogic(h) /\ GroupOf(h) = GroupOf(b) /\ h.syntax = b.syntax})

LeftoverBase(b) ==
    CASE b.dropped -> Entry("dropped-removed", {b}, {}, {})
      [] ~b.dropped /\ NamesInHead(b.file) \cap input.lostByHead # {} -> Entry("unknown", {b}, {}, {})
      [] OTHER -> Entry("removed", {b}, {}, {Id(h) : h \in Survivor(b)})

Verdicts ==
    PairEntries \cup {LeftoverHead(h) : h \in RemainingHead}
                \cup {LeftoverBase(b) : b \in RemainingBase}
OnlyCounted == {"unchanged", "dropped-added", "dropped-removed"}

Report ==
    /\ stage = "report"
    /\ entries' = {e \in Verdicts : e.status \notin OnlyCounted}
    /\ counted' = {e \in Verdicts : e.status \in OnlyCounted}
    /\ stage' = "done"
    /\ UNCHANGED <<input, pairs, group, grouped, candidates>>

Next ==
    \/ MatchById
    \/ MatchByRename
    \/ \E g \in Kinds \X Logics : OpenGroup(g) \/ PairLone(g) \/ ScoreGroup(g) \/ LeaveGroup(g)
    \/ AcceptByLogic
    \/ ScoreNames
    \/ AcceptByName
    \/ MatchDropped
    \/ Report

Spec == Init /\ [][Next]_vars

-----------------------------------------------------------------------------
(* Properties *)

Stages == {"id", "git-rename", "logic", "name", "report", "done"}
Rationales ==
    {"id-match", "git-rename", "logic-fingerprint", "logic-fingerprint+name-disambiguation",
     "name-signature", "dropped-weak-match"}

\* Types; a scored pair still to decide is of two Symbols nothing has claimed.
TypeOK ==
    /\ input \in Inputs
    /\ stage \in Stages
    /\ pairs \subseteq [base : input.base, head : input.head, rationale : Rationales]
    /\ group \in (Kinds \X Logics) \cup {NoGroup}
    /\ grouped \subseteq Kinds \X Logics
    /\ \A c \in candidates : c.base \in RemainingBase /\ c.head \in RemainingHead
    /\ \A e \in entries \cup counted : e.before \subseteq input.base /\ e.after \subseteq input.head

\* The census of the diff: each Symbol of either document stands in exactly one verdict, an
\* entry of the report or a counter, however many stages and files claimed it.
EachSymbolOnce ==
    stage = "done" =>
        /\ \A b \in input.base : Cardinality({e \in entries \cup counted : b \in e.before}) = 1
        /\ \A h \in input.head : Cardinality({e \in entries \cup counted : h \in e.after}) = 1

\* headIdsByBaseId: the id a base dependency's endpoint is compared under.
HeadIds(b) == {Id(h) : h \in UNION {e.after : e \in {x \in entries : b \in x.before}}}
ComparedUnder(b) == IF HeadIds(b) = {} THEN {Id(b)} ELSE HeadIds(b)

\* Two base Symbols are never compared under one id, so two edges of the base never fall
\* together when their endpoints are read as the head names them: diffDependencies throws on
\* that, and only an endpoint that names no Symbol may make it. An unpaired Symbol keeps its
\* id, so this rests on no head Symbol of that id being given to another base Symbol.
EndpointsStayApart ==
    stage = "done" =>
        \A b, c \in input.base : b # c => ComparedUnder(b) \cap ComparedUnder(c) = {}

PairedBy(R) == {p \in pairs : p.rationale \in R}

\* When the logic stage ends, a Symbol and a body like its own are both left over only if the
\* body says nothing, or two or more base Symbols compete for it and no name is close: the
\* last base Symbol of a group follows its body even when the rounds before took the others.
LoneBodyFollowed ==
    /\ TypeOK
    /\ stage = "name" /\ PairedBy({"name-signature"}) = {} =>
        \A g \in grouped : FreeBase(g) # {} /\ FreeHead(g) # {} =>
            /\ CandidatesIn(g) = {}
            /\ Evidenceless(g) \/ Cardinality(FreeBase(g)) > 1

\* Left to the name stage, a comparable pair was passed over only for one that scores at least
\* as high and shares a Symbol with it: no two Symbols would both rather have been paired with
\* each other.
NoBetterPairLeft ==
    stage \in {"report", "done"} =>
        LET byName == PairedBy({"name-signature"})
            earlier == PairedBy(Rationales \ {"name-signature", "dropped-weak-match"})
        IN  \A b \in input.base, h \in input.head :
                /\ Comparable(b, h)
                /\ \A p \in earlier : p.base # b /\ p.head # h
                => \E p \in byName :
                       (p.base = b \/ p.head = h) /\ Composite(p.base, p.head) >= Composite(b, h)

\* No pair is passed over, neither by its body nor by its name, that nothing better stood against.
NothingPassedOver == LoneBodyFollowed /\ NoBetterPairLeft

\* A Symbol is called added or removed only against a document that read its file: under its
\* own name or the one git says it has there, read in the direction of that side.
AbsenceIsEvidence ==
    \A e \in entries :
        /\ e.status = "removed" => \A b \in e.before, f \in input.lostByHead :
               f # b.file /\ <<b.file, f>> \notin input.renames
        /\ e.status = "added" => \A h \in e.after, f \in input.lostByBase :
               f # h.file /\ <<f, h.file>> \notin input.renames
=============================================================================
