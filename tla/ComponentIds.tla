----------------------------- MODULE ComponentIds ------------------------------
(***************************************************************************)
(* The Components of a workspace and their ids                             *)
(* (packages/core/src/component.ts, component-id.ts,                       *)
(* component-manifest.ts): the id a package's name or its directory gives, *)
(* and how ids that several claim are told apart, by the directories above *)
(* and at last by a digest of the root. Names are sequences of characters. *)
(***************************************************************************)
EXTENDS Naturals, FiniteSetsExt, DocumentPath

CONSTANTS
    LowerOf,    \* the lowercase letter of each letter that has another
    Digest      \* of a Component's root, in hexadecimal

IsDashless(c) == c \in Lowercase \cup Digits \cup DOMAIN LowerOf

\* An ASCII capital after a small letter or a digit opens a word.
OpensWord(name, i) ==
    /\ i > 1 /\ name[i] \in DOMAIN LowerOf \cap DriveLetters
    /\ name[i - 1] \in Lowercase \cup Digits

\* toKebabCase: one "-" for whatever lies between words, none at either end.
ToKebabCase(name) ==
    LET Dashed(out) == IF out = <<>> \/ Last(out) = "-" THEN out ELSE Append(out, "-")
        Lower(c) == IF c \in DOMAIN LowerOf THEN LowerOf[c] ELSE c
        Take(out, i) ==
            IF ~IsDashless(name[i]) THEN Dashed(out)
            ELSE Append(IF OpensWord(name, i) THEN Dashed(out) ELSE out, Lower(name[i]))
        whole == FoldLeft(Take, <<>>, [i \in DOMAIN name |-> i])
    IN  IF whole # <<>> /\ Last(whole) = "-" THEN Front(whole) ELSE whole

\* toIdFromNpmName: a scope goes before the name, and a scope alone gives no id.
NoId == <<"@">>
ToIdFromNpmName(name) ==
    LET slash == FirstAt(name, "/", 1)
        bare == SubSeq(name, slash + 1, Len(name))
    IN  IF Head(name) # "@" THEN ToKebabCase(name)
        ELSE IF slash = 0 \/ bare = <<>> THEN NoId
        ELSE IF ToKebabCase(bare) = <<>> THEN <<>>
        ELSE ToKebabCase(SubSeq(name, 2, slash - 1) \o <<"-">> \o ToKebabCase(bare))

PathSegments(root) == SelectSeq(Segments(root), LAMBDA s : s \notin {<<>>, <<".">>})

\* directoryLeaf: the workspace's own directory is called `base`.
DirectoryLeaf(root, base) == IF PathSegments(root) = <<>> THEN base ELSE Last(PathSegments(root))

\* decideId: the first declared name that gives an id, else the directory's. Ids that are none are
\* refused by their grammar.
DecideId(root, base, names) ==
    LET giving == SelectSeq(names, LAMBDA n : ToIdFromNpmName(n) # NoId)
    IN  IF giving # <<>> THEN ToIdFromNpmName(Head(giving)) ELSE ToKebabCase(DirectoryLeaf(root, base))

\* ancestorSegments, nearest first.
Ancestors(root) ==
    IF PathSegments(root) = <<>> THEN <<>> ELSE Reverse(Front(PathSegments(root)))

\* suffixedId: a directory whose name gives no word adds none.
Suffixed(base, root, consumed) ==
    base \o FlattenSeq([i \in 1..consumed |->
                          LET word == ToKebabCase(Ancestors(root)[i])
                          IN  IF word = <<>> THEN <<>> ELSE <<"-">> \o word])

Shares(ids, r) == \E q \in DOMAIN ids \ {r} : ids[q] = ids[r]

\* Not the code: one of those that share an id keeps it.
ExtendedButOne(bases, consumed) ==
    LET ids == [r \in DOMAIN bases |-> Suffixed(bases[r], r, consumed[r])]
    IN  [r \in DOMAIN bases |->
           IF \E q \in DOMAIN ids \ {r} : ids[q] = ids[r] /\ Before(q, r)
           THEN IF consumed[r] < Len(Ancestors(r)) THEN consumed[r] + 1 ELSE consumed[r]
           ELSE consumed[r]]

\* One round: each that shares its id takes one more directory into it, while it has one.
Extended(bases, consumed) ==
    LET ids == [r \in DOMAIN bases |-> Suffixed(bases[r], r, consumed[r])]
    IN  [r \in DOMAIN bases |->
           IF Shares(ids, r) /\ consumed[r] < Len(Ancestors(r)) THEN consumed[r] + 1 ELSE consumed[r]]

\* applyAncestorSuffixPass: rounds until none extends an id. Each but the last takes in a directory.
AncestorSuffixes(bases) ==
    LET rounds == FoldLeft(LAMBDA n, r : n + Len(Ancestors(r)), 0, SetToSeq(DOMAIN bases))
        consumed == FoldLeft(LAMBDA taken, k : Extended(bases, taken),
                             [r \in DOMAIN bases |-> 0], [k \in 1..rounds |-> k])
    IN  [r \in DOMAIN bases |-> Suffixed(bases[r], r, consumed[r])]

\* applyRootHashPass
RootHashes(ids) ==
    [r \in DOMAIN ids |-> IF Shares(ids, r) THEN ids[r] \o <<"-", Digest[r]>> ELSE ids[r]]

ResolveIdCollisions(bases) == RootHashes(AncestorSuffixes(bases))

IdsUnique(ids) == \A r \in DOMAIN ids : ~Shares(ids, r)

-----------------------------------------------------------------------------
\* normalizePackagePath: one spelling of a file's path below its package, NoName for any other value.
NormalizePackagePath(raw) ==
    LET segments == Segments(ToNfc(raw))
        named == SelectSeq(segments, LAMBDA s : s \notin {<<>>, <<".">>})
        path == FlattenSeq([i \in DOMAIN named |-> (IF i = 1 THEN <<>> ELSE <<"/">>) \o named[i]])
    IN  IF raw = <<>> \/ raw[1] = "/" \/ Last(segments) \in {<<>>, <<".">>} \/ PathViolation(path)
        THEN NoName ELSE path

\* collectPublicApi
CollectPublicApi(values) ==
    SortSeq(SetToSeq({NormalizePackagePath(v) : v \in values} \ {NoName}), Before)

-----------------------------------------------------------------------------
\* All that a root's id may come to be before its digest.
MayBe(base, root) == {Suffixed(base, root, n) : n \in 0..Len(Ancestors(root))}

\* Contenders, and the contenders of contenders.
Contending(bases, r) ==
    LET Meet(q, p) == MayBe(bases[q], q) \cap MayBe(bases[p], p) # {}
    IN  FoldSet(LAMBDA step, reach : {q \in DOMAIN bases : \E p \in reach : Meet(q, p)},
                {r}, 1..Cardinality(DOMAIN bases))

\* Every root gets an id of its own. Of those that claim one id none keeps it for coming first: each
\* takes in the directory above it, where that one's name gives a word. A package that arrives moves
\* no id but those it contends for, or that contend with one it moved
\* (docs/design/component-detect.md section 4.1).
HoldTheirGround(bases) ==
    LET ids == ResolveIdCollisions(bases) IN
    /\ IdsUnique(ids)
    /\ \A r \in DOMAIN bases :
         Shares(bases, r) /\ Ancestors(r) # <<>> /\ ToKebabCase(Ancestors(r)[1]) # <<>> =>
           ids[r] # bases[r]
    /\ \A arriving \in DOMAIN bases :
         LET before == [r \in DOMAIN bases \ {arriving} |-> bases[r]]
             idsBefore == ResolveIdCollisions(before)
         IN  \A r \in DOMAIN before \ Contending(bases, arriving) : idsBefore[r] = ids[r]

=============================================================================
