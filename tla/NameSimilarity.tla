---------------------------- MODULE NameSimilarity ---------------------------
(***************************************************************************)
(* How alike two names and two signatures are: packages/diff/src           *)
(* similarity.ts, signature.ts, ratio.ts, and the rows of                  *)
(* match/name-signature.ts. MatchStages takes what is computed here as     *)
(* tables.                                                                 *)
(*                                                                         *)
(* A qualified name is its owner's segments and its member, each the set   *)
(* of the tokens it splits into, so that two spellings of the same tokens  *)
(* are one. A ratio is a number of Whole's parts: Whole is a multiple of   *)
(* every denominator there is, times three for the mean.                   *)
(***************************************************************************)
EXTENDS Integers, FiniteSets, Sequences

CONSTANTS
    Whole,
    Plurals,        \* pluralises: the pairs of a token and its plural in s, es or ies
    Alphabetic,     \* the tokens with a character of neither script below
    Han, Syllabic   \* of a token: its Han characters, and its kana and hangul

-----------------------------------------------------------------------------
(* Names *)

TokensOf(name) == name.member \cup UNION {name.owner[i] : i \in DOMAIN name.owner}

\* jaccardSets: WHOLE of two empty sets, NONE where one is.
Jaccard(A, B) ==
    IF A = {} /\ B = {} THEN Whole
    ELSE (Whole * Cardinality(A \cap B)) \div Cardinality(A \cup B)

NameJaccard(b, h) == Jaccard(TokensOf(b), TokensOf(h))
MemberJaccard(b, h) == Jaccard(b.member, h.member)

\* Two members of no token at all are reached from each other too.
NO_MEMBER_TOKENS == " none"
MemberTokens(name) == IF name.member = {} THEN {NO_MEMBER_TOKENS} ELSE name.member

\* A word takes three Han characters, or six syllabic ones: the evidence, in sixths.
HAN_CHARS_PER_WORD == 3
SYLLABIC_CHARS_PER_WORD == 6
NameEvidence(name) ==
    LET Words == TokensOf(name) \cap Alphabetic
        CharsOf(script) == Cardinality(UNION {script[t] : t \in TokensOf(name)})
    IN  6 * Cardinality(Words)
            + (6 \div HAN_CHARS_PER_WORD) * CharsOf(Han)
            + (6 \div SYLLABIC_CHARS_PER_WORD) * CharsOf(Syllabic)

SaysEnoughToPair(name) == NameEvidence(name) > 6

\* The score a head's name asks for: the fewer its tokens, the closer.
RowFor(name) ==
    CASE Cardinality(name.member) <= 1 -> Whole
      [] Cardinality(name.member) = 2 -> (19 * Whole) \div 20
      [] OTHER -> (17 * Whole) \div 20

-----------------------------------------------------------------------------
(* Owners *)

MAX_OWNER_SEGMENT_TOKENS == 32

SameWord(a, b) == a = b \/ <<a, b>> \in Plurals \/ <<b, a>> \in Plurals

\* The augmenting paths give each token of one segment a same word of the other, one to one.
HasPerfectTokenMatching(A, B) ==
    /\ Cardinality(A) = Cardinality(B) /\ Cardinality(A) <= MAX_OWNER_SEGMENT_TOKENS
    /\ \E partner \in [A -> B] :
           \A s, t \in A : SameWord(t, partner[t]) /\ (partner[s] = partner[t] => s = t)

SegmentsCorrespond(B, H) ==
    /\ Len(B) = Len(H)
    /\ \A i \in DOMAIN B : B[i] = H[i] \/ HasPerfectTokenMatching(B[i], H[i])

\* Asked first, as it is cheap: the first segments, token by token.
FirstSegmentsCouldAgree(B, H) ==
    \/ B[1] = H[1]
    \/ /\ Cardinality(B[1]) = Cardinality(H[1]) /\ Cardinality(B[1]) <= MAX_OWNER_SEGMENT_TOKENS
       /\ \A t \in B[1] : \E c \in H[1] : SameWord(t, c)

OwnersCompatible(b, h) ==
    \/ b.owner = h.owner
    \/ /\ b.owner # <<>> /\ h.owner # <<>>
       /\ FirstSegmentsCouldAgree(b.owner, h.owner)
       /\ SegmentsCorrespond(b.owner, h.owner)

-----------------------------------------------------------------------------
(* Signatures: a set of one or none, as in ElementDelta *)

Mean(x, y, z) == (x + y + z) \div 3

\* compareOrderedTypes: place by place, nothing where the lengths differ.
CompareOrderedTypes(a, b) ==
    CASE Len(a) # Len(b) -> 0
      [] Len(a) = Len(b) /\ Len(a) = 0 -> Whole
      [] OTHER -> (Whole * Cardinality({i \in DOMAIN a : a[i] = b[i]})) \div Len(a)

SignatureSimilarity(base, head) ==
    CASE base = {} /\ head = {} -> Whole
      [] (base = {}) # (head = {}) -> 0
      [] OTHER ->
            LET b == CHOOSE s \in base : TRUE
                h == CHOOSE s \in head : TRUE
            IN  Mean(CompareOrderedTypes(b.inputs, h.inputs),
                     CompareOrderedTypes(b.outputs, h.outputs),
                     Jaccard(b.throws, h.throws))
=============================================================================
