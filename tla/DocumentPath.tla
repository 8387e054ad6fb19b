----------------------------- MODULE DocumentPath -----------------------------
(***************************************************************************)
(* The names a document holds (packages/core/src/id.ts): which paths it    *)
(* can spell, and the ids of Symbols composed from a language, a path and  *)
(* a qualified name, checked and split again. A name is the sequence of    *)
(* its characters; "::" counts as one.                                     *)
(***************************************************************************)
EXTENDS Naturals, Sequences, SequencesExt

CONSTANTS
    CodeUnits,      \* the characters, in code-unit order
    Nfc,            \* what normalization makes of the characters it changes
    DriveLetters,   \* ASCII letters
    Lowercase,      \* ASCII lowercase letters
    Digits,
    IdStart,        \* what an identifier starts with: $, _ and ID_Start
    IdContinue      \* what one goes on with

ASSUME CodeUnitsAssumption ==
    /\ CodeUnits \in Seq(Range(CodeUnits))
    /\ \A i, j \in DOMAIN CodeUnits : CodeUnits[i] = CodeUnits[j] => i = j

ToNfc(name) == [i \in DOMAIN name |-> IF name[i] \in DOMAIN Nfc THEN Nfc[name[i]] ELSE name[i]]

\* The parts of a name between separators; an empty one where two meet or one is at an end.
Split(name, separators) ==
    LET cut == <<0>> \o SelectSeq([i \in DOMAIN name |-> i], LAMBDA i : name[i] \in separators)
                 \o <<Len(name) + 1>>
    IN  [k \in 1..(Len(cut) - 1) |-> SubSeq(name, cut[k] + 1, cut[k + 1] - 1)]

CodeUnit == [c \in Range(CodeUnits) |-> CHOOSE i \in DOMAIN CodeUnits : CodeUnits[i] = c]

\* compareCodeUnit
Before(name, other) ==
    LET apart == {i \in DOMAIN name \cap DOMAIN other : name[i] # other[i]}
    IN  IF apart = {} THEN Len(name) < Len(other)
        ELSE LET i == CHOOSE i \in apart : \A j \in apart : i <= j
             IN  CodeUnit[name[i]] < CodeUnit[other[i]]

Segments(path) == Split(path, {"/"})
FirstOf(S) == CHOOSE i \in S : \A j \in S : i <= j
FirstAt(name, character, from) ==
    LET at == {i \in from..Len(name) : name[i] = character}
    IN  IF at = {} THEN 0 ELSE FirstOf(at)

NoName == <<>>
DriveShaped(name) == Len(name) > 1 /\ name[1] \in DriveLetters /\ name[2] = ":"

\* backslashPrefix: the path down to the first segment that holds a backslash.
BackslashPrefix(path) ==
    LET at == {i \in DOMAIN Segments(path) : "\\" \in Range(Segments(path)[i])}
    IN  IF at = {} THEN NoName
        ELSE FlattenSeq([i \in 1..FirstOf(at) |->
               (IF i = 1 THEN <<>> ELSE <<"/">>) \o Segments(path)[i]])

\* unnameableSite: tested after NFC, as the grammar reads it; a backslash in the same segment wins.
Unnameable(path) ==
    LET head == Segments(path)[1] IN
    IF BackslashPrefix(path) # head /\ DriveShaped(ToNfc(head)) THEN "drive-shaped-name"
    ELSE IF BackslashPrefix(path) = NoName THEN "none" ELSE "unspellable-name"

SymbolIdSeparators == {":", "#"}
HasSeparator(path) == \E i \in DOMAIN path : path[i] \in SymbolIdSeparators

\* posixWorkspaceRelativeViolation
PathViolation(path) ==
    \/ path = <<>>
    \/ BackslashPrefix(path) # NoName
    \/ path[1] \in {"/", "\\"} \/ DriveShaped(path)
    \/ <<".", ".">> \in Range(Segments(path))
    \/ path # <<".">> /\ <<".">> \in Range(Segments(path))

-----------------------------------------------------------------------------
IsLanguageName(name) ==
    name # <<>> /\ name[1] \in Lowercase /\ Range(name) \subseteq Lowercase \cup Digits

LanguageIdViolation(language) == ~IsLanguageName(language) \/ language = <<"s", "l", "i", "c", "e">>

SymbolIdPathViolation(path) == PathViolation(path) \/ path = <<".">> \/ HasSeparator(path)

IsQnameSegment(segment, privateName) ==
    LET name == IF privateName /\ segment # <<>> /\ segment[1] = "#" THEN Tail(segment) ELSE segment
    IN  name # <<>> /\ name[1] \in IdStart /\ \A i \in 2..Len(name) : name[i] \in IdContinue

ReservedQnames == {<<"<", "default", ">">>, <<"<", "module", ">">>}

QualifiedNameViolation(qname) ==
    LET segments == Split(qname, {".", "::"}) IN
    /\ qname \notin ReservedQnames
    /\ \/ qname = <<>>
       \/ \E i \in DOMAIN segments : ~IsQnameSegment(segments[i], i > 1)

Normalize(parts) == [language |-> ToNfc(parts.language), file |-> ToNfc(parts.file),
                     qname |-> ToNfc(parts.qname)]

SymbolIdViolation(parts) ==
    \/ LanguageIdViolation(parts.language)
    \/ SymbolIdPathViolation(parts.file)
    \/ QualifiedNameViolation(parts.qname)
    \/ Normalize(parts) # parts

Compose(parts) == parts.language \o <<":">> \o parts.file \o <<"#">> \o parts.qname

TrySymbolId(parts) ==
    IF SymbolIdViolation(Normalize(parts)) THEN NoName ELSE Compose(Normalize(parts))

\* Not the code: the path ends at the last "#", where a private name starts with one.
HashOfLast(id, colon) ==
    LET hashes == {i \in (colon + 1)..Len(id) : id[i] = "#"}
    IN  IF hashes = {} THEN 0 ELSE CHOOSE i \in hashes : \A j \in hashes : j <= i

HashOf(id, colon) == FirstAt(id, "#", colon + 1)

\* splitSymbolId
IsSplit(id) == FirstAt(id, ":", 1) > 0 /\ HashOf(id, FirstAt(id, ":", 1)) > 0
SplitSymbolId(id) ==
    LET colon == FirstAt(id, ":", 1)
        hash == HashOf(id, colon)
    IN  [language |-> SubSeq(id, 1, colon - 1), file |-> SubSeq(id, colon + 1, hash - 1),
         qname |-> SubSeq(id, hash + 1, Len(id))]

IsSymbolId(id) == IsSplit(id) /\ ~SymbolIdViolation(SplitSymbolId(id))
SymbolIdFile(id) == IF IsSymbolId(id) THEN SplitSymbolId(id).file ELSE NoName

IsComponentId(id) ==
    \A k \in DOMAIN Split(id, {"-"}) :
        /\ Split(id, {"-"})[k] # <<>>
        /\ Range(Split(id, {"-"})[k]) \subseteq Lowercase \cup Digits

-----------------------------------------------------------------------------
\* makeMemberQname: the owners' names and the member's, which may be private; NoName where it throws.
MakeMemberQname(owners, member, static) ==
    IF \/ owners = <<>> \/ ~IsQnameSegment(member, TRUE)
       \/ \E i \in DOMAIN owners : ~IsQnameSegment(owners[i], FALSE)
    THEN NoName
    ELSE FlattenSeq([i \in DOMAIN owners |-> (IF i = 1 THEN <<>> ELSE <<".">>) \o owners[i]])
           \o <<IF static THEN "::" ELSE ".">> \o member

MakeNestedQname(segments) ==
    IF segments = <<>> \/ \E i \in DOMAIN segments : ~IsQnameSegment(segments[i], FALSE) THEN NoName
    ELSE FlattenSeq([i \in DOMAIN segments |-> (IF i = 1 THEN <<>> ELSE <<".">>) \o segments[i]])

=============================================================================
