------------------------------ MODULE Integrity -------------------------------
(***************************************************************************)
(* The checks a document passes before it is returned                      *)
(* (packages/core/src/integrity.ts and its parts), one operator each, over *)
(* what a scan assembles: Components, managers, languages, Symbols,        *)
(* dependencies and the census of files. Each holds where the check        *)
(* reports nothing. The checks of a Symbol's effects, calls and kinds are  *)
(* of other modules' data.                                                 *)
(***************************************************************************)
EXTENDS Naturals, Sequences, FiniteSets, SequencesExt, DocumentPath

LOCAL OnceOnly(values) == Cardinality(Range(values)) = Len(values)

\* Invariants 1 to 4.
CheckSymbolIdUniqueness(ir) == OnceOnly([i \in DOMAIN ir.symbols |-> ir.symbols[i].id])
CheckComponentIdUniqueness(ir) == OnceOnly([i \in DOMAIN ir.components |-> ir.components[i].id])
CheckSymbolComponentRef(ir) ==
    \A s \in Range(ir.symbols) :
        s.component = NoName \/ \E c \in Range(ir.components) : c.id = s.component

\* Looser than the grammar, so that a malformed Symbol id is still taken for one.
LooksLikeSymbolId(id) ==
    /\ IsSplit(id)
    /\ LET parts == SplitSymbolId(id) IN
         IsLanguageName(parts.language) /\ parts.file # <<>> /\ parts.qname # <<>>

CheckDependencyEndpoints(ir) ==
    \A d \in Range(ir.dependencies) : \A end \in {d.from, d.to} :
        LooksLikeSymbolId(end) => \E s \in Range(ir.symbols) : s.id = end

\* Invariant 5.
CheckDroppedSymbolHasReason(ir) ==
    \A s \in Range(ir.symbols) : s.dropped => s.dropReason # NoName

\* Invariant 10.
CheckPathsArePosix(ir) ==
    \A path \in UNION {Range(c.roots) : c \in Range(ir.components)}
                 \cup {s.file : s \in Range(ir.symbols)}
                 \cup UNION {Range(m.roots) : m \in Range(ir.managers)}
                 \cup {f.path : f \in Range(ir.skippedFiles)} : ~PathViolation(path)

CheckPublicApiSpelling(ir) ==
    \A c \in Range(ir.components) : \A entry \in Range(c.publicApi) :
        entry # <<>> /\ BackslashPrefix(entry) = NoName

\* Invariant 11: no entry comes before the one it follows.
Ascends(values) == \A i \in DOMAIN values : i > 1 => ~Before(values[i], values[i - 1])
DependencyKey(d) == d.from \o <<"\t">> \o d.to \o <<"\t">> \o <<d.via>>

CheckArraySortOrder(ir) ==
    /\ Ascends([i \in DOMAIN ir.components |-> ir.components[i].id])
    /\ Ascends([i \in DOMAIN ir.symbols |-> ir.symbols[i].id])
    /\ Ascends([i \in DOMAIN ir.skippedFiles |-> ir.skippedFiles[i].path])
    /\ Ascends([i \in DOMAIN ir.dependencies |-> DependencyKey(ir.dependencies[i])])

\* Invariant 13.
CheckDependencyTupleUniqueness(ir) ==
    OnceOnly([i \in DOMAIN ir.dependencies |-> DependencyKey(ir.dependencies[i])])

\* Invariant 21.
CheckSkippedFilesCensus(ir) ==
    /\ ir.parsedFiles <= ir.totalFiles
    /\ ir.skippedFiles # <<>> => Len(ir.skippedFiles) = ir.totalFiles - ir.parsedFiles
    /\ OnceOnly([i \in DOMAIN ir.skippedFiles |-> ir.skippedFiles[i].path])

\* Invariants 16 and 17.
CheckSymbolIdNamespace(ir) ==
    \A id \in {s.id : s \in Range(ir.symbols)}
                \cup UNION {{d.from, d.to} : d \in Range(ir.dependencies)} :
        LET colon == FirstAt(id, ":", 1) IN
        colon > 0 => SubSeq(id, 1, colon - 1) # <<"s", "l", "i", "c", "e">>

CheckIdGrammar(ir) ==
    /\ \A s \in Range(ir.symbols) : IsSymbolId(s.id) /\ ~QualifiedNameViolation(s.name)
    /\ \A c \in Range(ir.components) : IsComponentId(c.id)

\* Invariant 18.
CheckWorkspaceLanguages(ir) ==
    /\ ir.languages # <<>>
    /\ \A language \in Range(ir.languages) : ~LanguageIdViolation(language)
    /\ \A s \in Range(ir.symbols) : s.language \in Range(ir.languages)

\* Invariant 19.
CheckUnicodeNormalization(ir) ==
    \A name \in UNION {Range(c.roots) \cup Range(c.publicApi) : c \in Range(ir.components)}
                 \cup UNION {Range(m.roots) : m \in Range(ir.managers)}
                 \cup UNION {{s.name, s.file} : s \in Range(ir.symbols)}
                 \cup UNION {{d.from, d.to} : d \in Range(ir.dependencies)}
                 \cup {f.path : f \in Range(ir.skippedFiles)} : name = ToNfc(name)

Holds(ir) ==
    /\ CheckSymbolIdUniqueness(ir) /\ CheckComponentIdUniqueness(ir)
    /\ CheckSymbolComponentRef(ir) /\ CheckDependencyEndpoints(ir)
    /\ CheckDroppedSymbolHasReason(ir)
    /\ CheckPathsArePosix(ir) /\ CheckPublicApiSpelling(ir)
    /\ CheckArraySortOrder(ir) /\ CheckDependencyTupleUniqueness(ir)
    /\ CheckSkippedFilesCensus(ir) /\ CheckSymbolIdNamespace(ir) /\ CheckIdGrammar(ir)
    /\ CheckWorkspaceLanguages(ir) /\ CheckUnicodeNormalization(ir)

=============================================================================
