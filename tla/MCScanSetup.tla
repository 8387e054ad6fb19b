----------------------------- MODULE MCScanSetup ------------------------------
(***************************************************************************)
(* Six families of workspaces, each of which varies one part of the set-up *)
(* or a file: directories from the one the command runs in to the top;     *)
(* what the config says; up to one language, two framework and two effects *)
(* plugins and two hints, from manifests that collide in each way; the     *)
(* managers' declarations and the tree they name; the package names of     *)
(* four directories; and the one or two candidates of a file, with what    *)
(* its plugins say of them.                                                *)
(***************************************************************************)
EXTENDS SymbolPipeline

MCCodeUnits == <<"-", ".", "/", "1", "2", ":", "@", "A", "\\", "a", "b", "c", "d", "h1", "h2", "h3", "h4",
                 "h5", "k", "p", "package.json", "project.json", "s", "t", "ts", "x", "console", "kelvin", "log", "c2">>
MCNfc == [c \in {"c2"} |-> "c"]
MCDriveLetters == {"A", "a", "b", "c", "d", "k", "p", "s", "t", "x"}
MCLowercase == {"a", "b", "c", "d", "k", "p", "s", "t", "x", "ts"}
MCDigits == {"1", "2", "h1", "h2", "h3", "h4", "h5"}
MCLowerOf == [c \in {"A", "kelvin"} |-> IF c = "A" THEN "a" ELSE "k"]
MCBracket == [c \in {} |-> {}]

AX == <<"a", "/", "x">>
BX == <<"b", "/", "x">>
X == <<"x">>
AAX == <<"a", "/", "a", "/", "x">>
D == <<"d">>
C == <<"c">>
C2 == <<"c2">>
Drive == <<"c", ":">>
Out == <<".", ".", "/", "x">>
MCDigest == [r \in {Here, X, AX, BX, AAX, D, C, C2, Drive, Out} |->
               CASE r = Here -> "h1" [] r = X -> "h2" [] r = AX -> "h3" [] r = BX -> "h4" [] OTHER -> "h5"]

File(name) == [state |-> "fine", name |-> name, api |-> {}]
Directory == DOMAIN MCDigest
Repo == [marker |-> ".git", fault |-> "none", config |-> "file"]

-----------------------------------------------------------------------------
(* Plugins *)
Empty == [v \in Vocabularies |-> <<>>]
M(name, type, root, mids, mprefixes) ==
    [name |-> name, type |-> type, root |-> root, plain |-> TRUE, ids |-> mids, prefixes |-> mprefixes]
Entry(field, m) == [field |-> field, loads |-> "yes", manifest |-> m]

Job == <<"framework", "acme", "job">>
Acme == <<"framework", "acme">>
ByJob == M("byjob", "framework", "", [Empty EXCEPT !["extKind"] = <<Job>>], Empty)
Deeper == M("deeper", "framework", "", Empty, [Empty EXCEPT !["extKind"] = <<Job>>])
XAcme == M("acme", "effects", "x-acme", Empty, [Empty EXCEPT !["effect"] = <<<<"x-acme">>>>])
XAcmeIds == M("effects-acme", "effects", "x-acme",
              [Empty EXCEPT !["effect"] = <<<<"x-acme", "a">>>>], Empty)

Frameworks == [n \in {"byjob", "byacme", "deeper", "nesting", "reserving", "fails", "unresolvable"} |->
    CASE n = "byjob" -> Entry("frameworks", ByJob)
      [] n = "byacme" -> Entry("frameworks", M("byacme", "framework", "",
           [Empty EXCEPT !["framework"] = <<<<"acme">>>>, !["extKind"] = <<<<"framework", "acme", "own">>>>],
           [Empty EXCEPT !["extKind"] = <<Acme>>, !["derivedBy"] = <<Acme>>]))
      [] n = "deeper" -> Entry("frameworks", Deeper)
      [] n = "nesting" -> Entry("frameworks", M("nesting", "framework", "", Empty,
                                                [Empty EXCEPT !["derivedBy"] = <<Acme, Job>>]))
      [] n = "reserving" -> Entry("frameworks", M("reserving", "framework", "", Empty,
                              [Empty EXCEPT !["extKind"] = <<<<"framework", "hint", "acme">>>>]))
      [] n = "fails" -> [Entry("frameworks", ByJob) EXCEPT !.loads = "fails"]
      [] n = "unresolvable" -> [Entry("frameworks", ByJob) EXCEPT !.loads = "unresolvable"]]

Effects == [n \in {"acme", "ids", "same", "foreign", "deeper", "odd"} |->
    CASE n = "acme" -> Entry("effects", XAcme)
      [] n = "ids" -> Entry("effects", XAcmeIds)
      [] n = "same" -> Entry("effects", M("acme", "effects", "x-acme",
                                          [Empty EXCEPT !["effect"] = <<<<"x-acme", "b">>>>], Empty))
      [] n = "foreign" -> Entry("effects", M("foreign", "effects", "x-foreign",
                                             [Empty EXCEPT !["effect"] = <<<<"x-acme", "c">>>>], Empty))
      [] n = "deeper" -> Entry("effects", Deeper)
      [] n = "odd" -> Entry("effects", [XAcmeIds EXCEPT !.plain = FALSE])]

Languages == [n \in {"ts"} |-> Entry("languages", M("ts", "lang", "",
                [Empty EXCEPT !["extKind"] = <<<<"fp", "pipe">>>>],
                [Empty EXCEPT !["derivedBy"] = <<Job>>]))]

Mine == Entry("effects", M("mine", "effects", "x-mine", Empty, [Empty EXCEPT !["effect"] = <<<<"x-mine">>>>]))
MCEntries == Range(Frameworks) \cup Range(Effects) \cup Range(Languages) \cup {Mine}

Rule(key, extKind, derivedBy) ==
    [source |-> "decorator", key |-> key, takes |-> {}, extKind |-> extKind, derivedBy |-> derivedBy,
     boundary |-> {}, drop |-> FALSE]
Glob(takes, extKind, derivedBy) ==
    [Rule("*", extKind, derivedBy) EXCEPT !.source = "class name", !.takes = takes]
HintRuleSets == [n \in {"acme", "more", "rival", "nested", "reserved", "bounds", "drops"} |->
    CASE n = "acme" -> <<Rule("Job", Job, Acme), Glob({"JobHandler"}, <<"framework", "acme", "handler">>, NoWord)>>
      [] n = "more" -> <<Rule("Run", NoWord, <<"more", "run">>), Glob({"JobHandler"}, <<"framework", "more">>, NoWord)>>
      [] n = "rival" -> <<Glob({"JobHandler", "Other"}, Job, <<"rival">>)>>
      [] n = "nested" -> <<Rule("Job", Job, NoWord), Rule("Run", Job \o <<"run">>, NoWord)>>
      [] n = "reserved" -> <<Rule("Job", <<"framework", "hint", "acme">>, NoWord)>>
      [] n = "bounds" -> <<[Rule("Job", NoWord, NoWord) EXCEPT !.boundary = {TRUE}],
                           [Rule("Run", NoWord, NoWord) EXCEPT !.boundary = {FALSE}, !.drop = TRUE]>>
      [] n = "drops" -> <<[Rule("Job", Job, NoWord) EXCEPT !.drop = TRUE],
                          [Glob({"Other"}, NoWord, NoWord) EXCEPT !.drop = TRUE]>>]
HintOf == [n \in DOMAIN HintRuleSets |->
    [name |-> n, plugin |-> "hint-" \o n, rules |-> HintRuleSets[n]]]
MCHints == {SynthesizeManifest(HintOf[n]) : n \in DOMAIN HintOf}

-----------------------------------------------------------------------------
(* Files *)
Decorated(name, boundary) == [name |-> name, qualifier |-> "", boundary |-> boundary]
Declares(id, kind, name) ==
    [id |-> <<id>>, kind |-> kind, name |-> name, extKind |-> NoWord, decorators |-> <<>>, derivedBy |-> {},
     body |-> TRUE, prefixed |-> TRUE, throws |-> FALSE, calls |-> <<>>]
Call(target, line) == [target |-> target, line |-> line]
EmptyFile == [candidates |-> <<>>, strict |-> TRUE, suppress |-> {}, keep |-> {},
              says |-> [k \in {} |-> Nothing], drops |-> {}]

\* One candidate for each way a hint can hit it.
HintedCandidates ==
    FlattenSeq(FlattenSeq(
      [i \in 1..3 |-> [j \in 1..2 |-> [k \in 1..2 |->
         LET names == <<<<>>, <<"Job">>, <<"Run", "Job">>>>[i] IN
         [Declares("f", <<"class", "method">>[k], <<"JobHandler", "Other">>[j]) EXCEPT
            !.id = <<i, j, k>>,
            !.decorators = [n \in DOMAIN names |-> Decorated(names[n], FALSE)]]]]]))
HintedFile == [EmptyFile EXCEPT !.candidates = HintedCandidates]

-----------------------------------------------------------------------------
Plain == [chain |-> <<Repo>>, text |-> "fine", refs |-> <<Languages["ts"]>>, hints |-> <<>>,
          declared |-> <<>>, manifests |-> [s \in {} |-> s], locks |-> {}, base |-> X,
          gitignores |-> [d \in {} |-> <<>>], barred |-> {}, unlisted |-> {},
          package |-> [r \in Directory |-> File(NoName)], project |-> [r \in Directory |-> File(NoName)],
          file |-> EmptyFile]

UpTo(n, set) == UNION {[1..k -> set] : k \in 0..n}
Named(names, from) == [i \in DOMAIN names |-> from[names[i]]]

Colliding == {"acme", "more", "rival", "nested", "reserved"}
PluginKeys ==
    (UpTo(1, {"ts"}) \X UpTo(2, DOMAIN Frameworks) \X UpTo(1, DOMAIN Effects) \X {<<>>})
      \cup ({<<"ts">>} \X UpTo(1, DOMAIN Frameworks) \X UpTo(2, DOMAIN Effects) \X UpTo(1, Colliding))
      \cup ({<<"ts">>} \X UpTo(2, DOMAIN Frameworks) \X {<<>>} \X UpTo(2, Colliding))
OfPlugins(l, f, e, h) ==
    [Plain EXCEPT !.refs = Named(l, Languages) \o Named(f, Frameworks) \o Named(e, Effects),
                  !.hints = Named(h, HintOf), !.file = HintedFile]

\* A directory of the chain by its markers, the probe that fails there and the config.
ChainKeys == {<<k>> : k \in UNION {[1..n -> {"bare", "marked", "repository", "malformed", "raw", "marked raw",
                                            "config", "no config"}] : n \in 1..3}}
Probed(kind) ==
    [marker |-> CASE kind \in {"marked", "marked raw"} -> "workspaces" [] kind = "repository" -> ".git" [] OTHER -> "none",
     fault |-> CASE kind \in {"raw", "marked raw"} -> "raw" [] kind = "malformed" -> "malformed" [] OTHER -> "none",
     config |-> CASE kind = "config" -> "file" [] kind = "no config" -> "fault" [] OTHER -> "none"]
OfChain(k) ==
    LET chain == [i \in DOMAIN k |-> Probed(k[i])]
        found == \E i \in DOMAIN chain : chain[i].config = "file"
    IN  [Plain EXCEPT !.chain = chain, !.refs = IF found THEN @ ELSE <<>>]

Declared1(id, root, api) == [id |-> id, roots |-> <<root>>, publicApi |-> api]
ConfigKeys ==
    {<<"unreadable", "none">>, <<"gone", "none">>, <<"malformed", "none">>}
      \cup {"fine"} \X {"one", "twice", "two", "no id", "outside", "backslash", "api", "decomposed", "broken"}
OfConfig(text, declared) ==
    [Plain EXCEPT !.text = text,
       !.package = [@ EXCEPT ![D] = IF declared = "broken" THEN [@ EXCEPT !.state = Broken] ELSE File(<<"p">>)],
       !.declared =
         CASE declared = "one" -> <<Declared1(<<"a">>, D, <<>>)>>
           [] declared = "twice" -> <<Declared1(<<"a">>, D, <<>>), Declared1(<<"a">>, C, <<>>)>>
           [] declared = "two" -> <<Declared1(<<"b">>, D, <<>>), Declared1(<<"a">>, C, <<>>)>>
           [] declared = "no id" -> <<Declared1(<<"A">>, D, <<>>)>>
           [] declared = "outside" -> <<Declared1(<<"a">>, Out, <<>>)>>
           [] declared = "backslash" -> <<Declared1(<<"a">>, <<"a", "\\">>, <<>>)>>
           [] declared = "api" -> <<Declared1(<<"a">>, D, <<<<"\\">>>>)>>
           [] declared = "decomposed" -> <<Declared1(<<"a">>, C2, <<C2>>)>>
           [] declared = "broken" -> <<Declared1(<<"a">>, D, <<>>)>>
           [] OTHER -> <<>>]

\* What a search's manifest says: patterns and the directories they match, or a fault.
Says(matches) == [patterns |-> TRUE, malformed |-> FALSE, matches |-> matches, unlisted |-> {}]
Search(kind) ==
    CASE kind = "two" -> Says(<<AX, D>>)
      [] kind = "other" -> Says(<<D, BX>>)
      [] kind = "none" -> Says(<<>>)
      [] kind = "twins" -> Says(<<C, C2, Drive>>)
      [] kind = "outside" -> Says(<<Out, AX>>)
      [] kind = "malformed" -> [Says(<<>>) EXCEPT !.malformed = TRUE]
      [] kind = "unlisted" -> [Says(<<AX>>) EXCEPT !.unlisted = {D}]
      [] kind = "no patterns" -> [Says(<<>>) EXCEPT !.patterns = FALSE]
ManagerKeys ==
    {"absent", "two", "none", "twins", "outside", "malformed", "unlisted"} \X {"absent", "other", "twins", "unlisted"}
      \X {"npm", "pnpm"} \X {"absent", "two", "unlisted"} \X {"absent", "no patterns"} \X {"open", "rules", "barred"}
OfManagers(pnpm, js, lock, nx, turbo, tree) ==
    LET kinds == [s \in Range(Searches) |-> CASE s = "pnpm" -> pnpm [] s = "package.json" -> js
                                              [] s = "nx" -> nx [] s = "turbo" -> turbo]
    IN  [Plain EXCEPT
           !.manifests = [s \in {t \in Range(Searches) : kinds[t] # "absent"} |->
                            IF s = "nx" THEN [Search(kinds[s]) EXCEPT !.patterns = FALSE] ELSE Search(kinds[s])],
           !.locks = IF lock = "pnpm" THEN {"pnpm-lock.yaml"} ELSE {},
           !.gitignores = IF tree = "open" THEN @ ELSE [d \in {<<>>} |-> <<<<"d", "/">>>>],
           !.barred = IF tree = "barred" THEN {<<>>} ELSE {},
           !.unlisted = IF "unlisted" \in {pnpm, js, nx} THEN {D} ELSE {},
           !.package = [@ EXCEPT ![D] = [File(<<"p">>) EXCEPT !.api =
                          {<<"a">>, <<".", "/", "b">>, Out, <<"/", "a">>, <<"d", "\\", "a">>, C2}]]]

PackageNames == {NoName, X, <<"@", "s", "/", "x">>, <<"@", "s">>, <<"A", "x">>, <<"x", "-", "a">>, <<"-">>}
IdKeys == PackageNames \X PackageNames \X {NoName, X, <<"x", "-", "a">>, <<"kelvin">>}
OfIds(x, ax, bx) ==
    [Plain EXCEPT
       !.manifests = [s \in {"pnpm"} |-> Says(<<X, AX, BX, AAX>>)],
       !.package = [@ EXCEPT ![X] = File(x), ![AX] = File(ax), ![BX] = File(bx)]]

-----------------------------------------------------------------------------
MCCoreEffects == {<<"db", "read">>}

\* What acme and mine, in this order, say of a callee.
Answers ==
    [k \in {<<"acme", <<"a", "x">>>>, <<"acme", <<"b">>>>, <<"mine", <<"c", "x">>>>, <<"acme", <<"d">>>>,
            <<"mine", <<"d">>>>, <<"mine", <<"p">>>>, <<"acme", <<"s">>>>} |->
       CASE k[2] = <<"a", "x">> -> <<"x-acme", "a">>
         [] k[2] = <<"b">> -> <<"x-mine", "b">>        \* another's word
         [] k[2] = <<"c", "x">> -> <<"db", "read">>
         [] k[2] = <<"d">> -> <<"x-" \o k[1], "d">>
         [] k[2] = <<"p">> -> Promise
         [] k[2] = <<"s">> -> Refusal]

Calls(kind) ==
    CASE kind = "calls" -> <<Call(<<"a", "x">>, 2), Call(<<"k">>, 1), Call(<<"a", "x">>, 1)>>
      [] kind = "foreign" -> <<Call(<<"b">>, 1), Call(<<"a", "x">>, 1)>>
      [] kind = "filtered" -> <<Call(<<"c2", "x">>, 2), Call(<<"console", "log">>, 1), Call(<<"d">>, 1)>>
      [] kind = "promise" -> <<Call(<<"p">>, 1)>>
      [] kind = "refusal" -> <<Call(<<"s">>, 1)>>
      [] OTHER -> <<>>

OfKind(id, kind) ==
    LET plain == [Declares(id, "function", "Other") EXCEPT !.calls = Calls(kind)]
    IN  CASE kind = "interface" -> [plain EXCEPT !.kind = "interface", !.decorators = <<Decorated("Job", FALSE)>>]
          [] kind = "type" -> [plain EXCEPT !.kind = "type"]
          [] kind = "empty" -> [plain EXCEPT !.body = FALSE, !.decorators = <<Decorated("Run", TRUE)>>]
          [] kind = "re-export" -> [plain EXCEPT !.kind = "const", !.derivedBy = {<<"re-export">>}]
          [] kind = "class" -> [plain EXCEPT !.kind = "class"]
          [] kind = "job" -> [plain EXCEPT !.kind = "class", !.name = "JobHandler",
                                !.decorators = <<Decorated("Job", FALSE), Decorated("Run", FALSE)>>]
          [] kind = "pipe" -> [plain EXCEPT !.extKind = <<"fp", "pipe">>]
          [] kind = "odd" -> [plain EXCEPT !.extKind = <<"fp", "odd">>]
          [] kind = "unprefixed" -> [plain EXCEPT !.prefixed = FALSE]
          [] kind = "throws" -> [plain EXCEPT !.throws = TRUE]
          [] OTHER -> plain

\* What the frameworks say of the first candidate: nothing, a word of theirs, another's, tags alone.
ByFramework(kind) ==
    CASE kind = "its own" -> [Nothing EXCEPT !.extKind = Job, !.boundaries = [w \in {<<"", "Job">>} |-> TRUE]]
      [] kind = "another's" -> [Nothing EXCEPT !.extKind = <<"framework", "other">>]
      [] kind = "tags" -> [Nothing EXCEPT !.derivedBy = {Acme}]
      [] OTHER -> Nothing

FileKeys ==
    ({"none", "its own", "another's", "tags"} \X BOOLEAN
       \X {"calls", "foreign", "filtered", "promise", "refusal", "interface", "type", "empty", "re-export",
            "class", "job", "pipe", "odd", "unprefixed", "throws"}
       \X {"none", "foreign", "twin", "job"} \X {"none"})
      \cup ({"none"} \X BOOLEAN \X {"filtered"} \X {"none", "calls"} \X {"suppressed", "kept"})
OfFile(framework, strict, first, second, filter) ==
    [Plain EXCEPT
       !.refs = @ \o (IF framework = "none" THEN <<>> ELSE <<Frameworks["byjob"]>>) \o <<Effects["acme"], Mine>>,
       !.hints = <<HintOf["bounds"], HintOf["drops"]>>,
       !.file = [EmptyFile EXCEPT
          !.candidates = <<OfKind("f1", first)>>
                           \o (IF second = "none" THEN <<>>
                               ELSE <<OfKind(IF second = "twin" THEN "f1" ELSE "f2", second)>>),
          !.strict = strict,
          !.suppress = IF filter = "suppressed" THEN {<<"c">>} ELSE {},
          !.keep = IF filter = "kept" THEN {<<"@", "console", "log">>, <<"c">>} ELSE {},
          !.says = [k \in {<<"byjob", <<"f1">>>>} |-> ByFramework(framework)] @@ Answers,
          !.drops = IF first = "class" THEN {<<"ts", <<"f1">>>>} ELSE {}]]

MCWorkspaces ==
    {OfPlugins(k[1], k[2], k[3], k[4]) : k \in PluginKeys}
      \cup {OfChain(k[1]) : k \in ChainKeys}
      \cup {OfConfig(k[1], k[2]) : k \in ConfigKeys}
      \cup {OfManagers(k[1], k[2], k[3], k[4], k[5], k[6]) : k \in ManagerKeys}
      \cup {OfIds(k[1], k[2], k[3]) : k \in IdKeys}
      \cup {OfFile(k[1], k[2], k[3], k[4], k[5]) : k \in FileKeys}

MCConfigs == {ConfigOf(w) : w \in MCWorkspaces}
=============================================================================
