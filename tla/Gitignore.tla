------------------------------- MODULE Gitignore -------------------------------
(***************************************************************************)
(* The rules of .gitignore files as the scan applies them                  *)
(* (packages/core/src/scan/gitignore-pattern.ts, gitignore.ts): a rule is  *)
(* compiled, its pattern matched by the port of git's wildmatch, the last  *)
(* rule of a file that matches decides, the deepest file with an opinion   *)
(* overrules, and nothing below an excluded directory comes back. A line,  *)
(* a pattern and a path are sequences of characters; an escape is left out *)
(* and a bracket is one character, given with what it takes.               *)
(***************************************************************************)
EXTENDS Integers, Sequences, SequencesExt

CONSTANTS
    Bracket,            \* the bracket expressions of the patterns: the characters each takes
    MAX_RULE_LENGTH

OpenBracket == "["      \* one that is never closed
End == "end"            \* past the end of a pattern or a path
At(s, i) == IF i \in DOMAIN s THEN s[i] ELSE End
From(s, i) == SubSeq(s, i, Len(s))
IsGlobSpecial(c) == c \in {"*", "?", OpenBracket} \cup DOMAIN Bracket

\* The first place from i on where s holds c, 0 for none.
IndexFrom(s, c, i) ==
    LET places == {k \in i..Len(s) : s[k] = c}
    IN  IF places = {} THEN 0 ELSE Min(places)

-----------------------------------------------------------------------------
(* dowild *)

\* Where the run of stars that begins at p ends.
PastStars(pattern, p) == Min({q \in p..(Len(pattern) + 1) : At(pattern, q) # "*"})

\* Not the code: a directory run is taken wherever two stars stand.
OpensDirectoriesAnywhere(pattern, start, p) ==
    PastStars(pattern, p) > p + 1 /\ At(pattern, PastStars(pattern, p)) \in {End, "/"}

\* Two stars or more, filling a path segment: they pass over whole directories.
OpensDirectories(pattern, start, p) ==
    LET q == PastStars(pattern, p) IN
    /\ q > p + 1
    /\ p = start \/ At(pattern, p - 1) = "/"
    /\ At(pattern, q) \in {End, "/"}

\* What `**/` makes of the text as it stands, with no directory passed over, settles the rest.
Settles(zero) == zero \in {"match", "abort all"}

\* The matcher calls itself: `dowild` holds what it makes of a pattern from p on, called at start, and
\* the text from t on, and of what the stars before q can leave of the text.
Matching(start, p, t) == <<"call", start, p, t>>
Leaving(q, t, matchSlash) == <<"leave", q, t, matchSlash>>
Turns(pattern, text) ==
    LET places == 1..(Len(pattern) + 1)
        from == 1..(Len(text) + 1)
    IN  ({"call"} \X places \X places \X from) \cup ({"leave"} \X places \X from \X BOOLEAN)

\* The text that a run of stars before q can leave to the rest of the pattern, tried in order.
TryFrom(dowild, pattern, q, text, t, matchSlash) ==
    LET next == At(pattern, q)
        skip == {k \in t..Len(text) : text[k] = next \/ (~matchSlash /\ text[k] = "/")}
        u == IF IsGlobSpecial(next) THEN t ELSE Min(skip \cup {Len(text) + 1})
        matched == dowild[Matching(q, q, u)]
    IN  IF t > Len(text) THEN "abort all"
        ELSE IF ~IsGlobSpecial(next) /\ At(text, u) # next
        THEN IF matchSlash THEN "abort all" ELSE "abort to starstar"
        ELSE IF matched \in {"match", "abort all"} \/ (matched = "abort to starstar" /\ ~matchSlash)
        THEN matched
        ELSE IF matched = "no match" /\ ~matchSlash /\ At(text, u) = "/"
        THEN "abort to starstar"
        ELSE dowild[Leaving(q, u + 1, matchSlash)]

AfterStars(dowild, pattern, start, q, text, t, matchSlash) ==
    CASE At(pattern, q) = End ->
           IF ~matchSlash /\ IndexFrom(text, "/", t) > 0 THEN "abort to starstar" ELSE "match"
      [] ~matchSlash /\ At(pattern, q) = "/" ->
           LET slash == IndexFrom(text, "/", t) IN
           IF slash = 0 THEN "abort all" ELSE dowild[Matching(start, q + 1, slash + 1)]
      [] OTHER -> dowild[Leaving(q, t, matchSlash)]

Stars(dowild, pattern, start, p, text, t, pathname) ==
    LET q == PastStars(pattern, p)
        directories == pathname /\ OpensDirectories(pattern, start, p)
        zero == dowild[Matching(q + 1, q + 1, t)]
    IN  IF directories /\ At(pattern, q) = "/" /\ Settles(zero) THEN zero
        ELSE AfterStars(dowild, pattern, start, q, text, t, ~pathname \/ directories)

Wild(dowild, pattern, start, p, text, t, pathname) ==
    LET c == At(pattern, p)
        x == At(text, t)
        takes == CASE c = "?" -> ~(pathname /\ x = "/")
                   [] c \in DOMAIN Bracket -> x \in Bracket[c] /\ ~(pathname /\ x = "/")
                   [] OTHER -> x = c
    IN  CASE c = End -> IF x = End THEN "match" ELSE "no match"
          [] c = "*" -> Stars(dowild, pattern, start, p, text, t, pathname)
          [] c # End /\ c # "*" /\ (x = End \/ c = OpenBracket) -> "abort all"
          [] OTHER -> IF takes THEN dowild[Matching(start, p + 1, t + 1)] ELSE "no match"

Dowild(pattern, start, text, t, pathname) ==
    LET dowild[c \in Turns(pattern, text)] ==
            IF c[1] = "call" THEN Wild(dowild, pattern, c[2], c[3], text, c[4], pathname)
            ELSE TryFrom(dowild, pattern, c[2], text, c[3], c[4])
    IN  dowild[Matching(start, start, t)]

-----------------------------------------------------------------------------
(* parseGitignore *)
CanMatch(pattern) == pattern # <<>> /\ OpenBracket \notin Range(pattern)

RuleFor(negative, directoryOnly, bare) ==
    LET basenameOnly == "/" \notin Range(bare)
        pattern == IF ~basenameOnly /\ Head(bare) = "/" THEN Tail(bare) ELSE bare
    IN  [negative |-> negative, directoryOnly |-> directoryOnly,
         basenameOnly |-> basenameOnly, pattern |-> pattern,
         head |-> IF basenameOnly THEN 0
                  ELSE Min({Len(pattern) + 1} \cup {i \in DOMAIN pattern : IsGlobSpecial(pattern[i])}) - 1]

\* The "!" before it and the "/" after it taken off.
Unwrapped(negative, named) ==
    LET directoryOnly == named # <<>> /\ Last(named) = "/"
    IN  RuleFor(negative, directoryOnly, IF directoryOnly THEN Front(named) ELSE named)

CompileRule(line) ==
    IF Head(line) = "!" THEN Unwrapped(TRUE, Tail(line)) ELSE Unwrapped(FALSE, line)

\* Blank lines and comments are no rules.
Lines(file) == SelectSeq(file, LAMBDA line : line # <<>> /\ Head(line) # "#")
RuleTooLong(file) == \E line \in Range(Lines(file)) : Len(line) > MAX_RULE_LENGTH
ParseGitignore(file) ==
    SelectSeq([i \in DOMAIN Lines(file) |-> CompileRule(Lines(file)[i])], LAMBDA r : CanMatch(r.pattern))

\* The head is compared as it stands, and its last character handed to the glob with the rest.
MatchPathname(path, rule) ==
    LET head == SubSeq(rule.pattern, 1, rule.head)
        kept == IF rule.head = 0 THEN 1 ELSE rule.head
    IN  /\ IsPrefix(head, path)
        /\ IF rule.head = Len(rule.pattern) THEN path = head
           ELSE Dowild(rule.pattern, kept, path, kept, TRUE) = "match"

Basename(path) ==
    LET slashes == {i \in DOMAIN path : path[i] = "/"}
    IN  IF slashes = {} THEN path ELSE From(path, 1 + CHOOSE i \in slashes : \A j \in slashes : j <= i)

Matches(rule, path, isDirectory) ==
    /\ ~rule.directoryOnly \/ isDirectory
    /\ IF rule.basenameOnly THEN Dowild(rule.pattern, 1, Basename(path), 1, FALSE) = "match"
       ELSE MatchPathname(path, rule)

Decide(rules, path, isDirectory) ==
    LET hits == {i \in DOMAIN rules : Matches(rules[i], path, isDirectory)}
    IN  IF hits = {} THEN "none"
        ELSE IF rules[CHOOSE i \in hits : \A j \in hits : j <= i].negative THEN "kept" ELSE "ignored"

-----------------------------------------------------------------------------
(* GitignoreDescent: `tree` holds the .gitignore of each directory that has one, by its path. *)
Directories(path) == {SubSeq(path, 1, i - 1) : i \in {k \in DOMAIN path : path[k] = "/"}}
Above(path) == Directories(path) \cup {<<>>}
Below(directory, path) ==
    IF directory = <<>> THEN path ELSE From(path, Len(directory) + 2)

Deepest(opinions) ==
    IF opinions = {} THEN "none" ELSE (CHOOSE o \in opinions : \A e \in opinions : e.depth <= o.depth).says

\* Each file judges the candidate alone, and the deepest with an opinion is heard.
DecideIn(tree, path, isDirectory) ==
    Deepest({o \in {[depth |-> Len(d), says |-> Decide(ParseGitignore(tree[d]), Below(d, path), isDirectory)] :
                      d \in Above(path) \cap DOMAIN tree} : o.says # "none"})

DirectoryExcluded(tree, directory) ==
    \E d \in Directories(directory) \cup {directory} : DecideIn(tree, d, TRUE) = "ignored"

Ignores(tree, path) ==
    \E d \in Directories(path) \cup {path} : DecideIn(tree, d, d # path) = "ignored"

\* The rule files read on the way to a path: those above an excluded directory are all.
Consulted(tree, path) ==
    {d \in Above(path) \cap DOMAIN tree : d = <<>> \/ ~DirectoryExcluded(tree, d)}

\* Whether a rule file read on the way to the path is refused: unreadable, or with a line too long.
GitignoreRefused(tree, barred, path) ==
    \E d \in Consulted(tree, path) : d \in barred \/ RuleTooLong(tree[d])

\* The directories whose listing refuses a walk. What is in an excluded one is of no account.
WalkRefusals(tree, barred, unlisted) ==
    {d \in unlisted : GitignoreRefused(tree, barred, d) \/ ~DirectoryExcluded(tree, d)}

-----------------------------------------------------------------------------
(* What the rules mean, said without the matcher: a star takes any run of a segment, two that fill *)
(* a segment any number of whole directories.                                                      *)
FillsSegment(p, i, q) == q > i + 1 /\ (i = 1 \/ p[i - 1] = "/") /\ (q > Len(p) \/ p[q] = "/")

Takes(p, s, pathname) ==
    LET takes[at \in (1..(Len(p) + 1)) \X (1..(Len(s) + 1))] ==
            LET i == at[1]
                k == at[2]
                q == PastStars(p, i)
                within == {j \in k..(Len(s) + 1) : pathname => "/" \notin Range(SubSeq(s, k, j - 1))}
                directories == {j \in k..(Len(s) + 1) : j = k \/ s[j - 1] = "/"}
            IN  CASE i > Len(p) -> k > Len(s)
                  [] q > i /\ pathname /\ FillsSegment(p, i, q) ->
                       q > Len(p) \/ \E j \in directories : takes[<<q + 1, j>>]
                  [] q > i /\ ~(pathname /\ FillsSegment(p, i, q)) -> \E j \in within : takes[<<q, j>>]
                  [] OTHER ->
                       /\ k <= Len(s)
                       /\ \/ p[i] = s[k]
                          \/ p[i] = "?" /\ (pathname => s[k] # "/")
                          \/ p[i] \in DOMAIN Bracket /\ s[k] \in Bracket[p[i]] /\ (pathname => s[k] # "/")
                       /\ takes[<<i + 1, k + 1>>]
    IN  takes[<<1, 1>>]

\* A rule with a "/" before its end is of its file's directory, another of every name below it.
LineTakes(line, path, isDirectory) ==
    LET named == IF Head(line) = "!" THEN Tail(line) ELSE line
        bare == IF named # <<>> /\ Last(named) = "/" THEN Front(named) ELSE named
        anchored == "/" \in Range(bare)
    IN  /\ bare # <<>> /\ OpenBracket \notin Range(bare)
        /\ named = bare \/ isDirectory
        /\ IF anchored
           THEN Takes(IF bare[1] = "/" THEN Tail(bare) ELSE bare, path, TRUE)
           ELSE Takes(bare, Basename(path), FALSE)

\* The last word on a path: of the deepest file, and of its lines the last.
LastWord(tree, path, isDirectory) ==
    LET hits == {h \in (Above(path) \cap DOMAIN tree) \X (1..10) :
                   /\ h[2] \in DOMAIN Lines(tree[h[1]])
                   /\ LineTakes(Lines(tree[h[1]])[h[2]], Below(h[1], path), isDirectory)}
        last == CHOOSE h \in hits : \A g \in hits :
                   Len(g[1]) < Len(h[1]) \/ (Len(g[1]) = Len(h[1]) /\ g[2] <= h[2])
    IN  IF hits = {} \/ Head(Lines(tree[last[1]])[last[2]]) = "!" THEN "in" ELSE "out"

LeftOut(tree, path) ==
    LastWord(tree, path, FALSE) = "out" \/ \E d \in Directories(path) : LastWord(tree, d, TRUE) = "out"

=============================================================================
