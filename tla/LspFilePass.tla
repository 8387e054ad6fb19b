----------------------------- MODULE LspFilePass -----------------------------
(***************************************************************************)
(* enrichLanguageFiles (packages/core/src/lsp/file-pass.ts): one language  *)
(* server answers for the files of one language, one file after another.   *)
(* Inside a file a pool of workers drains the hover jobs concurrently;     *)
(* every request ends in an answer, a timeout, an error or a throw, and    *)
(* runs of failures escalate to the file and then to the language          *)
(* (fallback.ts).                                                          *)
(*                                                                         *)
(* Time is abstract: a request is in flight until it settles, and the      *)
(* file's budget is spent at any moment the environment chooses.           *)
(***************************************************************************)
EXTENDS Integers, Sequences, FiniteSets

CONSTANTS
    JobKeys,          \* per file, in file order: its hover jobs' call-site keys, in job order
    Unread,           \* the files (indices) the scan kept no content of
    Concurrency,      \* lsp.servers.<lang>.concurrency
    RequestsToFile,   \* FallbackConfig.requestsToFile
    FilesToLanguage,  \* FallbackConfig.filesToLanguage
    Targets,          \* the member Symbols a hover can be read to
    Reply(_, _)       \* Reply(f, j): how request j of file f may end; j = 0 is documentSymbol

Files == DOMAIN JobKeys
JobIds == UNION {DOMAIN JobKeys[f] : f \in Files}
Keys == UNION {{JobKeys[f][j] : j \in DOMAIN JobKeys[f]} : f \in Files}
Workers == 1..Concurrency

\* The three ways applyHover declines an answer, and what a settled hover can hold.
Rejections == {"unparseableHover", "ownerClassNotFound", "memberNotFound"}
Answers == Targets \cup Rejections
Failures == {"timeout", "error"}
Outcomes == Answers \cup Failures \cup {"throw"}
None == "none"

ASSUME JobKeysAssumption == JobKeys \in Seq(Seq(Keys)) /\ Unread \subseteq Files
\* A call-site key names its file (makeCallSiteKey, packages/core/src/call-site.ts).
ASSUME KeysAssumption ==
    \A f, g \in Files : \A i \in DOMAIN JobKeys[f], j \in DOMAIN JobKeys[g] :
        JobKeys[f][i] = JobKeys[g][j] => f = g
ASSUME ThresholdAssumption ==
    /\ Concurrency \in Nat \ {0}
    /\ RequestsToFile \in Nat \ {0}
    /\ FilesToLanguage \in Nat \ {0}
ASSUME TargetsAssumption ==
    Targets \cap (Rejections \cup Failures \cup {"throw", None}) = {}
ASSUME ReplyAssumption ==
    \A f \in Files : \A j \in JobIds \cup {0} :
        Reply(f, j) \in SUBSET Outcomes /\ Reply(f, j) # {}

VARIABLES
    file,        \* the file the loop is at
    step,        \* where enrichLanguageFiles stands in it
    fellBack,    \* fileFellBack
    over,        \* outOfBudget()
    disposed,    \* the client knows its server has exited
    pc, job,     \* each worker's control point and the job it holds
    next,        \* the head of the job queue
    refused,     \* requests in flight that were answered SERVER_DISCONNECTED; 0 is documentSymbol
    hovers,      \* the answers held until every worker has stopped
    failures,    \* jobs whose request threw
    applied,     \* how many held answers have been applied
    reqStreak,   \* perFileFailStreak of the current file
    langStreak,  \* perLanguageFailStreak of the language
    stats,       \* LspStatsBuilder's counters
    hints,       \* receiverHints
    answered,    \* history: answers that came back as [symbols, hovers, threw]
    closed       \* history: for each closed file, whether it fell back

poolVars == <<pc, job, next, refused, hovers, failures>>
loopVars == <<file, step, over, applied, langStreak, hints, closed>>
vars == <<file, step, fellBack, over, disposed, pc, job, next, refused, hovers,
          failures, applied, reqStreak, langStreak, stats, hints, answered, closed>>

Jobs == DOMAIN JobKeys[file]
InFlight == {w \in Workers : pc[w] = "waiting"}

\* The next file with content at or after f, or the loop's end.
NextFile(f) ==
    CHOOSE g \in f..Len(JobKeys) + 1 :
        /\ g \notin Unread
        /\ \A h \in f..g - 1 : h \in Unread

IdlePool ==
    /\ pc = [w \in Workers |-> "stopped"]
    /\ job = [w \in Workers |-> 0]
    /\ next = 1
    /\ refused = {}
    /\ hovers = [j \in JobIds |-> None]
    /\ failures = {}

Counters ==
    {"requestsIssued", "requestsTimedOut", "requestsFailed", "filesEnriched", "filesFellBack",
     "hintsProduced"} \cup Rejections
ZeroStats == [c \in Counters |-> 0]

Init ==
    /\ file = NextFile(1)
    /\ step = IF file \in Files THEN "open" ELSE "ended"
    /\ fellBack = FALSE /\ over = FALSE /\ disposed \in BOOLEAN
    /\ IdlePool
    /\ applied = 0 /\ reqStreak = 0 /\ langStreak = 0
    /\ stats = ZeroStats
    /\ hints = [k \in Keys |-> None]
    /\ answered = [symbols |-> 0, hovers |-> 0, threw |-> 0]
    /\ closed = <<>>

-----------------------------------------------------------------------------
(* One request *)

\* Mutants: a refused request is never answered; timeouts alone are counted.
EndingNever(slot, j) == IF slot \in refused THEN {} ELSE Reply(file, j)
StatsAfterTimeoutsOnly(outcome) ==
    IF outcome = "timeout" THEN [stats EXCEPT !.requestsTimedOut = @ + 1] ELSE stats

\* A request issued to a client that knows its server is gone ends in an error;
\* one issued before that may still be answered, time out, fail or throw.
Ending(slot, j) == IF slot \in refused THEN {"error"} ELSE Reply(file, j)

\* settle() and FallbackState.onRequest: failures are counted and lengthen the file's
\* streak, an answer resets it, and a streak of RequestsToFile makes the file fall back.
StatsAfter(outcome) ==
    CASE outcome = "timeout" -> [stats EXCEPT !.requestsTimedOut = @ + 1]
      [] outcome = "error" -> [stats EXCEPT !.requestsFailed = @ + 1]
      [] OTHER -> stats
StreakAfter(outcome) == IF outcome \in Failures THEN reqStreak + 1 ELSE 0
Escalates(outcome) == outcome \in Failures /\ reqStreak + 1 >= RequestsToFile

Issue == stats' = [stats EXCEPT !.requestsIssued = @ + 1]

\* Every send first reads disposed, which a server's exit sets.
RefusedIfDisposed(slot) == IF disposed THEN refused \cup {slot} ELSE refused \ {slot}

-----------------------------------------------------------------------------
(* The file loop *)

\* Mutant of DidOpen: a write onto a dead pipe resolves and looks like success.
DidOpenUnguarded(ok) == TRUE
DidOpen(ok) == disposed => ~ok

\* client.didOpen, then the budget check; a file still healthy issues documentSymbol
\* in the same turn. A failed didOpen moves no request counter.
Open(ok) ==
    /\ step = "open"
    /\ DidOpen(ok)
    /\ fellBack' = (~ok \/ over)
    /\ IF fellBack'
       THEN step' = "close" /\ UNCHANGED <<stats, refused>>
       ELSE step' = "symbols" /\ Issue /\ refused' = RefusedIfDisposed(0)
    /\ UNCHANGED <<file, over, disposed, pc, job, next, hovers, failures, applied,
                   reqStreak, langStreak, hints, answered, closed>>

\* documentSymbol settled and its columns are applied, the budget is checked, and the
\* workers start. An answer applyDocumentSymbols throws on leaves the whole pass.
Symbols(outcome) ==
    /\ step = "symbols"
    /\ outcome \in Ending(0, 0)
    /\ stats' = StatsAfter(outcome)
    /\ reqStreak' = StreakAfter(outcome)
    /\ fellBack' = (Escalates(outcome) \/ (outcome # "throw" /\ over))
    /\ step' = CASE outcome = "throw" -> "threw"
                 [] outcome # "throw" /\ fellBack' -> "close"
                 [] OTHER -> "hover"
    /\ pc' = [w \in Workers |-> IF step' = "hover" /\ w <= Len(JobKeys[file])
                                THEN "starting" ELSE "stopped"]
    /\ answered' = [answered EXCEPT !.symbols = IF outcome \in Failures THEN @ ELSE @ + 1]
    /\ UNCHANGED <<file, over, disposed, job, next, refused, hovers, failures, applied,
                   langStreak, hints, closed>>

-----------------------------------------------------------------------------
(* The hover workers: runJobsWithConcurrency *)

SkipJob == fellBack \/ over

\* A free worker takes the head of the queue. It skips the job once the file has fallen
\* back, makes the file fall back when the budget is spent, and else issues the hover.
Take(w) ==
    /\ step = "hover" /\ pc[w] \in {"starting", "ready"}
    /\ next <= Len(JobKeys[file])
    /\ next' = next + 1
    /\ IF SkipJob
       THEN /\ fellBack' = TRUE
            /\ pc' = [pc EXCEPT ![w] = "ready"]
            /\ UNCHANGED <<job, stats, refused>>
       ELSE /\ pc' = [pc EXCEPT ![w] = "waiting"]
            /\ job' = [job EXCEPT ![w] = next]
            /\ refused' = RefusedIfDisposed(w)
            /\ Issue
            /\ UNCHANGED fellBack
    /\ UNCHANGED <<file, step, over, disposed, hovers, failures, applied, reqStreak,
                   langStreak, hints, answered, closed>>

Stop(w) ==
    /\ step = "hover" /\ pc[w] \in {"starting", "ready"}
    /\ next > Len(JobKeys[file])
    /\ pc' = [pc EXCEPT ![w] = "stopped"]
    /\ UNCHANGED <<file, step, fellBack, over, disposed, job, next, refused, hovers, failures,
                   applied, reqStreak, langStreak, stats, hints, answered, closed>>

\* A worker's hover ends. The workers start in one turn, so none settles before all have
\* started. A hover that throws is kept as a failure of its job and settles nothing.
Settle(w, outcome) ==
    /\ step = "hover" /\ pc[w] = "waiting"
    /\ \A v \in Workers : pc[v] # "starting"
    /\ outcome \in Ending(w, job[w])
    /\ pc' = [pc EXCEPT ![w] = "ready"]
    /\ job' = [job EXCEPT ![w] = 0]
    /\ IF outcome = "throw"
       THEN /\ failures' = failures \cup {job[w]}
            /\ answered' = [answered EXCEPT !.threw = @ + 1]
            /\ UNCHANGED <<stats, reqStreak, fellBack, hovers>>
       ELSE /\ stats' = StatsAfter(outcome)
            /\ reqStreak' = StreakAfter(outcome)
            /\ fellBack' = (fellBack \/ Escalates(outcome))
            /\ IF outcome \in Answers
               THEN /\ hovers' = [hovers EXCEPT ![job[w]] = outcome]
                    /\ answered' = [answered EXCEPT !.hovers = @ + 1]
               ELSE UNCHANGED <<hovers, answered>>
            /\ UNCHANGED failures
    /\ UNCHANGED <<file, step, over, disposed, next, refused, applied, langStreak, hints, closed>>

PoolDrained == \A w \in Workers : pc[w] = "stopped"

\* Mutant of HintsApplying: a later job's hint replaces an earlier one.
HintsApplyingLast(key, hover) ==
    IF hover \in Targets THEN [hints EXCEPT ![key] = hover] ELSE hints

\* applyHover: counts a rejection, or counts a hint and files it unless its call site has one.
StatsApplying(key, hover) ==
    CASE hover \in Rejections -> [stats EXCEPT ![hover] = @ + 1]
      [] hover \in Targets -> [stats EXCEPT !.hintsProduced = @ + 1]
      [] OTHER -> stats
HintsApplying(key, hover) ==
    IF hover \in Targets /\ hints[key] = None THEN [hints EXCEPT ![key] = hover] ELSE hints

\* The finally block, after Promise.all: the held answers are applied in job order.
Apply ==
    /\ step = "hover" /\ PoolDrained
    /\ applied < Len(JobKeys[file])
    /\ applied' = applied + 1
    /\ stats' = StatsApplying(JobKeys[file][applied + 1], hovers[applied + 1])
    /\ hints' = HintsApplying(JobKeys[file][applied + 1], hovers[applied + 1])
    /\ UNCHANGED <<file, step, fellBack, over, disposed, pc, job, next, refused, hovers,
                   failures, reqStreak, langStreak, answered, closed>>

\* Every answer is applied. A job that threw is rethrown and leaves the whole pass.
HoversDone ==
    /\ step = "hover" /\ PoolDrained
    /\ applied = Len(JobKeys[file])
    /\ step' = IF failures = {} THEN "close" ELSE "threw"
    /\ UNCHANGED <<file, fellBack, over, disposed, pc, job, next, refused, hovers, failures,
                   applied, reqStreak, langStreak, stats, hints, answered, closed>>

-----------------------------------------------------------------------------
(* The end of a file, and the environment *)

\* Mutant of LangStreakAfter: an enriched file does not end the run of fallbacks.
LangStreakKept == IF fellBack THEN langStreak + 1 ELSE langStreak
LangStreakAfter == IF fellBack THEN langStreak + 1 ELSE 0

\* client.didClose, whose failure is only logged; then FallbackState.onFileClose, and either
\* the language is disabled or the loop goes on to its next file.
Close ==
    /\ step = "close"
    /\ stats' = IF fellBack THEN [stats EXCEPT !.filesFellBack = @ + 1]
                            ELSE [stats EXCEPT !.filesEnriched = @ + 1]
    /\ langStreak' = LangStreakAfter
    /\ closed' = Append(closed, fellBack)
    /\ reqStreak' = 0
    /\ IF langStreak' >= FilesToLanguage
       THEN /\ step' = "disabled"
            /\ UNCHANGED <<file, fellBack, over>>
       ELSE /\ file' = NextFile(file + 1)
            /\ step' = IF file' \in Files THEN "open" ELSE "ended"
            /\ fellBack' = FALSE /\ over' = FALSE
    /\ pc' = [w \in Workers |-> "stopped"] /\ job' = [w \in Workers |-> 0]
    /\ next' = 1 /\ refused' = {} /\ failures' = {} /\ applied' = 0
    /\ hovers' = [j \in JobIds |-> None]
    /\ UNCHANGED <<disposed, hints, answered>>

Over == step \in {"ended", "disabled", "threw"}

\* now() - fileStart passes fileBudget.
BudgetSpent ==
    /\ ~Over /\ ~over
    /\ over' = TRUE
    /\ UNCHANGED <<file, step, fellBack, disposed, pc, job, next, refused, hovers, failures,
                   applied, reqStreak, langStreak, stats, hints, answered, closed>>

\* The server process exits while the pass runs.
ServerExits ==
    /\ ~Over /\ ~disposed
    /\ disposed' = TRUE
    /\ UNCHANGED <<file, step, fellBack, over, pc, job, next, refused, hovers, failures,
                   applied, reqStreak, langStreak, stats, hints, answered, closed>>

Worker(w) == Take(w) \/ Stop(w) \/ (\E o \in Outcomes : Settle(w, o))
FileLoop ==
    \/ \E ok \in BOOLEAN : Open(ok)
    \/ \E o \in Outcomes : Symbols(o)
    \/ Apply
    \/ HoversDone
    \/ Close

Next ==
    \/ FileLoop
    \/ \E w \in Workers : Worker(w)
    \/ BudgetSpent
    \/ ServerExits

\* Every await is bounded by raceTimeout's timer, so an enabled step of the loop or of a
\* worker is taken. Neither the clock nor the server's death is fair.
Fairness == WF_vars(FileLoop) /\ \A w \in Workers : WF_vars(Worker(w))

Spec == Init /\ [][Next]_vars /\ Fairness

-----------------------------------------------------------------------------
(* Properties *)

Steps == {"open", "symbols", "hover", "close", "ended", "disabled", "threw"}

\* Types of every variable; a worker holds a job exactly while its hover is in flight.
LoopType ==
    /\ file \in 1..Len(JobKeys) + 1
    /\ step \in Steps
    /\ step # "ended" => file \in Files \ Unread
FlagType ==
    /\ fellBack \in BOOLEAN /\ over \in BOOLEAN /\ disposed \in BOOLEAN
    /\ closed \in Seq(BOOLEAN)
PoolType ==
    /\ pc \in [Workers -> {"starting", "ready", "waiting", "stopped"}]
    /\ job \in [Workers -> JobIds \cup {0}]
    /\ \A w \in Workers : IF pc[w] = "waiting" THEN job[w] \in Jobs ELSE job[w] = 0
    /\ next \in Nat \ {0}
    /\ refused \in SUBSET (Workers \cup {0})
    /\ hovers \in [JobIds -> Answers \cup {None}]
    /\ failures \in SUBSET JobIds
TallyType ==
    /\ applied \in Nat /\ reqStreak \in Nat /\ langStreak \in Nat
    /\ stats \in [Counters -> Nat]
    /\ hints \in [Keys -> Targets \cup {None}]
    /\ answered \in [{"symbols", "hovers", "threw"} -> Nat]
TypeOK == LoopType /\ FlagType /\ PoolType /\ TallyType

EveryRequestEndsOnce ==
    stats.requestsIssued =
        stats.requestsTimedOut + stats.requestsFailed
        + answered.symbols + answered.hovers + answered.threw
        + Cardinality(InFlight) + (IF step = "symbols" THEN 1 ELSE 0)

EveryHoverEndsOnce ==
    stats.hintsProduced + stats.unparseableHover + stats.ownerClassNotFound
      + stats.memberNotFound
    = answered.hovers - Cardinality({j \in JobIds : j > applied /\ hovers[j] # None})

NoRequestOutlivesItsFile ==
    step \in {"open", "close", "ended", "disabled", "threw"} => InFlight = {}

\* Whatever order the workers settle in, each request is counted as issued once and, when it
\* ends, in exactly one way of ending (a documentSymbol answer that throws counts as answered:
\* settle saw it); hints produced and the three rejections add up to the hovers that came back,
\* less those held and not yet applied; and once the loop closes a file, ends or throws, no
\* request is left to answer into Symbols the caller already holds.
RequestsAccounted ==
    TypeOK /\ EveryRequestEndsOnce /\ EveryHoverEndsOnce /\ NoRequestOutlivesItsFile

\* A call site's hint is the one of the first job, in job order, whose hover was read to a
\* member: the server's pace never decides it.
HintsInJobOrder ==
    step = "close" /\ applied > 0 =>
        \A k \in {JobKeys[file][j] : j \in Jobs} :
            LET hit == {j \in Jobs : JobKeys[file][j] = k /\ hovers[j] \in Targets}
            IN  IF hit = {} THEN hints[k] = None
                ELSE \E j \in hit : hints[k] = hovers[j] /\ \A i \in hit : j <= i

\* The language is disabled exactly when its last FilesToLanguage closed files all fell back.
DisabledAfterStraightFallbacks ==
    (step = "disabled") <=>
        /\ Len(closed) >= FilesToLanguage
        /\ \A i \in Len(closed) - FilesToLanguage + 1..Len(closed) : closed[i]

\* A crash is reported and not absorbed: a file opened after the client learned of its server's
\* exit is closed as fallen back, never as enriched.
DeadServerReported ==
    \A f \in Files \ Unread :
        LET nth == Cardinality({g \in 1..f : g \notin Unread})
        IN  (disposed /\ step = "open" /\ file = f) ~> (Len(closed) >= nth /\ closed[nth])

\* A file counts as fallen back when, and only when, its server let it down: the crash nobody asked
\* about is counted, and a fallback followed by an enriched file is no step towards disabling.
FallbacksCounted == []DisabledAfterStraightFallbacks /\ DeadServerReported

\* The pass over one language's files comes to an end, whatever the server does.
PassEnds == <>Over
=============================================================================
