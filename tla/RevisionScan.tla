---------------------------- MODULE RevisionScan -----------------------------
(***************************************************************************)
(* scanRevisions (packages/cli/src/commands/diff-revisions.ts): the base   *)
(* ref is checked out in a temporary git worktree and both revisions are   *)
(* scanned, together or in turn. Together, the base runs on a worker       *)
(* thread that posts its log and its result (scan-thread.ts) while the     *)
(* head runs on the main thread with its log held. Afterwards, and on a    *)
(* fatal signal (signal-cleanup.ts), the checkout and the temporary        *)
(* directory are removed.                                                  *)
(***************************************************************************)
EXTENDS Integers, Sequences, FiniteSets

CONSTANTS BaseLines, HeadLines, Stray

ASSUME ScanLinesAssumption == BaseLines \in Nat /\ HeadLines \in Nat /\ Stray \in BOOLEAN

VARIABLES
    main,        \* where the main thread stands
    parallel,    \* context.parallelScans ?? availableParallelism() >= 2
    listening,   \* the fatal signals' listeners are registered
    signals,     \* fatal signals received
    temp,        \* the temporary directory exists
    checkout,    \* the worktree: "absent", "adding" (git runs), "present"
    addCut,      \* a signal left git adding the worktree behind it
    warned,      \* removals that failed and were reported
    base,        \* the base scan: "idle", "running", "done", "failed", "died"
    baseLogged,  \* the lines it has logged
    channel,     \* messages and events on their way from the base's thread
    baseResult,  \* how the base's promise settled: "none", "done", "failed", "died"
    head,        \* the head scan: "idle", "running", "done", "failed"
    headLogged,  \* the lines it has logged
    held,        \* the lines heldLog keeps back
    released,    \* the head's lines go to stderr: the base is through
    spoken,      \* the lines on stderr
    outcome      \* what ends the run, once that is decided

cleanupVars == <<listening, signals, temp, checkout, addCut, warned>>
baseVars == <<base, baseLogged, channel, baseResult>>
headVars == <<head, headLogged, held, released>>
vars == <<main, parallel, listening, signals, temp, checkout, addCut, warned, base, baseLogged,
          channel, baseResult, head, headLogged, held, released, spoken, outcome>>

SaidOf(side) ==
    Cardinality({i \in DOMAIN spoken : spoken[i].side = side /\ spoken[i].kind = "log"})

\* What a reader of stderr can tell: the refinement mapping to the sequential run.
TurnAt ==
    IF outcome # "running" THEN "ended"
    ELSE IF released THEN IF main = "head read" THEN "head read" ELSE "head"
    ELSE IF main = "base read" THEN "base read" ELSE "base"
TurnLogged == IF released THEN SaidOf("head") ELSE SaidOf("base")
Turn == INSTANCE ScanInTurn WITH at <- TurnAt, logged <- TurnLogged

Before == {"preflight", "mkdtemp", "register", "add"}
Scanning == {"scan", "base read", "wait head", "head", "head read"}
Finally == {"remove worktree", "remove temp", "release signals"}
Cleanup == {"cleanup worktree", "cleanup temp", "reraise"}
Stopped == {"returned", "signalled", "killed"}
EventLoop == main \in Before \cup Scanning \cup Finally

Init ==
    /\ main = "preflight" /\ parallel \in BOOLEAN
    /\ listening = FALSE /\ signals = 0
    /\ temp = FALSE /\ checkout = "absent" /\ addCut = FALSE /\ warned = {}
    /\ base = "idle" /\ baseLogged = 0 /\ channel = <<>> /\ baseResult = "none"
    /\ head = "idle" /\ headLogged = 0 /\ held = <<>> /\ released = FALSE
    /\ spoken = <<>> /\ outcome = "running"

-----------------------------------------------------------------------------
(* Before the scans *)

\* The ref, shallow-clone and sparse-checkout checks, the config and the renames.
Preflight(ok) ==
    /\ main = "preflight"
    /\ main' = IF ok THEN "mkdtemp" ELSE "returned"
    /\ outcome' = IF ok THEN outcome ELSE "stopped"
    /\ UNCHANGED <<parallel, cleanupVars, baseVars, headVars, spoken>>

\* The directory exists before the main thread resumes from its await.
Mkdtemp ==
    /\ main = "mkdtemp"
    /\ main' = "register" /\ temp' = TRUE
    /\ UNCHANGED <<parallel, listening, signals, checkout, addCut, warned, baseVars, headVars,
                   spoken, outcome>>

\* Mutant of Register: the checkout is added before anything listens for a signal.
RegisterNothing ==
    /\ main = "register"
    /\ main' = "add" /\ checkout' = "adding"
    /\ UNCHANGED <<parallel, listening, signals, temp, addCut, warned, baseVars, headVars,
                   spoken, outcome>>

\* cleanUpOnFatalSignal, and git worktree add is started.
Register ==
    /\ main = "register"
    /\ listening' = TRUE
    /\ main' = "add" /\ checkout' = "adding"
    /\ UNCHANGED <<parallel, signals, temp, addCut, warned, baseVars, headVars, spoken, outcome>>

\* git worktree add ends. Together, both scans start; in turn, the base's.
AddEnds(ok) ==
    /\ main = "add"
    /\ IF ok
       THEN /\ main' = "scan" /\ checkout' = "present"
            /\ base' = "running"
            /\ head' = IF parallel THEN "running" ELSE "idle"
            /\ UNCHANGED outcome
       ELSE /\ main' = "remove temp" /\ checkout' = "absent"
            /\ outcome' = "stopped"
            /\ UNCHANGED <<base, head>>
    /\ UNCHANGED <<parallel, listening, signals, temp, addCut, warned, baseLogged, channel,
                   baseResult, headLogged, held, released, spoken>>

-----------------------------------------------------------------------------
(* The base scan, on its thread or, in turn, on the main one *)

\* A line, a result or an event leaves the base: over the channel, or straight to its reader.
BaseRuns == base = "running" /\ (parallel => main \notin Stopped) /\ (~parallel => EventLoop)

BaseLogs ==
    /\ BaseRuns /\ baseLogged < BaseLines
    /\ baseLogged' = baseLogged + 1
    /\ LET line == Turn!Line("base", "log", baseLogged + 1)
       IN  IF parallel THEN channel' = Append(channel, line) /\ UNCHANGED spoken
                       ELSE spoken' = Append(spoken, line) /\ UNCHANGED channel
    /\ UNCHANGED <<main, parallel, cleanupVars, base, baseResult, headVars, outcome>>

BaseEnds(how) ==
    /\ BaseRuns /\ how \in {"done", "failed"}
    /\ base' = how
    /\ IF parallel
       THEN channel' = Append(channel, Turn!Line("base", how, 0)) /\ UNCHANGED baseResult
       ELSE baseResult' = how /\ UNCHANGED channel
    /\ UNCHANGED <<main, parallel, cleanupVars, baseLogged, headVars, spoken, outcome>>

\* The thread throws outside its scan's handling, or a plugin calls process.exit() on it;
\* before its scan ends, or after, until settle() terminates it.
ThreadDies(how) ==
    /\ parallel /\ main \notin Stopped /\ how \in {"error", "exit"}
    /\ base = "running" \/ (base \in {"done", "failed"} /\ baseResult = "none")
    /\ base' = "died"
    /\ channel' = Append(channel, Turn!Line("base", how, 0))
    /\ UNCHANGED <<main, parallel, cleanupVars, baseLogged, baseResult, headVars, spoken, outcome>>

\* Mutant of Settled: nothing listens for the thread's exit.
SettledIgnoringExit(kind) ==
    IF baseResult # "none" \/ kind = "exit" THEN baseResult
    ELSE IF kind = "error" THEN "died" ELSE kind

\* settle() keeps the first result. An error or exit event settles what nothing had.
Settled(kind) ==
    IF baseResult # "none" THEN baseResult
    ELSE IF kind \in {"error", "exit"} THEN "died" ELSE kind

\* The main thread takes the next message: a log line is written, a result settles the scan,
\* and an error event that comes after that is a warning.
Receive ==
    /\ EventLoop /\ channel # <<>>
    /\ channel' = Tail(channel)
    /\ LET message == Head(channel)
       IN  /\ baseResult' = IF message.kind = "log" THEN baseResult ELSE Settled(message.kind)
           /\ spoken' = CASE message.kind = "log" -> Append(spoken, message)
                          [] message.kind = "error" /\ baseResult # "none" ->
                               Append(spoken, Turn!Line("base", "thread", 0))
                          [] OTHER -> spoken
    /\ UNCHANGED <<main, parallel, cleanupVars, base, baseLogged, headVars, outcome>>

-----------------------------------------------------------------------------
(* The head scan, on the main thread *)

\* Mutant of HoldsBack: the head's lines are written as they come.
HoldsNothing == FALSE
HoldsBack == ~released

\* heldLog().write
HeadLogs ==
    /\ EventLoop /\ head = "running" /\ headLogged < HeadLines
    /\ headLogged' = headLogged + 1
    /\ LET line == Turn!Line("head", "log", headLogged + 1)
       IN  IF HoldsBack THEN held' = Append(held, line) /\ UNCHANGED spoken
                        ELSE spoken' = Append(spoken, line) /\ UNCHANGED held
    /\ UNCHANGED <<main, parallel, cleanupVars, baseVars, head, released, outcome>>

HeadEnds(how) ==
    /\ EventLoop /\ head = "running" /\ how \in {"done", "failed"}
    /\ head' = how
    /\ UNCHANGED <<main, parallel, cleanupVars, baseVars, headLogged, held, released, spoken,
                   outcome>>

-----------------------------------------------------------------------------
(* The caller: scanTogether, or scanInTurn *)

\* The base scan returned: readBase says its incidents, then reads its IR.
ReportBase ==
    /\ main = "scan" /\ baseResult = "done"
    /\ main' = "base read"
    /\ spoken' = spoken \o Turn!Report("base", spoken)
    /\ UNCHANGED <<parallel, cleanupVars, baseVars, headVars, outcome>>

\* The base failed: together, its error waits for the head to stop and the head is discarded.
BaseFailure(how) ==
    /\ outcome' = how
    /\ main' = IF parallel THEN "wait head" ELSE "remove worktree"
    /\ UNCHANGED <<parallel, cleanupVars, baseVars, headVars, spoken>>

BaseFails ==
    /\ main = "scan" /\ baseResult \in {"failed", "died"}
    /\ BaseFailure(IF baseResult = "died" THEN "thread failed" ELSE "base failed")

\* The scan rooted elsewhere than the worktree, wrote no IR, or its IR cannot be read.
BaseUnreadable == main = "base read" /\ BaseFailure("base failed")

\* Mutant of HeadStopped: the base's error is thrown at once.
HeadAbandoned == TRUE
HeadStopped == head \in {"done", "failed"}

WaitHead ==
    /\ main = "wait head" /\ HeadStopped
    /\ main' = "remove worktree"
    /\ UNCHANGED <<parallel, cleanupVars, baseVars, headVars, spoken, outcome>>

\* The base is through: together, the held log is released; in turn, the head scan starts.
BaseRead ==
    /\ main = "base read"
    /\ main' = "head" /\ released' = TRUE
    /\ spoken' = spoken \o held /\ held' = <<>>
    /\ head' = IF parallel THEN head ELSE "running"
    /\ UNCHANGED <<parallel, cleanupVars, baseVars, headLogged, outcome>>

ReportHead ==
    /\ main = "head" /\ head = "done"
    /\ main' = "head read"
    /\ spoken' = spoken \o Turn!Report("head", spoken)
    /\ UNCHANGED <<parallel, cleanupVars, baseVars, headVars, outcome>>

HeadFails ==
    /\ \/ main = "head" /\ head = "failed"
       \/ main = "head read"
    /\ main' = "remove worktree" /\ outcome' = "head failed"
    /\ UNCHANGED <<parallel, cleanupVars, baseVars, headVars, spoken>>

HeadRead ==
    /\ main = "head read"
    /\ main' = "remove worktree" /\ outcome' = "ok"
    /\ UNCHANGED <<parallel, cleanupVars, baseVars, headVars, spoken>>

-----------------------------------------------------------------------------
(* The finally block *)

\* A removal that fails is only warned about. The worktree is removed only once it was added.
RemoveWorktree(ok) ==
    /\ main = "remove worktree"
    /\ main' = "remove temp"
    /\ checkout' = IF ok THEN "absent" ELSE checkout
    /\ warned' = IF ok THEN warned ELSE warned \cup {"worktree"}
    /\ UNCHANGED <<parallel, listening, signals, temp, addCut, baseVars, headVars, spoken,
                   outcome>>

RemoveTemp(ok) ==
    /\ main = "remove temp"
    /\ main' = "release signals"
    /\ temp' = ~ok
    /\ warned' = IF ok THEN warned ELSE warned \cup {"temp"}
    /\ UNCHANGED <<parallel, listening, signals, checkout, addCut, baseVars, headVars, spoken,
                   outcome>>

ReleaseSignals ==
    /\ main = "release signals"
    /\ main' = "returned" /\ listening' = FALSE
    /\ UNCHANGED <<parallel, signals, temp, checkout, addCut, warned, baseVars, headVars, spoken,
                   outcome>>

-----------------------------------------------------------------------------
(* Fatal signals *)

\* With no listener the signal ends the process. With one, the listener first takes itself
\* off, so a second signal ends the process at once, and then cleans up synchronously.
Signal ==
    /\ main \notin Stopped /\ signals < 2
    /\ signals' = signals + 1
    /\ listening' = FALSE
    /\ main' = IF listening THEN "cleanup worktree" ELSE "killed"
    /\ addCut' = (addCut \/ (listening /\ checkout = "adding"))
    /\ outcome' = IF outcome = "running" THEN "stopped" ELSE outcome
    /\ UNCHANGED <<parallel, temp, checkout, warned, baseVars, headVars, spoken>>

\* removeCheckoutSynchronously. A checkout that was there and could not be removed is reported.
CleanupWorktree(ok) ==
    /\ main = "cleanup worktree"
    /\ main' = "cleanup temp"
    /\ checkout' = IF ok /\ checkout = "present" THEN "absent" ELSE checkout
    /\ warned' = IF ok \/ checkout = "absent" THEN warned ELSE warned \cup {"worktree"}
    /\ UNCHANGED <<parallel, listening, signals, temp, addCut, baseVars, headVars, spoken,
                   outcome>>

CleanupTemp(ok) ==
    /\ main = "cleanup temp"
    /\ main' = "reraise"
    /\ temp' = (temp /\ ~ok)
    /\ warned' = IF ok THEN warned ELSE warned \cup {"temp"}
    /\ UNCHANGED <<parallel, listening, signals, checkout, addCut, baseVars, headVars, spoken,
                   outcome>>

\* The signal is raised again, with nothing listening.
Reraise ==
    /\ main = "reraise"
    /\ main' = "signalled"
    /\ UNCHANGED <<parallel, cleanupVars, baseVars, headVars, spoken, outcome>>

\* A git the signal did not reach ends after all, with the checkout made or not.
GitOutlives ==
    /\ main \in Cleanup \cup Stopped /\ checkout = "adding"
    /\ checkout' \in {"absent", "present"}
    /\ temp' = (temp \/ checkout' = "present")
    /\ UNCHANGED <<main, parallel, listening, signals, addCut, warned, baseVars, headVars,
                   spoken, outcome>>

-----------------------------------------------------------------------------
Main ==
    \/ \E ok \in BOOLEAN :
         \/ Preflight(ok) \/ AddEnds(ok)
         \/ RemoveWorktree(ok) \/ RemoveTemp(ok)
         \/ CleanupWorktree(ok) \/ CleanupTemp(ok)
    \/ Mkdtemp \/ Register
    \/ ReportBase \/ BaseFails \/ BaseUnreadable \/ WaitHead \/ BaseRead
    \/ ReportHead \/ HeadFails \/ HeadRead
    \/ ReleaseSignals \/ Reraise

BaseScan == BaseLogs \/ \E how \in {"done", "failed"} : BaseEnds(how)
HeadScan == HeadLogs \/ \E how \in {"done", "failed"} : HeadEnds(how)

Next ==
    \/ Main \/ BaseScan \/ HeadScan \/ Receive
    \/ \E how \in {"error", "exit"} : ThreadDies(how)
    \/ Signal \/ GitOutlives

\* Each scan ends, git and the file system answer, and the event loop takes its messages.
Fairness == WF_vars(Main) /\ WF_vars(BaseScan) /\ WF_vars(HeadScan) /\ WF_vars(Receive)

Spec == Init /\ [][Next]_vars /\ Fairness

-----------------------------------------------------------------------------
(* Properties *)

Messages == {"log", "done", "failed", "error", "exit"}
RunType ==
    /\ main \in Before \cup Scanning \cup Finally \cup Cleanup \cup Stopped
    /\ parallel \in BOOLEAN /\ listening \in BOOLEAN
    /\ temp \in BOOLEAN /\ checkout \in {"absent", "adding", "present"} /\ addCut \in BOOLEAN
    /\ warned \in SUBSET {"worktree", "temp"}
    /\ outcome \in {"running", "ok", "base failed", "head failed", "thread failed", "stopped"}
BaseType ==
    /\ base \in {"idle", "running", "done", "failed", "died"}
    /\ baseLogged \in 0..BaseLines
    /\ \A i \in DOMAIN channel : channel[i].side = "base" /\ channel[i].kind \in Messages
    /\ baseResult \in {"none", "done", "failed", "died"}
HeadType ==
    /\ head \in {"idle", "running", "done", "failed"}
    /\ headLogged \in 0..HeadLines
    /\ released \in BOOLEAN
    /\ Len(held) <= headLogged /\ (released => held = <<>>)
TypeOK == RunType /\ signals \in 0..2 /\ BaseType /\ HeadType

\* "Running together changes nothing the run says or decides" (cli-spec.md 14.1): whatever the
\* two scans' pace, stderr and the failure that ends the run are those of the scans in turn.
AsInTurn == Turn!Spec

\* However the run ends, the worktree and the temporary directory are gone or their removal was
\* reported; only a git worktree add the signal did not reach may outlive it. The first
\* signal never ends the process with a worktree it would have to remove. A scan whose output
\* directory lies in the temporary directory is never still running when the finally block starts
\* to remove it.
NothingLeftBehind ==
    /\ TypeOK
    /\ main \in {"returned", "signalled"} /\ ~addCut =>
         /\ temp => "temp" \in warned
         /\ checkout = "absent" \/ "worktree" \in warned
    /\ main = "killed" /\ signals = 1 => checkout = "absent"
    /\ main \in Finally => head # "running" /\ base # "running"

\* The run returns or is ended by a signal.
RunEnds == <>(main \in Stopped)
=============================================================================
