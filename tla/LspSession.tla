----------------------------- MODULE LspSession ------------------------------
(***************************************************************************)
(* enrichWithLsp (packages/core/src/lsp/enrich.ts) and the life of each    *)
(* language server: spawn, initialize, the file pass, and a shutdown that  *)
(* is bounded twice over, by a grace period for each of its steps          *)
(* (client.ts, transport.ts) and by safeShutdown's budget for the whole    *)
(* call. The languages run one after another; a shutdown the budget gave   *)
(* up on goes on behind the next language, and behind the rest of the      *)
(* scan, until the thread the scan runs on is ended with its timers. On a  *)
(* connection that is closed already, shutdown() rejects before it has     *)
(* sent or bounded anything.                                               *)
(*                                                                         *)
(* The file pass is one step here: LspFilePass is its detail. Time is      *)
(* counted only inside a shutdown, in ticks of which Grace make up         *)
(* SHUTDOWN_GRACE_MS.                                                      *)
(***************************************************************************)
EXTENDS Integers, FiniteSets

CONSTANTS
    Languages,   \* 1..Languages, in the order their ids sort
    Configured,  \* those lsp.servers has an entry for
    Grace        \* ticks in SHUTDOWN_GRACE_MS

ASSUME LanguagesAssumption == Languages \in Nat
ASSUME ConfiguredAssumption == Configured \subseteq 1..Languages
ASSUME GraceAssumption == Grace \in Nat \ {0}

Langs == 1..Languages
Budget == 3 * Grace

VARIABLES
    lang,      \* the language the loop is at
    phase,     \* where the loop stands in it
    process,   \* each server process: "none", "running", "exited", "killed" (sent SIGKILL)
    closed,    \* the languages whose connection has closed
    disposed,  \* the languages whose client is disposed
    down,      \* each client's shutdown(): where it stands
    elapsed,   \* ticks since each shutdown() was called
    disabled,  \* stats.languagesDisabled
    gaveUp,    \* warnings that a language was given up on
    sent,      \* shutdown requests sent to each server
    stranded   \* languages whose server was warned about: it may still be running

vars == <<lang, phase, process, closed, disposed, down, elapsed, disabled, gaveUp, sent, stranded>>

Phases == {"spawn", "initialize", "files", "shutdown", "done", "ended"}
DownSteps == {"none", "request", "exit", "wait", "reap", "returned", "rejected"}

\* Types; the loop only ever stands at a configured language, and starts no server early.
TypeOK ==
    /\ lang \in Configured \cup {Languages + 1}
    /\ phase \in Phases
    /\ process \in [Langs -> {"none", "running", "exited", "killed"}]
    /\ closed \in SUBSET Langs
    /\ disposed \in SUBSET Langs
    /\ down \in [Langs -> DownSteps]
    /\ elapsed \in [Langs -> 0..4 * Grace]
    /\ disabled \in SUBSET Langs
    /\ gaveUp \in [Langs -> Nat]
    /\ sent \in [Langs -> Nat]
    /\ stranded \in SUBSET Langs
    /\ \A l \in Langs : l > lang => process[l] = "none"

\* Languages without a server entry are passed over.
FirstFrom(l) ==
    CHOOSE m \in l..Languages + 1 :
        /\ m \in Configured \cup {Languages + 1}
        /\ \A k \in l..m - 1 : k \notin Configured

Init ==
    /\ lang = FirstFrom(1)
    /\ phase = IF lang \in Langs THEN "spawn" ELSE "done"
    /\ process = [l \in Langs |-> "none"]
    /\ closed = {}
    /\ disposed = {}
    /\ down = [l \in Langs |-> "none"]
    /\ elapsed = [l \in Langs |-> 0]
    /\ disabled = {}
    /\ gaveUp = [l \in Langs |-> 0]
    /\ sent = [l \in Langs |-> 0]
    /\ stranded = {}

Advance ==
    /\ lang' = FirstFrom(lang + 1)
    /\ phase' = IF lang' \in Langs THEN "spawn" ELSE "done"

\* disableLanguage: one warning and the language's name in the statistics.
DisableLanguage ==
    /\ disabled' = disabled \cup {lang}
    /\ gaveUp' = [gaveUp EXCEPT ![lang] = @ + 1]

-----------------------------------------------------------------------------
(* A language: factory, initialize, file pass *)

\* The factory throws, or finds no server to spawn.
SpawnFails ==
    /\ phase = "spawn"
    /\ DisableLanguage
    /\ Advance
    /\ UNCHANGED <<process, closed, disposed, down, elapsed, sent, stranded>>

Spawn ==
    /\ phase = "spawn"
    /\ process' = [process EXCEPT ![lang] = "running"]
    /\ phase' = "initialize"
    /\ UNCHANGED <<lang, closed, disposed, down, elapsed, disabled, gaveUp, sent, stranded>>

\* The finally of the language's try: client.shutdown() is called. A client that is disposed
\* returns at once and sends nothing. On a closed connection sendRequest throws, before there is
\* a promise whose failure could be dropped: shutdown() rejects, with nothing sent and no kill to
\* come. Otherwise the shutdown request is sent.
CallShutdown ==
    /\ phase' = "shutdown"
    /\ LET step == CASE lang \in disposed -> "returned"
                     [] lang \in closed \ disposed -> "rejected"
                     [] OTHER -> "request"
       IN  /\ down' = [down EXCEPT ![lang] = step]
           /\ sent' = [sent EXCEPT ![lang] = IF step = "request" THEN @ + 1 ELSE @]

\* initialize, or the initialized notification after it, fails or times out.
InitializeFails ==
    /\ phase = "initialize"
    /\ DisableLanguage
    /\ CallShutdown
    /\ UNCHANGED <<lang, process, closed, disposed, elapsed, stranded>>

\* The answer is read and the notification sent while the connection is open. A dead server's
\* answer may still be in the pipe: initialize does not read disposed.
Initialize ==
    /\ phase = "initialize" /\ lang \notin closed
    /\ phase' = "files"
    /\ UNCHANGED <<lang, process, closed, disposed, down, elapsed, disabled, gaveUp, sent, stranded>>

\* enrichLanguageFiles ends, or disables the language after straight fallbacks, or throws and
\* the catch disables it.
FilesEnd ==
    /\ phase = "files"
    /\ \/ UNCHANGED <<disabled, gaveUp>>
       \/ DisableLanguage
    /\ CallShutdown
    /\ UNCHANGED <<lang, process, closed, disposed, elapsed, stranded>>

-----------------------------------------------------------------------------
(* client.shutdown() past its request, for the language the loop is at or one it gave up on. A
   connection that closes meanwhile changes nothing: the request times out, the exit notification
   throws inside sendNotificationBounded, and the kill needs no connection. *)

\* safeShutdown has given up on l's shutdown, or is not waiting for it.
Awaited(l) == l = lang /\ phase = "shutdown"

\* A step of l's shutdown ends d ticks after it began. A shutdown still awaited ends no
\* step past the budget: the loop would have moved on first.
Tick(l, d) ==
    /\ d \in 0..Grace
    /\ Awaited(l) => elapsed[l] + d <= Budget
    /\ elapsed' = [elapsed EXCEPT ![l] = @ + d]

DownTo(l, step) == down' = [down EXCEPT ![l] = step]

\* The shutdown request is answered, fails, or times out: whatever it did is dropped.
RequestEnds(l, d) ==
    /\ down[l] = "request" /\ Tick(l, d)
    /\ DownTo(l, "exit")
    /\ UNCHANGED <<lang, phase, process, closed, disposed, disabled, gaveUp, sent, stranded>>

\* The exit notification is written or times out.
ExitSent(l, d) ==
    /\ down[l] = "exit" /\ Tick(l, d)
    /\ DownTo(l, "wait")
    /\ UNCHANGED <<lang, phase, process, closed, disposed, disabled, gaveUp, sent, stranded>>

\* dispose() and the end of shutdown().
Returns(l) == DownTo(l, "returned") /\ disposed' = disposed \cup {l}

\* killAfter: the process has exited, or exits within the grace period.
Exited(l, d) ==
    /\ down[l] \in {"wait", "reap"} /\ process[l] = "exited" /\ Tick(l, d)
    /\ Returns(l)
    /\ UNCHANGED <<lang, phase, process, closed, disabled, gaveUp, sent, stranded>>

\* Mutant of Kill: the wait ends and shutdown returns.
KillNothing(l) ==
    /\ down[l] = "wait" /\ process[l] = "running" /\ Tick(l, Grace)
    /\ Returns(l)
    /\ UNCHANGED <<lang, phase, process, closed, disabled, gaveUp, sent, stranded>>

\* killAfter: the grace period passes and the process is sent SIGKILL.
Kill(l) ==
    /\ down[l] = "wait" /\ process[l] = "running" /\ Tick(l, Grace)
    /\ process' = [process EXCEPT ![l] = "killed"]
    /\ DownTo(l, "reap")
    /\ UNCHANGED <<lang, phase, closed, disposed, disabled, gaveUp, sent, stranded>>

\* killAfter: the second grace period passes with the process not reaped.
Unreaped(l) ==
    /\ down[l] = "reap" /\ process[l] = "killed" /\ Tick(l, Grace)
    /\ Returns(l)
    /\ UNCHANGED <<lang, phase, process, closed, disabled, gaveUp, sent, stranded>>

-----------------------------------------------------------------------------
(* safeShutdown, and the environment *)

\* shutdown() won the race against the budget.
ShutdownAnswered ==
    /\ phase = "shutdown" /\ down[lang] = "returned"
    /\ Advance
    /\ UNCHANGED <<process, closed, disposed, down, elapsed, disabled, gaveUp, sent, stranded>>

\* Mutant of Warn: the race is lost in silence.
WarnNothing == UNCHANGED stranded
Warn == stranded' = stranded \cup {lang}

\* shutdown() rejected: safeShutdown catches it, and warns.
ShutdownRejected ==
    /\ phase = "shutdown" /\ down[lang] = "rejected"
    /\ Warn
    /\ Advance
    /\ UNCHANGED <<process, closed, disposed, down, elapsed, disabled, gaveUp, sent>>

\* The budget won: a warning, and the next language. The step under way can last a whole
\* grace period, so the budget may be reached within it.
GiveUp ==
    /\ phase = "shutdown" /\ down[lang] \notin {"returned", "rejected"}
    /\ elapsed[lang] + Grace >= Budget
    /\ Warn
    /\ Advance
    /\ UNCHANGED <<process, closed, disposed, down, elapsed, disabled, gaveUp, sent>>

\* A server process ends, by itself or by its SIGKILL, and the client learns of it.
ServerExits(l) ==
    /\ process[l] \in {"running", "killed"}
    /\ process' = [process EXCEPT ![l] = "exited"]
    /\ disposed' = disposed \cup {l}
    /\ UNCHANGED <<lang, phase, closed, down, elapsed, disabled, gaveUp, sent, stranded>>

\* A server's end of the pipes closes; it may live on.
ConnectionCloses(l) ==
    /\ process[l] \in {"running", "killed"} /\ l \notin closed
    /\ closed' = closed \cup {l}
    /\ UNCHANGED <<lang, phase, process, disposed, down, elapsed, disabled, gaveUp, sent, stranded>>

\* The rest of the scan is over and its thread is terminated, or its process ends: the timers of
\* the shutdowns still going on go with it.
Terminate ==
    /\ phase = "done"
    /\ phase' = "ended"
    /\ UNCHANGED <<lang, process, closed, disposed, down, elapsed, disabled, gaveUp, sent, stranded>>

Loop == SpawnFails \/ Spawn \/ InitializeFails \/ Initialize \/ FilesEnd
        \/ ShutdownAnswered \/ ShutdownRejected \/ GiveUp

Shutdown(l) ==
    /\ phase # "ended"
    /\ \/ \E d \in 0..Grace : RequestEnds(l, d) \/ ExitSent(l, d) \/ Exited(l, d)
       \/ Kill(l)
       \/ Unreaped(l)

Next == \/ Loop
        \/ Terminate
        \/ \E l \in Langs : Shutdown(l) \/ ConnectionCloses(l) \/ ServerExits(l)

\* Every await of the loop is bounded by a timer, and so is every step of a shutdown that sent its
\* request, for as long as its thread lives. A server's exit is never owed, not even after SIGKILL;
\* nor is a connection's closing, or the end of the thread.
Fairness == WF_vars(Loop) /\ \A l \in Langs : WF_vars(Shutdown(l))

Spec == Init /\ [][Next]_vars /\ Fairness
-----------------------------------------------------------------------------
(* Properties *)

Left(l) == lang > l

\* Once the loop has left a language, its server has exited, has been sent SIGKILL, or was
\* reported as possibly still running: nothing else in the run would report it. By rules 3 and 7
\* of lsp-enrichment.md 6.3 a language is given up on with exactly one warning, and a server is
\* sent shutdown on every exit from its language; in the code it is never sent twice, and a server
\* that has not exited goes without it only behind a closed connection, and then it was reported.
ServerAccountedFor ==
    /\ TypeOK
    /\ \A l \in Langs :
         /\ Left(l) /\ process[l] = "running" => l \in stranded
         /\ gaveUp[l] = (IF l \in disabled THEN 1 ELSE 0)
         /\ sent[l] <= 1
         /\ Left(l) /\ process[l] = "running" => sent[l] = 1 \/ l \in closed
         /\ process[l] = "killed" => sent[l] = 1

\* l's server runs on behind a warning, and nothing is left that would stop it: its shutdown()
\* rejected, or the thread that would have sent the SIGKILL was ended first.
LeftRunning(l) ==
    /\ process[l] = "running" /\ l \in stranded
    /\ down[l] = "rejected" \/ phase = "ended"

\* Enrichment returns, and each server it started is stopped in the end: a shutdown the budget gave
\* up on still reaches its SIGKILL. The only ones left are those of LeftRunning.
EveryServerStopped ==
    <>(/\ phase \in {"done", "ended"}
       /\ \A l \in Langs : process[l] = "running" => LeftRunning(l))
=============================================================================
