----------------------------- MODULE ScanInTurn ------------------------------
(***************************************************************************)
(* What `aburi diff <base>..<head>` says on stderr while it scans and what *)
(* ends it, when the base is scanned and then the head: scanInTurn         *)
(* (packages/cli/src/commands/diff-revisions.ts). It is the reference the  *)
(* concurrent run is held to, so it is kept abstract: which lines come in  *)
(* which order, and whose failure ends the run.                            *)
(*                                                                         *)
(* A failure of the base's own worker thread has no sequential             *)
(* counterpart; it is the one thing added to scanInTurn here.              *)
(***************************************************************************)
EXTENDS Integers, Sequences

CONSTANTS
    BaseLines,  \* how many lines the base scan logs, at most
    HeadLines,  \* and the head scan
    Stray       \* whether the shared config has pluginOptions no plugin reads

VARIABLES
    at,       \* the scan under way: "base", "base read", "head", "head read", "ended"
    logged,   \* how many lines of it have been said
    spoken,   \* the lines on stderr
    outcome   \* "running", "ok", "base failed", "head failed", "thread failed", "stopped"

inTurnVars == <<at, logged, spoken, outcome>>

Line(side, kind, n) == [side |-> side, kind |-> kind, n |-> n]
Limit(side) == IF side = "base" THEN BaseLines ELSE HeadLines
LogLines(side, from, to) == [i \in 1..to - from |-> Line(side, "log", from + i)]

\* The record of what was said is shared by the two sides.
StraySaid(lines) == \E i \in DOMAIN lines : lines[i].kind = "stray"

\* reportScanIncidents: a side's incidents, and the pluginOptions line unless it was said.
Report(side, lines) ==
    <<Line(side, "incidents", 0)>>
    \o (IF Stray /\ ~StraySaid(lines) THEN <<Line("both", "stray", 0)>> ELSE <<>>)

Init ==
    /\ at = "base" /\ logged = 0
    /\ spoken = <<>> /\ outcome = "running"

\* The scan under way logs its next lines, in order.
Log ==
    /\ at \in {"base", "head"}
    /\ \E n \in logged + 1..Limit(at) :
         /\ logged' = n
         /\ spoken' = spoken \o LogLines(at, logged, n)
    /\ UNCHANGED <<at, outcome>>

\* runScan returned: the side's incidents are said before its IR is read.
Scanned ==
    /\ at \in {"base", "head"}
    /\ at' = IF at = "base" THEN "base read" ELSE "head read"
    /\ spoken' = spoken \o Report(at, spoken)
    /\ UNCHANGED <<logged, outcome>>

\* The base's IR is read, and the head scan starts. It may have lines ready.
ReadBase ==
    /\ at = "base read"
    /\ at' = "head"
    /\ \E n \in 0..HeadLines :
         logged' = n /\ spoken' = spoken \o LogLines("head", 0, n)
    /\ UNCHANGED outcome

End(how) == at' = "ended" /\ outcome' = how /\ UNCHANGED <<logged, spoken>>

ReadHead == at = "head read" /\ End("ok")

\* A scan fails, or its IR cannot be read: nothing after it is said.
Fail == \/ at \in {"base", "base read"} /\ End("base failed")
        \/ at \in {"head", "head read"} /\ End("head failed")

\* The base's thread ends without its scan's result.
ThreadFails == at = "base" /\ End("thread failed")

\* A thread that threw after its scan had ended is a warning.
LateThreadWarning ==
    /\ spoken' = Append(spoken, Line("base", "thread", 0))
    /\ UNCHANGED <<at, logged, outcome>>

\* The run fails before the scans, or a signal ends it.
Stop == at # "ended" /\ End("stopped")

Next == Log \/ Scanned \/ ReadBase \/ ReadHead \/ Fail \/ ThreadFails
        \/ LateThreadWarning \/ Stop

Spec == Init /\ [][Next]_inTurnVars
=============================================================================
