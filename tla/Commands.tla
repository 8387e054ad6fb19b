------------------------------ MODULE Commands -------------------------------
(***************************************************************************)
(* The commands aburi runs over one output directory, one after another,   *)
(* and what each leaves there: scan (packages/cli/src/commands/scan.ts)    *)
(* and the scan explain falls back to (explain.ts) write the IR and its    *)
(* pages, diff (diff.ts) its report. Every write and removal is a step     *)
(* that can be refused, and a kill can fall between any two, or inside a   *)
(* write. The GitHub Action (packages/github-action/action.yml) posts what *)
(* its diff left. Whether a --fail-on clause is triggered is an input; the *)
(* scan itself is ScanDocument.                                            *)
(***************************************************************************)
EXTENDS Integers, Sequences, FiniteSets, SequencesExt

CONSTANTS
    Pages,    \* Component ids that can have a page under components/
    Runs      \* bound: commands run over the directory

\* The pages stand under components/, beside none of the files of the directory itself.
ASSUME CommandsAssumption ==
    /\ Runs \in Nat
    /\ IsFiniteSet(Pages)
    /\ Pages \cap {"ir", "workspace", "vocab", "json", "md", "full"} = {}

VARIABLES
    files,    \* what stands at each path of the output directory
    n,        \* the commands started so far; the number of the one running
    cmd,      \* that command and its options
    at,       \* where it stands
    todo,     \* the writes and removals it has left, in order
    own,      \* the files it writes when nothing stops it
    faulted,  \* a scan of its own must not pass: exitCode of its ScanReport
    tripped,  \* a --fail-on clause was triggered
    said,     \* a scan's incidents were reported
    exit,     \* how the last command ended, and its exit code
    posted    \* the body the last command's run of the action posted, with that run

vars == <<files, n, cmd, at, todo, own, faulted, tripped, said, exit, posted>>

ScanFiles == {"ir", "workspace", "vocab"} \cup Pages
Report == {"json", "md", "full"}
Files == ScanFiles \cup Report

Absent == [by |-> 0, form |-> "absent"]
Directory == [by |-> 0, form |-> "directory"]
Foreign == [by |-> 0, form |-> "foreign"]   \* a page-named file of the caller's: another first line
Written(run, form) == [by |-> run, form |-> form]

Formats == {"json", "md", "both"}
NoCommand == [name |-> "none"]
Scans == [name : {"scan"}, format : Formats, strict : BOOLEAN]
Explains == [name : {"explain"}, rescan : {"no", "if missing", "forced"}]
Diffs == [name : {"diff"}, format : Formats, over : BOOLEAN, action : BOOLEAN]

SUCCESS == 0
RUNTIME == 1
INPUT_ERROR == 2
GATE == 3
Codes == {SUCCESS, RUNTIME, INPUT_ERROR, GATE}

NoExit == [how |-> "none", code |-> SUCCESS]

ExitOf(error) ==
    CASE error \in {"input-error", "config-error", "fail-on"} -> INPUT_ERROR
      [] error = "plugin-error" -> GATE
      [] OTHER -> RUNTIME

\* The order of a census's fault: what takes every file comes before the floor.
CoverageFault(total, parsed, floor) ==
    \/ parsed = 0
    \/ 2 * parsed < floor * total      \* a floor of 0, 1/2 or 1, in halves

Withdrawn(parsed, total) == 0..(total - parsed)

ScanFault(total, parsed, floor, extraction, unrepresentable, unnameable) ==
    extraction > 0 \/ CoverageFault(total, parsed, floor) \/ unrepresentable \/ unnameable

-----------------------------------------------------------------------------
Put(f) == [op |-> "write", file |-> f]
Drop(f) == [op |-> "remove", file |-> f]
ListPages == [op |-> "list", file |-> "ir"]

If(condition, steps) == IF condition THEN steps ELSE <<>>

\* runScan's outputs: the IR before the pages derived from it; explain's scan is --format json.
ScanWrites(format, strict, comps) ==
    If(format # "md", <<Put("ir")>>)
      \o If(format # "json", <<Put("workspace")>>
                               \o [i \in 1..Cardinality(comps) |-> Put(SetToSeq(comps)[i])])
      \o If(cmd.name = "scan" /\ ~strict, <<Put("vocab")>>)

\* The removal of the other format's IR forgotten.
ScanRemovalsKeepingIR(format, strict) ==
    If(cmd.name = "scan",
       If(strict, <<Drop("vocab")>>)
         \o If(format = "json", <<Drop("workspace")>>)
         \o <<ListPages>>)

\* What the run does not write goes, once everything it writes is written: scan's alone.
ScanRemovals(format, strict) ==
    If(cmd.name = "scan",
       If(strict, <<Drop("vocab")>>)
         \o If(format = "md", <<Drop("ir")>>)
         \o If(format = "json", <<Drop("workspace")>>)
         \o <<ListPages>>)

\* The uncapped report removed ahead of the one that points at it.
EarlierReportFullFirst == <<Drop("json"), Drop("full"), Drop("md")>>

\* diff.json, diff.md, diff.full.md.
EarlierReport == <<Drop("json"), Drop("md"), Drop("full")>>

\* The uncapped report lands before the capped one that names it.
ReportWrites ==
    If(cmd.format # "md", <<Put("json")>>)
      \o If(cmd.format # "json", If(cmd.over, <<Put("full")>>) \o <<Put("md")>>)

FilesOf(steps) == {steps[i].file : i \in DOMAIN steps}

-----------------------------------------------------------------------------
Init ==
    /\ files \in [Files -> {Absent, Directory, Foreign}]
    /\ \A f \in Files : files[f] = Foreign => f \in Pages
    /\ n = 0
    /\ cmd = NoCommand
    /\ at = "idle"
    /\ todo = <<>>
    /\ own = {}
    /\ faulted = FALSE
    /\ tripped = FALSE
    /\ said = FALSE
    /\ exit = NoExit
    /\ posted = {}

Ended(how, code) == at' = "ended" /\ exit' = [how |-> how, code |-> code] /\ todo' = <<>>
Throws(error) == Ended("threw", ExitOf(error))
Returns(code) == Ended("returned", code)

\* A plugin calls process.exit: the process goes with that code and nothing else happens.
ProcessExit == \E code \in Codes : Ended("exited", code)

Stays == UNCHANGED <<n, cmd, posted>>
Idle == UNCHANGED <<files, n, cmd, own, faulted, tripped, said, posted>>

Start ==
    /\ at = "idle"
    /\ n < Runs
    /\ n' = n + 1
    /\ cmd' \in Scans \cup Explains \cup Diffs
    /\ at' = "configure"
    /\ posted' = {}
    /\ UNCHANGED <<files, todo, own, faulted, tripped, said, exit>>

\* The options, the config, scan's plugins and the output directory: refused before any file of
\* the directory is touched.
Refuse ==
    /\ at = "configure"
    /\ \E error \in {"input-error", "config-error", "runtime-error", "fail-on", "plugin-error"} :
         /\ error = "plugin-error" => cmd.name = "scan"
         /\ error = "fail-on" => cmd.name = "diff"
         /\ Throws(error)
    /\ Idle

\* runDiff: the earlier report is removed before the sides are read.
Configure ==
    /\ at = "configure"
    /\ CASE cmd.name = "scan" -> at' = "scan" /\ UNCHANGED todo
         [] cmd.name = "explain" -> at' = "look up" /\ UNCHANGED todo
         [] cmd.name = "diff" -> at' = "clear" /\ todo' = EarlierReport
    /\ UNCHANGED exit
    /\ Idle

\* What locate says of the argument, and its exit code.
AnswerCode(kind) ==
    CASE kind \in {"single", "file"} -> SUCCESS
      [] kind = "not-found" -> RUNTIME
      [] kind = "ambiguous" -> INPUT_ERROR
      [] kind \in {"unnameable", "unknown"} -> GATE   \* a file no IR names, or this one skipped

Answers == {AnswerCode(k) : k \in {"single", "file", "not-found", "ambiguous", "unnameable", "unknown"}}

\* --output of an answer, which is written outside the directory.
OutputRefused == \E error \in {"input-error", "runtime-error"} : Throws(error)

Answer == (\E code \in Answers : Returns(code)) \/ OutputRefused

\* readIR refuses what is not a whole document.
ReadsIR == files["ir"].form = "whole"

\* readOrScanIR: an IR on disk answers, whatever its age, unless the scan is forced.
LookUp ==
    /\ at = "look up"
    /\ IF cmd.rescan # "forced" /\ files["ir"] # Absent
       THEN IF ReadsIR
            THEN Answer
            ELSE Throws("input-error")
       ELSE IF cmd.rescan = "no" THEN Throws("input-error")
            ELSE at' = "scan" /\ UNCHANGED <<todo, exit>>
    /\ Idle

Format == IF cmd.name = "scan" THEN cmd.format ELSE "json"
Strict == cmd.name = "scan" /\ cmd.strict

\* The removals ahead of the writes.
ScanRemovingFirst ==
    /\ at = "scan"
    /\ \E comps \in SUBSET Pages :
         LET writes == ScanWrites(Format, Strict, comps) IN
         /\ todo' = If(Format = "json", <<Drop("workspace")>>) \o writes
         /\ own' = FilesOf(writes)
    /\ faulted' \in BOOLEAN
    /\ at' = "files"
    /\ UNCHANGED <<files, tripped, said, exit>>
    /\ Stays

Scan ==
    /\ at = "scan"
    /\ \E comps \in SUBSET Pages :
         LET writes == ScanWrites(Format, Strict, comps) IN
         /\ todo' = writes \o ScanRemovals(Format, Strict)
         /\ own' = FilesOf(writes)
    /\ \E total \in 0..2, floor \in 0..2, unrepresentable, unnameable \in BOOLEAN :
         \E parsed \in 0..total : \E extraction \in Withdrawn(parsed, total) :
           faulted' = ScanFault(total, parsed, floor, extraction, unrepresentable, unnameable)
    /\ at' = "files"
    /\ UNCHANGED <<files, tripped, said, exit>>
    /\ Stays

ScanThrows ==
    /\ at = "scan"
    /\ \/ \E error \in {"runtime-error", "plugin-error"}
                      \cup IF cmd.name = "scan" THEN {} ELSE {"config-error", "input-error"} :
            Throws(error)
       \/ ProcessExit
    /\ Idle

FormOf(f) == IF f = "md" /\ cmd.over THEN "capped" ELSE "whole"

DoWrite ==
    /\ at \in {"files", "clear"}
    /\ todo # <<>>
    /\ Head(todo).op = "write"
    /\ files[Head(todo).file] # Directory
    /\ files' = [files EXCEPT ![Head(todo).file] = Written(n, FormOf(Head(todo).file))]
    /\ todo' = Tail(todo)
    /\ UNCHANGED <<at, own, faulted, tripped, said, exit>>
    /\ Stays

\* A path that is not there is as good as removed.
DoRemove ==
    /\ at \in {"files", "clear"}
    /\ todo # <<>>
    /\ Head(todo).op = "remove"
    /\ files[Head(todo).file] # Directory
    /\ files' = [files EXCEPT ![Head(todo).file] = Absent]
    /\ todo' = Tail(todo)
    /\ UNCHANGED <<at, own, faulted, tripped, said, exit>>
    /\ Stays

\* removeComponentMdsExcept: regular files that open with the page's heading. A page torn by a
\* kill may or may not hold the whole heading.
Opens(f) ==
    IF files[f].form = "torn" THEN BOOLEAN ELSE {files[f].form = "whole"}

DoListPages ==
    /\ at = "files"
    /\ todo # <<>>
    /\ Head(todo).op = "list"
    /\ \E opens \in [Pages -> BOOLEAN] :
         /\ \A p \in Pages : opens[p] \in Opens(p)
         /\ todo' = SetToSeq({Drop(p) : p \in {q \in Pages : opens[q] /\ q \notin own}})
    /\ UNCHANGED <<files, at, own, faulted, tripped, said, exit>>
    /\ Stays

\* Once runScan has its report, its incidents are said whichever later step fails.
SaidAnyway == cmd.name # "diff" /\ (Format = "md" \/ files["ir"] = Written(n, "whole"))

\* A step refused: by a directory in the way, or by the disk, which may leave a write torn.
StepFails ==
    /\ at \in {"files", "clear"}
    /\ todo # <<>>
    /\ LET f == Head(todo).file IN
         IF Head(todo).op # "list" /\ files[f] = Directory
         THEN Throws("input-error") /\ UNCHANGED files
         ELSE /\ \E error \in {"input-error", "runtime-error"} : Throws(error)
              /\ files' \in {files} \cup
                   (IF Head(todo).op = "write" THEN {[files EXCEPT ![f] = Written(n, "torn")]}
                                               ELSE {})
    /\ said' = SaidAnyway
    /\ UNCHANGED <<own, faulted, tripped>>
    /\ Stays

\* explain's own answer put before the scan's fault.
ScanReturnsAnswerFirst ==
    /\ at = "files"
    /\ cmd.name # "diff"
    /\ todo = <<>>
    /\ IF cmd.name = "explain" THEN \E code \in Answers : Returns(code)
       ELSE IF faulted THEN Returns(GATE) ELSE Returns(SUCCESS)
    /\ said' = TRUE
    /\ UNCHANGED <<files, own, faulted, tripped>>
    /\ Stays

\* runScan returns its report. explain reads the IR back and answers; a fault outranks its code.
ScanReturns ==
    /\ at = "files"
    /\ cmd.name # "diff"
    /\ todo = <<>>
    /\ \/ cmd.name = "scan" /\ Returns(IF faulted THEN GATE ELSE SUCCESS)
       \/ cmd.name = "explain" /\ ~faulted /\ Answer
       \/ cmd.name = "explain" /\ faulted /\ (Returns(GATE) \/ OutputRefused)
    /\ said' = TRUE
    /\ UNCHANGED <<files, own, faulted, tripped>>
    /\ Stays

\* readSides and buildDiff: both sides scanned (each may be faulted) or both read.
ReadSides ==
    /\ at = "clear"
    /\ todo = <<>>
    /\ at' = "files"
    /\ faulted' \in BOOLEAN
    /\ todo' = ReportWrites
    /\ own' = FilesOf(ReportWrites)
    /\ UNCHANGED <<files, tripped, said, exit>>
    /\ Stays

\* A side that cannot be read, or a plugin of the head's scan that calls process.exit, with any code.
ReadSidesEnds ==
    /\ at = "clear"
    /\ todo = <<>>
    /\ \/ \E error \in {"input-error", "config-error", "runtime-error", "plugin-error"} :
            Throws(error)
       \/ ProcessExit
    /\ Idle

DiffReturns ==
    /\ at = "files"
    /\ cmd.name = "diff"
    /\ todo = <<>>
    /\ tripped' \in BOOLEAN
    /\ Returns(IF tripped' \/ faulted THEN GATE ELSE SUCCESS)
    /\ UNCHANGED <<files, own, faulted, said>>
    /\ Stays

\* A signal: nothing of what is left is done, and the write under way may be torn.
Kill ==
    /\ at \notin {"idle", "ended"}
    /\ Ended("killed", 128)
    /\ files' \in {files} \cup
         (IF todo # <<>> /\ Head(todo).op = "write" /\ files[Head(todo).file] # Directory
          THEN {[files EXCEPT ![Head(todo).file] = Written(n, "torn")]} ELSE {})
    /\ UNCHANGED <<own, faulted, tripped, said>>
    /\ Stays

\* report-paths.mjs: a path is published for a file that is there.
MdPath == cmd.format # "json" /\ files["md"] \notin {Absent, Directory}

\* Any file that is there posted, whatever the exit code.
CommentsOnAnyExit == cmd.name = "diff" /\ cmd.action /\ MdPath

\* The comment step's condition.
Comments == cmd.name = "diff" /\ cmd.action /\ MdPath /\ exit.code \in {SUCCESS, GATE}

Settle ==
    /\ at = "ended"
    /\ at' = "idle"
    /\ posted' = IF Comments THEN {[run |-> n, body |-> files["md"]]} ELSE {}
    /\ cmd' = NoCommand /\ own' = {} /\ faulted' = FALSE /\ tripped' = FALSE /\ said' = FALSE
    /\ exit' = NoExit
    /\ UNCHANGED <<files, n, todo>>

Next ==
    \/ Start \/ Refuse \/ Configure
    \/ LookUp \/ Scan \/ ScanThrows
    \/ DoWrite \/ DoRemove \/ DoListPages \/ StepFails
    \/ ScanReturns \/ ReadSides \/ ReadSidesEnds \/ DiffReturns
    \/ Kill \/ Settle

Spec == Init /\ [][Next]_vars

-----------------------------------------------------------------------------
Contents == {Absent, Directory, Foreign} \cup {Written(r, form) : r \in 1..Runs, form \in {"whole", "torn", "capped"}}
Step == [op : {"write", "remove", "list"}, file : Files]

\* Types of the state: no file is of a command that has not started, and only diff.md is capped.
FilesType ==
    /\ files \in [Files -> Contents]
    /\ \A f \in Files : files[f].by <= n /\ (files[f].form = "capped" => f = "md")
RunType ==
    /\ n \in 0..Runs
    /\ cmd \in {NoCommand} \cup Scans \cup Explains \cup Diffs
    /\ at \in {"idle", "configure", "look up", "scan", "clear", "files", "ended"}
    /\ todo \in Seq(Step)
    /\ own \subseteq Files
FlagType == faulted \in BOOLEAN /\ tripped \in BOOLEAN /\ said \in BOOLEAN
EndType ==
    /\ exit \in [how : {"none", "returned", "threw", "exited", "killed"}, code : Codes \cup {128}]
    /\ posted \subseteq [run : 1..Runs, body : Contents]
TypeOK == FilesType /\ RunType /\ FlagType /\ EndType

OnDisk(fs) == {f \in fs : files[f].by > 0}
Whole(f) == files[f] = Written(n, FormOf(f))

\* diff.json, diff.md and diff.full.md are never of two runs, however the runs ended, and a capped
\* diff.md never names a diff.full.md that is not there: both are of the run that capped it. The
\* action posts only a report its own diff finished writing: exit 3 is also a plugin's failure, and
\* 0 what a plugin's process.exit can leave, both before anything was written.
ReportIsOneRuns ==
    /\ TypeOK
    /\ \A f, g \in OnDisk(Report) : files[f].by = files[g].by
    /\ files["md"].form = "capped" => files["full"] = Written(files["md"].by, "whole")
    /\ \A p \in posted : p.body.by = p.run /\ p.body.form \in {"whole", "capped"}

\* After a scan returned, the directory describes that scan alone: all it writes is there, and
\* nothing an earlier scan wrote is, torn pages that lost their heading aside.
DirectoryIsOneScans ==
    at = "ended" /\ cmd.name = "scan" /\ exit.how = "returned" =>
        /\ \A f \in own : Whole(f)
        /\ \A f \in OnDisk(ScanFiles) \ own : f \in Pages /\ files[f].form = "torn"

\* A command that returned 0 left no fault and no tripped gate behind, and one that returned wrote
\* everything its format asks for and said its scan's incidents: no gate exit is unexplained.
ExitIsEarned ==
    at = "ended" /\ exit.how = "returned" =>
        /\ exit.code = SUCCESS => ~faulted /\ ~tripped
        /\ \A f \in own : Whole(f)
        /\ cmd.name # "diff" /\ faulted => said

\* A scan removes what an earlier one wrote only when all it writes itself is on disk, so a run
\* that stops short loses nothing; and a file of the caller's goes only under a page of that name.
RemovesLast ==
    \A f \in ScanFiles :
      /\ files[f].by > 0 /\ files'[f] = Absent => \A g \in own : Whole(g)
      /\ files[f] = Foreign /\ files'[f] # Foreign => f \in own

\* A scan's files are one scan's: it takes an earlier one's place file by file and removes last, and
\* where it returns nothing of the earlier is left.
ScanOutputIsOneScans == [][RemovesLast /\ DirectoryIsOneScans']_vars
=============================================================================
