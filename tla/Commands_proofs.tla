--------------------------- MODULE Commands_proofs ---------------------------
(***************************************************************************)
(* Proofs about Commands, for any number of runs over the directory, any   *)
(* pages and anything in the way at first: a report is one run's, an exit  *)
(* code is earned, and a scan takes an earlier one's place whole. The      *)
(* inductive invariant says, of each phase of a command, what it has left  *)
(* to do and what is on disk for it.                                       *)
(***************************************************************************)
EXTENDS Commands, FiniteSetTheorems, SequenceTheorems, TLAPS

\* What a command holds before it has anything to write.
Blank ==
    /\ at \in {"idle", "configure", "look up", "scan", "clear"} => ~faulted
    /\ at # "ended" => ~tripped
Standing ==
    /\ at \in {"idle", "configure", "look up", "scan", "ended"} => todo = <<>>
    /\ at \in {"idle", "configure", "look up", "scan", "clear"} => own = {}
    /\ at # "idle" => n > 0
    /\ at # "idle" => cmd \in Scans \cup Explains \cup Diffs
    /\ at = "look up" => cmd.name = "explain"
    /\ at = "scan" => cmd.name # "diff"
    /\ at = "clear" => cmd.name = "diff"
    /\ \A f \in Files : files[f].form = "foreign" => f \in Pages

OneReport ==
    /\ \A f, g \in OnDisk(Report) : files[f].by = files[g].by
    /\ files["md"].form = "capped" => files["full"] = Written(files["md"].by, "whole")
PostedIsFinished == \A p \in posted : p.body.by = p.run /\ p.body.form \in {"whole", "capped"}

\* The earlier report goes before the sides are read, the file it caps after the one that names it.
Cleared ==
    at = "clear" =>
      /\ \A s \in Range(todo) : s.op = "remove" /\ s.file \in Report
      /\ \A i, j \in DOMAIN todo : i < j => ~(todo[i].file = "full" /\ todo[j].file = "md")
      /\ OnDisk(Report) \subseteq FilesOf(todo)

\* What the report has on disk is this run's and whole, and a capped diff.md comes last.
Reported ==
    at = "files" /\ cmd.name = "diff" =>
      /\ own \subseteq Report
      /\ \A s \in Range(todo) : s.op = "write"
      /\ \A i, j \in DOMAIN todo :
           i < j => todo[i].file # todo[j].file /\ ~(todo[i].file = "md" /\ todo[j].file = "full")
      /\ "full" \in FilesOf(todo) => "md" \in FilesOf(todo)
      /\ "md" \in own /\ cmd.over => "full" \in own
      /\ OnDisk(Report) \subseteq own \ FilesOf(todo)

\* Writes come first, and what goes after them is not of this run.
Ordered(steps) ==
    \A i, j \in DOMAIN steps :
        i < j /\ steps[i].op # "write" => steps[i].op = "remove" /\ steps[j].op # "write"
Working ==
    at = "files" =>
      /\ \A f \in own : Whole(f) \/ Put(f) \in Range(todo)
      /\ \A s \in Range(todo) : s.op = "write" => s.file \in own
      /\ \A s \in Range(todo) : s.op = "remove" => /\ s.file \in ScanFiles \ own
                                                   /\ files[s.file].form # "foreign"
      /\ Ordered(todo)

\* What an earlier scan left is on its way out.
Leaving(f) ==
    \/ Drop(f) \in Range(todo)
    \/ f \in Pages /\ (files[f].form = "torn" \/ ListPages \in Range(todo))
Scanned ==
    /\ at = "files" /\ cmd.name # "diff" => own \subseteq ScanFiles
    /\ at = "files" /\ cmd.name = "scan" => \A f \in OnDisk(ScanFiles) \ own : Leaving(f)

\* What the comment step finds.
Finished ==
    at = "ended" /\ cmd.name = "diff" /\ exit.code \in {SUCCESS, GATE} /\ files["md"].by > 0 =>
      files["md"].by = n /\ files["md"].form \in {"whole", "capped"}

CmdInv ==
    /\ TypeOK /\ Blank /\ Standing
    /\ OneReport /\ PostedIsFinished
    /\ Cleared /\ Reported /\ Working /\ Scanned
    /\ Finished /\ DirectoryIsOneScans /\ ExitIsEarned

-----------------------------------------------------------------------------
(* Sequences of steps *)

\* SetToSeq lists a finite set.
LEMMA Listed ==
    ASSUME NEW S, IsFiniteSet(S)
    PROVE  SetToSeq(S) \in Seq(S) /\ Len(SetToSeq(S)) = Cardinality(S) /\ Range(SetToSeq(S)) = S
<1>1. Cardinality(S) \in Nat /\ ExistsBijection(1..Cardinality(S), S)
  BY FS_CardinalityType
<1>2. \E f \in [1..Cardinality(S) -> S] : IsInjective(f)
  BY <1>1 DEF ExistsBijection, Bijection, Injection
<1>3. SetToSeq(S) \in [1..Cardinality(S) -> S] /\ IsInjective(SetToSeq(S))
  BY <1>2 DEF SetToSeq
<1>4. PICK f : f = SetToSeq(S)
  OBVIOUS
<1>5. f \in Injection(1..Cardinality(S), S)
  BY <1>3, <1>4 DEF Injection
<1>6. Cardinality(1..Cardinality(S)) = Cardinality(S)
  BY <1>1, FS_Interval
<1>7. f \in Surjection(1..Cardinality(S), S)
  BY <1>5, <1>6, FS_Injection
<1>8. Range(f) = S
  BY <1>7 DEF Surjection, Range
<1> QED
  BY <1>1, <1>3, <1>4, <1>8

LEMMA FilesInRange ==
    ASSUME NEW s
    PROVE  FilesOf(s) = {x.file : x \in Range(s)}
BY DEF FilesOf, Range

LEMMA Shift ==
    ASSUME todo \in Seq(Step), todo # <<>>
    PROVE  /\ Head(todo) \in Step /\ Tail(todo) \in Seq(Step)
           /\ 1 \in DOMAIN todo /\ Head(todo) = todo[1]
           /\ \A i \in DOMAIN Tail(todo) :
                i \in Nat \ {0} /\ i + 1 \in DOMAIN todo /\ Tail(todo)[i] = todo[i + 1]
           /\ Range(todo) = {Head(todo)} \cup Range(Tail(todo))
           /\ FilesOf(todo) = {Head(todo).file} \cup FilesOf(Tail(todo))
<1>1. Head(todo) \in Step /\ Tail(todo) \in Seq(Step) /\ Len(Tail(todo)) = Len(todo) - 1
      /\ \A i \in 1..Len(Tail(todo)) : Tail(todo)[i] = todo[i + 1]
  BY HeadTailProperties
<1>2. Len(todo) \in Nat \ {0} /\ DOMAIN todo = 1..Len(todo)
  BY EmptySeq, LenProperties
<1>3. DOMAIN Tail(todo) = 1..Len(todo) - 1
  BY <1>1, LenProperties
<1>4. 1 \in DOMAIN todo /\ Head(todo) = todo[1]
  BY <1>2
<1>5. \A i \in DOMAIN Tail(todo) :
        i \in Nat \ {0} /\ i + 1 \in DOMAIN todo /\ Tail(todo)[i] = todo[i + 1]
  BY <1>1, <1>2, <1>3
<1>6. \A i \in DOMAIN todo : i = 1 \/ (i - 1 \in DOMAIN Tail(todo) /\ Tail(todo)[i - 1] = todo[i])
  BY <1>1, <1>2, <1>3
<1>7. Range(todo) = {Head(todo)} \cup Range(Tail(todo))
  <2>1. ASSUME NEW i \in DOMAIN todo
        PROVE  todo[i] \in {Head(todo)} \cup Range(Tail(todo))
    BY <1>4, <1>6 DEF Range
  <2>2. ASSUME NEW i \in DOMAIN Tail(todo)
        PROVE  Tail(todo)[i] \in Range(todo)
    BY <1>5 DEF Range
  <2>3. Range(todo) \subseteq {Head(todo)} \cup Range(Tail(todo))
    BY <2>1, Zenon DEF Range
  <2>4. {Head(todo)} \cup Range(Tail(todo)) \subseteq Range(todo)
    BY <1>4, <2>2, Zenon DEF Range
  <2> QED
    BY <2>3, <2>4
<1>8. FilesOf(todo) = {Head(todo).file} \cup FilesOf(Tail(todo))
  BY <1>7, FilesInRange
<1> QED
  BY <1>1, <1>4, <1>5, <1>7, <1>8

\* The order of what is left is the order of what was.
LEMMA OrderedTail ==
    ASSUME todo \in Seq(Step), todo # <<>>, Ordered(todo)
    PROVE  /\ Ordered(Tail(todo))
           /\ Head(todo).op # "write" => \A s \in Range(todo) : s.op # "write"
           /\ Head(todo).op = "list" => Tail(todo) = <<>>
<1>1. /\ Head(todo) = todo[1] /\ 1 \in DOMAIN todo
      /\ \A i \in DOMAIN Tail(todo) :
           i \in Nat \ {0} /\ i + 1 \in DOMAIN todo /\ Tail(todo)[i] = todo[i + 1]
      /\ Range(todo) = {Head(todo)} \cup Range(Tail(todo)) /\ Tail(todo) \in Seq(Step)
  BY Shift
<1>2. Ordered(Tail(todo))
  BY <1>1 DEF Ordered
<1>3. Head(todo).op # "write" => \A i \in DOMAIN Tail(todo) : Tail(todo)[i].op # "write"
  BY <1>1 DEF Ordered
<1>4. Head(todo).op # "write" => \A s \in Range(todo) : s.op # "write"
  BY <1>1, <1>3 DEF Range
<1>5. ASSUME Head(todo).op = "list", Tail(todo) # <<>>
      PROVE  FALSE
  <2>1. 1 \in DOMAIN Tail(todo)
    BY <1>1, <1>5, EmptySeq, LenProperties
  <2> QED
    BY <1>1, <1>5, <2>1 DEF Ordered
<1> QED
  BY <1>2, <1>4, <1>5

LEMMA FilesApart ==
    /\ Report \cap ScanFiles = {} /\ Files = ScanFiles \cup Report
    /\ "md" \in Report /\ "full" \in Report /\ "json" \in Report
    /\ {"ir", "workspace", "vocab"} \subseteq ScanFiles \ Pages /\ Pages \subseteq ScanFiles
BY CommandsAssumption DEF Report, ScanFiles, Files

LEMMA StepIs ==
    ASSUME NEW s \in Step
    PROVE  /\ s.file \in Files
           /\ s.op = "write" => s = Put(s.file)
           /\ s.op = "remove" => s = Drop(s.file)
BY DEF Step, Put, Drop

LEMMA Named ==
    /\ \A c \in Scans : c.name = "scan"
    /\ \A c \in Explains : c.name = "explain"
    /\ \A c \in Diffs : c.name = "diff"
    /\ NoCommand.name = "none"
BY DEF Scans, Explains, Diffs, NoCommand

LEMMA CodesApart ==
    /\ \A error \in {"input-error", "config-error", "runtime-error", "fail-on"} :
         ExitOf(error) \in {RUNTIME, INPUT_ERROR}
    /\ \A error : ExitOf(error) \in Codes
    /\ SUCCESS # GATE /\ RUNTIME \notin {SUCCESS, GATE} /\ INPUT_ERROR \notin {SUCCESS, GATE}
    /\ 128 \notin {SUCCESS, GATE} /\ {SUCCESS, RUNTIME, INPUT_ERROR, GATE} = Codes
BY DEF ExitOf, SUCCESS, GATE, RUNTIME, INPUT_ERROR, Codes

\* Only diff.md is capped, and what is on disk was written by a run.
LEMMA OnDiskForms ==
    ASSUME FilesType, n \in Nat
    PROVE  \A f \in Files : /\ files[f].by \in 0..n
                            /\ files[f].by = 0 <=> files[f] \in {Absent, Directory, Foreign}
                            /\ files[f].by > 0 => files[f].form \in {"whole", "torn", "capped"}
                            /\ files[f].form = "capped" => f = "md" /\ files[f].by > 0
                            /\ files[f].form = "foreign" <=> files[f] = Foreign
BY DEF FilesType, Contents, Absent, Directory, Foreign, Written

-----------------------------------------------------------------------------
(* The first state, and the steps that leave the files alone *)

LEMMA InitCommands == Init => CmdInv
<1> SUFFICES ASSUME Init PROVE CmdInv
  OBVIOUS
<1>1. /\ files \in [Files -> {Absent, Directory, Foreign}] /\ n = 0 /\ cmd = NoCommand
      /\ \A f \in Files : files[f] = Foreign => f \in Pages
      /\ at = "idle" /\ todo = <<>> /\ own = {} /\ exit = NoExit /\ posted = {}
      /\ faulted = FALSE /\ tripped = FALSE /\ said = FALSE
  BY DEF Init
<1>2. \A f \in Files : files[f] \in {Absent, Directory, Foreign} /\ files[f].by = 0
                       /\ files[f].form \in {"absent", "directory", "foreign"}
                       /\ (files[f].form = "foreign" => f \in Pages)
  BY <1>1 DEF Absent, Directory, Foreign
<1>3. FilesType
  BY <1>1, <1>2 DEF FilesType, Contents
<1>4. RunType
  BY <1>1, CommandsAssumption DEF RunType
<1>5. FlagType
  BY <1>1 DEF FlagType
<1>6. EndType
  BY <1>1 DEF EndType, NoExit, Codes, SUCCESS
<1>7. Blank
  BY <1>1, Zenon DEF Blank
<1>8. Standing
  BY <1>1, <1>2 DEF Standing
<1>9. OneReport /\ PostedIsFinished
  BY <1>1, <1>2, FilesApart DEF OneReport, PostedIsFinished, OnDisk
<1>10. Cleared /\ Reported /\ Working /\ Scanned /\ Finished
  BY <1>1 DEF Cleared, Reported, Working, Scanned, Finished
<1>11. DirectoryIsOneScans /\ ExitIsEarned
  BY <1>1 DEF DirectoryIsOneScans, ExitIsEarned
<1> QED
  BY <1>3, <1>4, <1>5, <1>6, <1>7, <1>8, <1>9, <1>10, <1>11 DEF CmdInv, TypeOK

LEMMA StartKeeps ==
    ASSUME CmdInv, Start
    PROVE  CmdInv'
<1>1. /\ at = "idle" /\ n < Runs /\ n' = n + 1 /\ cmd' \in Scans \cup Explains \cup Diffs
      /\ at' = "configure" /\ posted' = {}
      /\ UNCHANGED <<files, todo, own, exit>>
  BY DEF Start
<1>2. UNCHANGED <<faulted, tripped, said>>
  BY DEF Start
<1>3. n \in Nat /\ n + 1 \in 0..Runs /\ todo = <<>> /\ own = {}
  BY <1>1, CommandsAssumption DEF CmdInv, TypeOK, RunType, Standing
<1>4. FilesType'
  <2>1. FilesType
    BY DEF CmdInv, TypeOK
  <2>2. \A f \in Files : files[f].by \in 0..n
    BY <1>3, <2>1, OnDiskForms
  <2> QED
    BY <1>1, <1>3, <2>1, <2>2 DEF FilesType
<1>5. RunType'
  BY <1>1, <1>3 DEF CmdInv, TypeOK, RunType
<1>6. FlagType'
  BY <1>2, Zenon DEF CmdInv, TypeOK, FlagType
<1>7. EndType'
  BY <1>1 DEF CmdInv, TypeOK, EndType
<1>8. Blank'
  BY <1>1, <1>2, Zenon DEF CmdInv, Blank
<1>9. Standing'
  BY <1>1, <1>3 DEF CmdInv, Standing
<1>10. OneReport' /\ PostedIsFinished'
  BY <1>1 DEF CmdInv, OneReport, PostedIsFinished, OnDisk
<1>11. Cleared' /\ Reported' /\ Working' /\ Scanned' /\ Finished'
  BY <1>1 DEF Cleared, Reported, Working, Scanned, Finished
<1>12. DirectoryIsOneScans' /\ ExitIsEarned'
  BY <1>1 DEF DirectoryIsOneScans, ExitIsEarned
<1> QED
  BY <1>4, <1>5, <1>6, <1>7, <1>8, <1>9, <1>10, <1>11, <1>12 DEF CmdInv, TypeOK

LEMMA SettleKeeps ==
    ASSUME CmdInv, Settle
    PROVE  CmdInv'
<1>1. /\ at = "ended" /\ at' = "idle" /\ cmd' = NoCommand /\ own' = {} /\ exit' = NoExit
      /\ UNCHANGED <<files, n, todo>>
      /\ posted' \in {{}, {[run |-> n, body |-> files["md"]]}}
      /\ posted' # {} => Comments
  BY DEF Settle
<1>2. faulted' = FALSE /\ tripped' = FALSE /\ said' = FALSE
  BY DEF Settle
<1>3. todo = <<>> /\ n \in 1..Runs /\ n \in Nat
  BY <1>1, CommandsAssumption DEF CmdInv, TypeOK, RunType, Standing
<1>4. FilesType /\ files["md"] \in Contents /\ "md" \in Files /\ "md" \notin Pages
  BY FilesApart DEF CmdInv, TypeOK, FilesType
<1>5. ASSUME Comments
      PROVE  files["md"].by = n /\ files["md"].form \in {"whole", "capped"}
  <2>1. files["md"] \notin {Absent, Directory} /\ cmd.name = "diff"
        /\ exit.code \in {SUCCESS, GATE}
    BY <1>5 DEF Comments, MdPath
  <2>2. files["md"] # Foreign
    <3>1. \A f \in Files : files[f].form = "foreign" => f \in Pages
      BY DEF CmdInv, Standing
    <3> QED
      BY <1>4, <3>1 DEF Foreign
  <2>3. files["md"].by > 0
    BY <1>3, <1>4, <2>1, <2>2, OnDiskForms
  <2> QED
    BY <1>1, <2>1, <2>3 DEF CmdInv, Finished
<1>6. FilesType'
  BY <1>1, <1>4 DEF FilesType
<1>7. RunType'
  BY <1>1 DEF CmdInv, TypeOK, RunType
<1>8. FlagType' /\ Blank'
  BY <1>2 DEF FlagType, Blank
<1>9. EndType'
  BY <1>1, <1>3, <1>4 DEF EndType, NoExit, Codes, SUCCESS
<1>10. Standing'
  BY <1>1, <1>3 DEF CmdInv, Standing
<1>11. OneReport'
  BY <1>1 DEF CmdInv, OneReport, OnDisk
<1>12. PostedIsFinished'
  BY <1>1, <1>5 DEF PostedIsFinished
<1>13. Cleared' /\ Reported' /\ Working' /\ Scanned' /\ Finished'
  BY <1>1 DEF Cleared, Reported, Working, Scanned, Finished
<1>14. DirectoryIsOneScans' /\ ExitIsEarned'
  BY <1>1 DEF DirectoryIsOneScans, ExitIsEarned
<1> QED
  BY <1>6, <1>7, <1>8, <1>9, <1>10, <1>11, <1>12, <1>13, <1>14 DEF CmdInv, TypeOK

\* A command ends: what is on disk is as its phase left it, but for the write it was at.
LEMMA EndKeeps ==
    ASSUME CmdInv, at # "idle", NEW how \in {"returned", "threw", "exited", "killed"},
           NEW code \in Codes \cup {128}, Ended(how, code), UNCHANGED <<n, cmd, posted, own>>,
           FlagType', FilesType', \A f \in Files : files'[f].form = "foreign" => f \in Pages,
           OneReport', Finished', DirectoryIsOneScans', ExitIsEarned'
    PROVE  CmdInv'
<1>1. at' = "ended" /\ todo' = <<>> /\ exit' = [how |-> how, code |-> code]
  BY DEF Ended
<1>2. RunType'
  <2>1. /\ n' \in 0..Runs /\ own' \subseteq Files
        /\ cmd' \in {NoCommand} \cup Scans \cup Explains \cup Diffs
    BY DEF CmdInv, TypeOK, RunType
  <2>2. todo' \in Seq(Step)
    BY <1>1, EmptySeq
  <2> QED
    BY <1>1, <2>1, <2>2 DEF RunType
<1>3. EndType'
  BY <1>1 DEF CmdInv, TypeOK, EndType
<1>4. Blank'
  BY <1>1, Zenon DEF Blank
<1>5. Standing'
  BY <1>1 DEF CmdInv, Standing
<1>6. PostedIsFinished'
  BY DEF CmdInv, PostedIsFinished
<1>7. Cleared' /\ Reported' /\ Working' /\ Scanned'
  BY <1>1 DEF Cleared, Reported, Working, Scanned
<1> QED
  BY <1>2, <1>3, <1>4, <1>5, <1>6, <1>7 DEF CmdInv, TypeOK

\* Only a command that returns has anything to answer for.
LEMMA CutShortKeeps ==
    ASSUME CmdInv, at # "idle", NEW how \in {"threw", "exited", "killed"},
           NEW code \in Codes \cup {128}, Ended(how, code), UNCHANGED <<n, cmd, posted, own>>,
           FlagType', FilesType', \A f \in Files : files'[f].form = "foreign" => f \in Pages,
           OneReport', Finished'
    PROVE  CmdInv'
<1>1. at' = "ended" /\ exit' = [how |-> how, code |-> code]
  BY DEF Ended
<1>2. DirectoryIsOneScans' /\ ExitIsEarned'
  BY <1>1 DEF DirectoryIsOneScans, ExitIsEarned
<1> QED
  BY <1>2, EndKeeps

\* It ends before it has anything on disk to answer for.
LEMMA StopsKeeps ==
    ASSUME CmdInv, at # "idle", NEW how \in {"threw", "exited", "killed"},
           NEW code \in Codes \cup {128}, Ended(how, code), Idle,
           cmd.name # "diff" \/ code \notin {SUCCESS, GATE} \/ files["md"].by = 0
    PROVE  CmdInv'
<1>1. UNCHANGED <<files, n, cmd, own, posted>>
  BY DEF Idle
<1>2. FlagType'
  BY Zenon DEF CmdInv, TypeOK, FlagType, Idle
<1>3. FilesType' /\ OneReport' /\ \A f \in Files : files'[f].form = "foreign" => f \in Pages
  <2>1. FilesType /\ OneReport /\ \A f \in Files : files[f].form = "foreign" => f \in Pages
    BY DEF CmdInv, TypeOK, Standing
  <2>2. FilesType'
    BY <1>1, <2>1 DEF FilesType
  <2>3. OneReport'
    BY <1>1, <2>1 DEF OneReport, OnDisk
  <2> QED
    BY <1>1, <2>1, <2>2, <2>3
<1>4. Finished'
  BY <1>1 DEF Finished, Ended
<1> QED
  BY <1>1, <1>2, <1>3, <1>4, CutShortKeeps


LEMMA RefuseKeeps ==
    ASSUME CmdInv, Refuse
    PROVE  CmdInv'
<1>1. PICK error \in {"input-error", "config-error", "runtime-error", "fail-on", "plugin-error"} :
        /\ error = "plugin-error" => cmd.name = "scan"
        /\ Throws(error)
  BY DEF Refuse
<1>2. at = "configure" /\ Idle
  BY DEF Refuse
<1>3. Ended("threw", ExitOf(error)) /\ ExitOf(error) \in Codes
  BY <1>1, CodesApart DEF Throws
<1>4. error # "plugin-error" => ExitOf(error) \notin {SUCCESS, GATE}
  BY <1>1, CodesApart
<1>5. error = "plugin-error" => cmd.name # "diff"
  BY <1>1
<1> QED
  BY <1>2, <1>3, <1>4, <1>5, StopsKeeps

LEMMA ScanThrowsKeeps ==
    ASSUME CmdInv, ScanThrows
    PROVE  CmdInv'
<1>1. at = "scan" /\ Idle
  BY DEF ScanThrows
<1>2. cmd.name # "diff"
  BY <1>1 DEF CmdInv, Standing
<1>3. CASE \E error : Throws(error)
  BY <1>1, <1>2, <1>3, CodesApart, StopsKeeps DEF Throws
<1>4. CASE ProcessExit
  BY <1>1, <1>2, <1>4, StopsKeeps DEF ProcessExit
<1> QED
  BY <1>3, <1>4 DEF ScanThrows

\* The earlier report is gone when the sides are read.
LEMMA NothingReported ==
    ASSUME CmdInv, at = "clear", todo = <<>>
    PROVE  OnDisk(Report) = {} /\ files["md"].by = 0
<1>1. FilesOf(todo) = {}
  BY DEF FilesOf
<1>2. OnDisk(Report) = {}
  BY <1>1 DEF CmdInv, Cleared
<1>3. n \in Nat /\ FilesType
  BY DEF CmdInv, TypeOK, RunType
<1>4. files["md"].by \in 0..n
  BY <1>3, OnDiskForms, FilesApart
<1> QED
  BY <1>2, <1>3, <1>4, FilesApart DEF OnDisk

LEMMA ReadSidesEndsKeeps ==
    ASSUME CmdInv, ReadSidesEnds
    PROVE  CmdInv'
<1>1. at = "clear" /\ todo = <<>> /\ Idle
  BY DEF ReadSidesEnds
<1>2. files["md"].by = 0
  BY <1>1, NothingReported
<1>3. CASE \E error : Throws(error)
  BY <1>1, <1>2, <1>3, CodesApart, StopsKeeps DEF Throws
<1>4. CASE ProcessExit
  BY <1>1, <1>2, <1>4, StopsKeeps DEF ProcessExit
<1> QED
  BY <1>3, <1>4 DEF ReadSidesEnds

\* A step of a phase that has touched nothing yet goes on to another one.
LEMMA GoesOnKeeps ==
    ASSUME CmdInv, at \in {"configure", "look up"}, at' \in {"look up", "scan"}, Idle,
           UNCHANGED <<todo, exit>>,
           at' = "look up" => cmd.name = "explain", at' = "scan" => cmd.name # "diff"
    PROVE  CmdInv'
<1>1. UNCHANGED <<files, n, cmd, own, posted, todo, exit>>
  BY DEF Idle
<1>2. todo = <<>> /\ own = {} /\ n > 0 /\ cmd \in Scans \cup Explains \cup Diffs
      /\ \A f \in Files : files[f].form = "foreign" => f \in Pages
  BY DEF CmdInv, Standing
<1>3. FilesType' /\ EndType'
  BY <1>1 DEF CmdInv, TypeOK, FilesType, EndType
<1>4. RunType'
  BY <1>1 DEF CmdInv, TypeOK, RunType
<1>5. FlagType' /\ Blank'
  BY Zenon DEF CmdInv, TypeOK, FlagType, Blank, Idle
<1>6. Standing'
  BY <1>1, <1>2 DEF Standing
<1>7. OneReport' /\ PostedIsFinished'
  BY <1>1 DEF CmdInv, OneReport, PostedIsFinished, OnDisk
<1>8. Cleared' /\ Reported' /\ Working' /\ Scanned' /\ Finished'
  BY DEF Cleared, Reported, Working, Scanned, Finished
<1>9. DirectoryIsOneScans' /\ ExitIsEarned'
  BY DEF DirectoryIsOneScans, ExitIsEarned
<1> QED
  BY <1>3, <1>4, <1>5, <1>6, <1>7, <1>8, <1>9 DEF CmdInv, TypeOK

LEMMA ConfigureKeeps ==
    ASSUME CmdInv, Configure
    PROVE  CmdInv'
<1>1. at = "configure" /\ UNCHANGED exit /\ Idle
  BY DEF Configure
<1>2. cmd \in Scans \cup Explains \cup Diffs /\ n > 0 /\ own = {}
      /\ \A f \in Files : files[f].form = "foreign" => f \in Pages
  BY <1>1 DEF CmdInv, Standing
<1>3. CASE cmd.name = "scan" \/ cmd.name = "explain"
  <2>1. at' \in {"look up", "scan"} /\ UNCHANGED todo
        /\ (at' = "look up" => cmd.name = "explain") /\ (at' = "scan" => cmd.name # "diff")
    BY <1>3 DEF Configure
  <2> QED
    BY <1>1, <2>1, GoesOnKeeps
<1>4. CASE cmd.name = "diff"
  <2>1. at' = "clear" /\ todo' = <<Drop("json"), Drop("md"), Drop("full")>>
    BY <1>4 DEF Configure, EarlierReport
  <2>2. UNCHANGED <<files, n, cmd, own, posted, exit>>
    BY <1>1 DEF Idle
  <2>3. DOMAIN todo' = 1..3 /\ todo'[1] = Drop("json") /\ todo'[2] = Drop("md")
        /\ todo'[3] = Drop("full")
    BY <2>1
  <2>4. Range(todo') = {Drop("json"), Drop("md"), Drop("full")}
    BY <2>3 DEF Range
  <2>5. todo' \in Seq(Step)
    <3>1. {Drop("json"), Drop("md"), Drop("full")} \subseteq Step
      BY FilesApart DEF Drop, Step
    <3> QED
      BY <2>1, <3>1
  <2>6. FilesType' /\ EndType'
    BY <2>2 DEF CmdInv, TypeOK, FilesType, EndType
  <2>7. RunType'
    BY <2>1, <2>2, <2>5 DEF CmdInv, TypeOK, RunType
  <2>8. FlagType' /\ Blank'
    BY <1>1, <2>1, Zenon DEF CmdInv, TypeOK, FlagType, Blank, Idle
  <2>9. Standing'
    BY <1>2, <1>4, <2>1, <2>2 DEF Standing
  <2>10. OneReport' /\ PostedIsFinished'
    BY <2>2 DEF CmdInv, OneReport, PostedIsFinished, OnDisk
  <2>11. Cleared'
    <3>1. FilesOf(todo') = Report
      <4>1. FilesOf(todo') = {x.file : x \in Range(todo')}
        BY FilesInRange
      <4> QED
        BY <2>4, <4>1 DEF Drop, Report
    <3>2. \A s \in Range(todo') : s.op = "remove" /\ s.file \in Report
      BY <2>4 DEF Drop, Report
    <3>3. \A i, j \in DOMAIN todo' : i < j => ~(todo'[i].file = "full" /\ todo'[j].file = "md")
      BY <2>3 DEF Drop
    <3> QED
      BY <3>1, <3>2, <3>3 DEF Cleared, OnDisk
  <2>12. Reported' /\ Working' /\ Scanned' /\ Finished'
    BY <2>1 DEF Reported, Working, Scanned, Finished
  <2>13. DirectoryIsOneScans' /\ ExitIsEarned'
    BY <2>1 DEF DirectoryIsOneScans, ExitIsEarned
  <2> QED
    BY <2>6, <2>7, <2>8, <2>9, <2>10, <2>11, <2>12, <2>13 DEF CmdInv, TypeOK
<1> QED
  BY <1>2, <1>3, <1>4, Named

LEMMA LookUpKeeps ==
    ASSUME CmdInv, LookUp
    PROVE  CmdInv'
<1>1. at = "look up" /\ Idle
  BY DEF LookUp
<1>2. cmd.name = "explain" /\ own = {}
  BY <1>1 DEF CmdInv, Standing
<1>3. CASE \E error : Throws(error)
  BY <1>1, <1>2, <1>3, CodesApart, StopsKeeps DEF Throws
<1>4. CASE at' = "scan" /\ UNCHANGED <<todo, exit>>
  BY <1>1, <1>2, <1>4, GoesOnKeeps
<1>5. CASE \E code \in Answers : Returns(code)
  <2>1. PICK code \in Answers : Ended("returned", code)
    BY <1>5 DEF Returns
  <2>2. code \in Codes
    BY DEF Answers, AnswerCode, Codes
  <2>3. UNCHANGED <<files, n, cmd, own, posted>>
    BY <1>1 DEF Idle
  <2>4. faulted' = FALSE /\ tripped' = FALSE
    BY <1>1, Zenon DEF CmdInv, TypeOK, FlagType, Blank, Idle
  <2>5. FlagType'
    BY <1>1, Zenon DEF CmdInv, TypeOK, FlagType, Idle
  <2>6. FilesType' /\ OneReport' /\ \A f \in Files : files'[f].form = "foreign" => f \in Pages
    <3>1. FilesType /\ OneReport /\ \A f \in Files : files[f].form = "foreign" => f \in Pages
      BY DEF CmdInv, TypeOK, Standing
    <3>2. FilesType'
      BY <2>3, <3>1 DEF FilesType
    <3>3. OneReport'
      BY <2>3, <3>1 DEF OneReport, OnDisk
    <3> QED
      BY <2>3, <3>1, <3>2, <3>3
  <2>7. Finished' /\ DirectoryIsOneScans'
    BY <1>2, <2>3 DEF Finished, DirectoryIsOneScans
  <2>8. ExitIsEarned'
    <3>1. own' = {}
      BY <1>2, <2>3
    <3> QED
      BY <2>4, <3>1, Zenon DEF ExitIsEarned
  <2> QED
    BY <1>1, <2>1, <2>2, <2>3, <2>5, <2>6, <2>7, <2>8, EndKeeps
<1> QED
  BY <1>3, <1>4, <1>5 DEF LookUp, Answer, OutputRefused


-----------------------------------------------------------------------------
(* The writes and removals *)

\* What a report has on disk while the rest is being written.
LEMMA ReportSoFar ==
    ASSUME CmdInv, at = "files", cmd.name = "diff"
    PROVE  \A f \in OnDisk(Report) : f \in own /\ f \notin FilesOf(todo) /\ Whole(f)
<1>1. \A f \in OnDisk(Report) : f \in own /\ f \notin FilesOf(todo)
  BY DEF CmdInv, Reported
<1>2. \A f \in own : Whole(f) \/ f \in FilesOf(todo)
  <2>1. \A f \in own : Whole(f) \/ Put(f) \in Range(todo)
    BY DEF CmdInv, Working
  <2>2. \A f : Put(f) \in Range(todo) => f \in FilesOf(todo)
    <3>1. FilesOf(todo) = {x.file : x \in Range(todo)}
      BY FilesInRange
    <3> QED
      BY <3>1 DEF Put
  <2> QED
    BY <2>1, <2>2
<1> QED
  BY <1>1, <1>2

\* A write, whole or torn, is of the files phase, and leaves one run's report.
LEMMA WriteKeepsReport ==
    ASSUME CmdInv, todo # <<>>, Head(todo).op = "write", UNCHANGED n,
           NEW form \in {"torn", FormOf(Head(todo).file)},
           files' = [files EXCEPT ![Head(todo).file] = Written(n, form)]
    PROVE  /\ at = "files" /\ Head(todo).file \in own
           /\ FilesType' /\ OneReport'
           /\ \A f \in Files : files'[f].form = "foreign" => f \in Pages
<1>1. PICK f : f = Head(todo).file
  OBVIOUS
<1>2. /\ todo \in Seq(Step) /\ n \in Nat /\ FilesType /\ own \subseteq Files
      /\ cmd \in {NoCommand} \cup Scans \cup Explains \cup Diffs
      /\ at \in {"idle", "configure", "look up", "scan", "clear", "files", "ended"}
  <2>1. FilesType /\ RunType
    BY DEF CmdInv, TypeOK
  <2> QED
    <3>1. n \in Nat
      <4>1. n \in 0..Runs
        BY <2>1, Zenon DEF RunType
      <4> QED
        BY <4>1, CommandsAssumption
    <3>2. todo \in Seq(Step) /\ own \subseteq Files
          /\ at \in {"idle", "configure", "look up", "scan", "clear", "files", "ended"}
      BY <2>1 DEF RunType
    <3>3. cmd \in {NoCommand} \cup Scans \cup Explains \cup Diffs
      BY <2>1 DEF RunType
    <3> QED
      BY <2>1, <3>1, <3>2, <3>3
<1>3. /\ Head(todo) \in Step /\ Head(todo) \in Range(todo) /\ f \in FilesOf(todo) /\ f \in Files
      /\ 1 \in DOMAIN todo /\ todo[1] = Head(todo) /\ Head(todo) = Put(f)
  BY <1>1, <1>2, Shift, StepIs
<1>4. at \in {"clear", "files"}
  BY <1>2 DEF CmdInv, Standing
<1>5. at = "files"
  BY <1>3, <1>4 DEF CmdInv, Cleared
<1>6. f \in own
  BY <1>1, <1>3, <1>5 DEF CmdInv, Working
<1>7. n > 0 /\ n \in 1..Runs /\ \A g \in Files : files[g].form = "foreign" => g \in Pages
  BY <1>5 DEF CmdInv, Standing, TypeOK, RunType
<1>8. form \in {"torn", "whole", "capped"} /\ (form = "capped" => f = "md" /\ cmd.over)
  BY <1>1 DEF FormOf
<1>9. /\ files' \in [Files -> Contents] /\ files'[f] = Written(n, form)
      /\ \A g \in Files \ {f} : files'[g] = files[g]
  <2>1. Written(n, form) \in Contents
    BY <1>7, <1>8 DEF Contents
  <2>2. files \in [Files -> Contents]
    BY <1>2 DEF FilesType
  <2> QED
    BY <1>1, <1>3, <2>1, <2>2
<1>10. FilesType'
  <2>1. files'[f].by = n /\ (files'[f].form = "capped" => f = "md")
    BY <1>8, <1>9 DEF Written
  <2>2. \A g \in Files : files[g].by <= n /\ (files[g].form = "capped" => g = "md")
    BY <1>2 DEF FilesType
  <2>3. \A g \in Files : files'[g].by <= n /\ (files'[g].form = "capped" => g = "md")
    <3>1. ASSUME NEW g \in Files
          PROVE  files'[g].by <= n /\ (files'[g].form = "capped" => g = "md")
      <4>1. CASE g = f
        <5>1. n \in Nat
          BY <1>2, Zenon
        <5> QED
          BY <2>1, <4>1, <5>1
      <4>2. CASE g # f
        BY <1>9, <2>2, <4>2
      <4> QED
        BY <4>1, <4>2
    <3> QED
      BY <3>1
  <2> QED
    BY <1>9, <2>3 DEF FilesType
<1>11. \A g \in Files : files'[g].form = "foreign" => g \in Pages
  BY <1>7, <1>8, <1>9 DEF Written
<1>12. CASE cmd.name # "diff"
  <2>1. f \in ScanFiles /\ f \notin Report
    BY <1>5, <1>6, <1>12, FilesApart DEF CmdInv, Scanned
  <2>2. \A g \in Report : files'[g] = files[g]
    BY <1>9, <2>1, FilesApart
  <2>3. OneReport'
    BY <2>2, FilesApart DEF CmdInv, OneReport, OnDisk
  <2> QED
    BY <1>1, <1>5, <1>6, <1>10, <1>11, <2>3
<1>13. CASE cmd.name = "diff"
  <2>1. \A g \in OnDisk(Report) : g \in own /\ g \notin FilesOf(todo) /\ Whole(g)
    BY <1>5, <1>13, ReportSoFar
  <2>2. \A g \in OnDisk(Report)' : files'[g].by = n
    BY <1>9, <2>1, FilesApart DEF OnDisk, Whole, Written
  <2>3. \A g, h \in OnDisk(Report)' : files'[g].by = files'[h].by
    BY <2>2
  <2>4. ASSUME files'["md"].form = "capped"
        PROVE  files'["full"] = Written(files'["md"].by, "whole")
    <3>1. CASE f = "md"
      <4>1. form = "capped" /\ files'["md"].by = n /\ cmd.over
        BY <1>8, <1>9, <2>4, <3>1 DEF Written
      <4>2. "full" \in own
        BY <1>5, <1>6, <1>13, <3>1, <4>1 DEF CmdInv, Reported
      <4>3. Put("full") \notin Range(todo)
        <5>1. ASSUME NEW i \in DOMAIN todo, todo[i] = Put("full")
              PROVE  FALSE
          <6>1. i # 1 /\ i \in Nat /\ i > 1
            <7>1. DOMAIN todo \subseteq Nat \ {0}
              <8>1. DOMAIN todo = 1..Len(todo) /\ Len(todo) \in Nat
                BY <1>2, LenProperties
              <8> QED
                BY <8>1
            <7>2. todo[1] # Put("full")
              BY <1>3, <3>1 DEF Put
            <7> QED
              BY <5>1, <7>1, <7>2
          <6>2. ~(todo[1].file = "md" /\ todo[i].file = "full")
            BY <1>3, <1>5, <1>13, <6>1 DEF CmdInv, Reported
          <6> QED
            BY <1>3, <3>1, <5>1, <6>2 DEF Put
        <5> QED
          BY <5>1 DEF Range
      <4>4. files["full"] = Written(n, "whole")
        BY <1>5, <4>2, <4>3 DEF CmdInv, Working, Whole, FormOf
      <4> QED
        BY <1>9, <3>1, <4>1, <4>4, FilesApart
    <3>2. CASE f # "md"
      <4>1. files["md"].form = "capped" /\ files'["md"] = files["md"]
        BY <1>9, <2>4, <3>2, FilesApart
      <4>2. "md" \in OnDisk(Report)
        BY <1>2, <4>1, OnDiskForms, FilesApart DEF OnDisk
      <4>3. f # "full"
        BY <1>3, <1>5, <1>13, <2>1, <4>2 DEF CmdInv, Reported
      <4> QED
        BY <1>9, <4>1, <4>3, FilesApart DEF CmdInv, OneReport
    <3> QED
      BY <3>1, <3>2
  <2>5. OneReport'
    BY <2>3, <2>4 DEF OneReport
  <2> QED
    BY <1>1, <1>5, <1>6, <1>10, <1>11, <2>5
<1> QED
  BY <1>12, <1>13

LEMMA KillKeeps ==
    ASSUME CmdInv, Kill
    PROVE  CmdInv'
<1>1. at # "idle" /\ Ended("killed", 128) /\ UNCHANGED <<n, cmd, posted, own>>
  BY DEF Kill, Stays
<1>2. FlagType'
  BY Zenon DEF CmdInv, TypeOK, FlagType, Kill
<1>3. Finished'
  <2>1. exit'.code = 128
    BY <1>1 DEF Ended
  <2> QED
    BY <2>1, CodesApart DEF Finished
<1>4. FilesType' /\ OneReport' /\ \A f \in Files : files'[f].form = "foreign" => f \in Pages
  <2>1. CASE files' = files
    <3>1. FilesType /\ OneReport /\ \A f \in Files : files[f].form = "foreign" => f \in Pages
      BY DEF CmdInv, TypeOK, Standing
    <3>2. FilesType'
      BY <1>1, <2>1, <3>1 DEF FilesType
    <3>3. OneReport'
      BY <2>1, <3>1 DEF OneReport, OnDisk
    <3> QED
      BY <2>1, <3>1, <3>2, <3>3
  <2>2. CASE /\ todo # <<>> /\ Head(todo).op = "write"
             /\ files' = [files EXCEPT ![Head(todo).file] = Written(n, "torn")]
    BY <1>1, <2>2, WriteKeepsReport
  <2> QED
    BY <2>1, <2>2 DEF Kill
<1> QED
  BY <1>1, <1>2, <1>3, <1>4, CutShortKeeps

LEMMA StepFailsKeeps ==
    ASSUME CmdInv, StepFails
    PROVE  CmdInv'
<1>1. PICK error \in {"input-error", "runtime-error"} : Throws(error)
  BY DEF StepFails
<1>2. at # "idle" /\ UNCHANGED <<n, cmd, posted, own>> /\ todo # <<>>
  BY DEF StepFails, Stays
<1>3. Ended("threw", ExitOf(error)) /\ ExitOf(error) \in Codes \ {SUCCESS, GATE}
  BY <1>1, CodesApart DEF Throws
<1>4. FlagType'
  <2>1. said' \in BOOLEAN
    BY Zenon DEF StepFails, SaidAnyway
  <2> QED
    BY <2>1, Zenon DEF CmdInv, TypeOK, FlagType, StepFails
<1>5. Finished'
  BY <1>3 DEF Finished, Ended
<1>6. FilesType' /\ OneReport' /\ \A f \in Files : files'[f].form = "foreign" => f \in Pages
  <2>1. CASE files' = files
    <3>1. FilesType /\ OneReport /\ \A f \in Files : files[f].form = "foreign" => f \in Pages
      BY DEF CmdInv, TypeOK, Standing
    <3>2. FilesType'
      BY <1>2, <2>1, <3>1 DEF FilesType
    <3>3. OneReport'
      BY <2>1, <3>1 DEF OneReport, OnDisk
    <3> QED
      BY <2>1, <3>1, <3>2, <3>3
  <2>2. CASE /\ Head(todo).op = "write"
             /\ files' = [files EXCEPT ![Head(todo).file] = Written(n, "torn")]
    BY <1>2, <2>2, WriteKeepsReport
  <2> QED
    BY <2>1, <2>2 DEF StepFails
<1> QED
  BY <1>2, <1>3, <1>4, <1>5, <1>6, CutShortKeeps

\* What a step of the files phase that goes on must leave: the phase's own clauses are the caller's.
LEMMA OnwardKeeps ==
    ASSUME CmdInv, at \in {"files", "clear"}, todo # <<>>, UNCHANGED <<at, own, exit, n, cmd, posted>>,
           UNCHANGED <<faulted, tripped, said>>, todo' \in Seq(Step), FilesType',
           \A f \in Files : files'[f].form = "foreign" => f \in Pages,
           OneReport', Cleared', Reported', Working', Scanned'
    PROVE  CmdInv'
<1>1. RunType'
  BY DEF CmdInv, TypeOK, RunType
<1>2. EndType'
  BY DEF CmdInv, TypeOK, EndType
<1>3. FlagType' /\ Blank'
  BY Zenon DEF CmdInv, TypeOK, FlagType, Blank
<1>4. Standing'
  BY DEF CmdInv, Standing
<1>5. PostedIsFinished' /\ Finished' /\ DirectoryIsOneScans' /\ ExitIsEarned'
  BY DEF CmdInv, PostedIsFinished, Finished, DirectoryIsOneScans, ExitIsEarned
<1> QED
  BY <1>1, <1>2, <1>3, <1>4, <1>5 DEF CmdInv, TypeOK

LEMMA DoWriteKeeps ==
    ASSUME CmdInv, DoWrite
    PROVE  CmdInv'
<1>1. PICK f : f = Head(todo).file
  OBVIOUS
<1>2. /\ todo # <<>> /\ Head(todo).op = "write"
      /\ files' = [files EXCEPT ![f] = Written(n, FormOf(f))]
      /\ todo' = Tail(todo) /\ UNCHANGED <<at, own, exit, n, cmd, posted>>
  BY <1>1 DEF DoWrite, Stays
<1>3. UNCHANGED <<faulted, tripped, said>>
  BY DEF DoWrite
<1>4. /\ at = "files" /\ f \in own /\ FilesType' /\ OneReport'
      /\ \A g \in Files : files'[g].form = "foreign" => g \in Pages
  BY <1>1, <1>2, WriteKeepsReport
<1>5. /\ todo \in Seq(Step) /\ files \in [Files -> Contents] /\ own \subseteq Files /\ f \in Files
      /\ n \in Nat
  BY <1>4 DEF CmdInv, TypeOK, FilesType, RunType
<1>6. /\ todo' \in Seq(Step) /\ Head(todo) = Put(f) /\ Head(todo) = todo[1] /\ 1 \in DOMAIN todo
      /\ Range(todo) = {Head(todo)} \cup Range(todo')
      /\ FilesOf(todo) = {f} \cup FilesOf(todo')
      /\ \A i \in DOMAIN todo' : i \in Nat \ {0} /\ i + 1 \in DOMAIN todo /\ todo'[i] = todo[i + 1]
  BY <1>1, <1>2, <1>5, Shift, StepIs
<1>7. /\ Whole(f)' /\ \A g \in Files \ {f} : Whole(g)' <=> Whole(g)
      /\ files'[f] = Written(n, FormOf(f)) /\ \A g \in Files \ {f} : files'[g] = files[g]
  BY <1>2, <1>5 DEF Whole, FormOf
<1>8. Cleared'
  BY <1>2, <1>4 DEF Cleared
<1>9. Working'
  <2>1. \A g \in own : Whole(g)' \/ Put(g) \in Range(todo')
    <3>1. \A g \in own : Whole(g) \/ Put(g) \in Range(todo)
      BY <1>4 DEF CmdInv, Working
    <3>2. \A g : Put(g) = Put(f) => g = f
      BY DEF Put
    <3> QED
      BY <1>5, <1>6, <1>7, <3>1, <3>2
  <2>2. \A s \in Range(todo') : s.op = "write" => s.file \in own
    BY <1>4, <1>6 DEF CmdInv, Working
  <2>3. \A s \in Range(todo') : s.op = "remove" => /\ s.file \in ScanFiles \ own
                                                   /\ files'[s.file].form # "foreign"
    BY <1>4, <1>6, <1>7, FilesApart DEF CmdInv, Working
  <2>4. Ordered(todo')
    BY <1>2, <1>4, <1>5, OrderedTail DEF CmdInv, Working
  <2> QED
    BY <1>2, <2>1, <2>2, <2>3, <2>4 DEF Working
<1>10. Reported'
  <2>1. SUFFICES ASSUME cmd.name = "diff"
                 PROVE  Reported'
    BY <1>2 DEF Reported
  <2>2. /\ own \subseteq Report
        /\ \A s \in Range(todo) : s.op = "write"
        /\ \A i, j \in DOMAIN todo :
             i < j => todo[i].file # todo[j].file /\ ~(todo[i].file = "md" /\ todo[j].file = "full")
        /\ "full" \in FilesOf(todo) => "md" \in FilesOf(todo)
        /\ "md" \in own /\ cmd.over => "full" \in own
        /\ OnDisk(Report) \subseteq own \ FilesOf(todo)
    BY <1>4, <2>1 DEF CmdInv, Reported
  <2>3. \A i, j \in DOMAIN todo' :
          i < j => todo'[i].file # todo'[j].file /\ ~(todo'[i].file = "md" /\ todo'[j].file = "full")
    BY <1>6, <2>2
  <2>4. \A j \in DOMAIN todo' :
          todo'[j].file # f /\ ~(f = "md" /\ todo'[j].file = "full")
    <3>1. ASSUME NEW j \in DOMAIN todo'
          PROVE  todo'[j].file # f /\ ~(f = "md" /\ todo'[j].file = "full")
      <4>1. j + 1 \in DOMAIN todo /\ 1 < j + 1 /\ todo'[j] = todo[j + 1] /\ todo[1].file = f
        BY <1>1, <1>6
      <4> QED
        BY <1>6, <2>2, <4>1
    <3> QED
      BY <3>1
  <2>5. f \notin FilesOf(todo') /\ (f = "md" => "full" \notin FilesOf(todo'))
    BY <2>4 DEF FilesOf
  <2>6. "full" \in FilesOf(todo') => "md" \in FilesOf(todo')
    BY <1>6, <2>2, <2>5
  <2>7. OnDisk(Report)' \subseteq own \ FilesOf(todo')
    <3>1. OnDisk(Report)' \subseteq OnDisk(Report) \cup {f}
      BY <1>7, FilesApart DEF OnDisk
    <3> QED
      BY <1>4, <1>6, <2>2, <2>5, <3>1
  <2> QED
    BY <1>2, <1>6, <2>2, <2>3, <2>6, <2>7 DEF Reported
<1>11. Scanned'
  <2>1. cmd.name # "diff" => own \subseteq ScanFiles
    BY <1>4 DEF CmdInv, Scanned
  <2>2. ASSUME cmd.name = "scan", NEW g \in OnDisk(ScanFiles)' \ own
        PROVE  Leaving(g)'
    <3>1. g \in Files /\ g # f /\ files'[g] = files[g] /\ g \in OnDisk(ScanFiles)
      BY <1>4, <1>7, <2>2, FilesApart DEF OnDisk
    <3>2. Leaving(g)
      BY <1>4, <2>2, <3>1 DEF CmdInv, Scanned
    <3>3. Drop(g) # Put(f) /\ ListPages # Put(f)
      BY DEF Drop, Put, ListPages
    <3> QED
      BY <1>6, <3>1, <3>2, <3>3 DEF Leaving
  <2> QED
    BY <1>2, <2>1, <2>2 DEF Scanned
<1> QED
  BY <1>2, <1>3, <1>4, <1>6, <1>8, <1>9, <1>10, <1>11, OnwardKeeps

LEMMA DoRemoveKeeps ==
    ASSUME CmdInv, DoRemove
    PROVE  CmdInv'
<1>1. PICK f : f = Head(todo).file
  OBVIOUS
<1>2. /\ at \in {"files", "clear"} /\ todo # <<>> /\ Head(todo).op = "remove"
      /\ files' = [files EXCEPT ![f] = Absent]
      /\ todo' = Tail(todo) /\ UNCHANGED <<at, own, exit, n, cmd, posted>>
  BY <1>1 DEF DoRemove, Stays
<1>3. UNCHANGED <<faulted, tripped, said>>
  BY DEF DoRemove
<1>4. /\ todo \in Seq(Step) /\ files \in [Files -> Contents] /\ own \subseteq Files /\ n \in Nat
      /\ FilesType /\ \A g \in Files : files[g].form = "foreign" => g \in Pages
  <2>1. FilesType /\ RunType /\ \A g \in Files : files[g].form = "foreign" => g \in Pages
    BY DEF CmdInv, TypeOK, Standing
  <2> QED
    <3>1. n \in Nat
      <4>1. n \in 0..Runs
        BY <2>1, Zenon DEF RunType
      <4> QED
        BY <4>1, CommandsAssumption
    <3>2. todo \in Seq(Step) /\ own \subseteq Files
      BY <2>1 DEF RunType
    <3>3. files \in [Files -> Contents]
      BY <2>1 DEF FilesType
    <3> QED
      BY <2>1, <3>1, <3>2, <3>3
<1>5. /\ todo' \in Seq(Step) /\ Head(todo) = Drop(f) /\ Head(todo) = todo[1] /\ 1 \in DOMAIN todo
      /\ Range(todo) = {Head(todo)} \cup Range(todo')
      /\ FilesOf(todo) = {f} \cup FilesOf(todo')
      /\ \A i \in DOMAIN todo' : i \in Nat \ {0} /\ i + 1 \in DOMAIN todo /\ todo'[i] = todo[i + 1]
      /\ f \in Files
  BY <1>1, <1>2, <1>4, Shift, StepIs
<1>6. files'[f] = Absent /\ \A g \in Files \ {f} : files'[g] = files[g]
  BY <1>2, <1>4, <1>5
<1>7. FilesType' /\ \A g \in Files : files'[g].form = "foreign" => g \in Pages
  <2>1. files' \in [Files -> Contents]
    BY <1>2, <1>4, <1>5 DEF Contents
  <2> QED
    BY <1>2, <1>4, <1>6, <2>1 DEF FilesType, Absent
<1>8. Absent.by = 0 /\ Absent.form = "absent"
  BY DEF Absent
<1>9. CASE at = "clear"
  <2>1. /\ \A s \in Range(todo) : s.op = "remove" /\ s.file \in Report
        /\ \A i, j \in DOMAIN todo : i < j => ~(todo[i].file = "full" /\ todo[j].file = "md")
        /\ OnDisk(Report) \subseteq FilesOf(todo)
    BY <1>9 DEF CmdInv, Cleared
  <2>2. OnDisk(Report)' = OnDisk(Report) \ {f}
    BY <1>6, <1>8, FilesApart DEF OnDisk
  <2>3. Cleared'
    <3>1. \A i, j \in DOMAIN todo' : i < j => ~(todo'[i].file = "full" /\ todo'[j].file = "md")
      BY <1>5, <2>1
    <3> QED
      BY <1>5, <2>1, <2>2, <3>1 DEF Cleared
  <2>4. OneReport'
    <3>1. \A g, h \in OnDisk(Report)' : files'[g].by = files'[h].by
      BY <1>6, <2>2, FilesApart DEF CmdInv, OneReport, OnDisk
    <3>2. ASSUME files'["md"].form = "capped"
          PROVE  files'["full"] = Written(files'["md"].by, "whole")
      <4>1. f # "md" /\ files'["md"] = files["md"] /\ files["md"].form = "capped"
        BY <1>6, <1>8, <3>2, FilesApart
      <4>2. "md" \in OnDisk(Report)
        BY <1>4, <4>1, OnDiskForms, FilesApart DEF OnDisk
      <4>3. f # "full"
        <5>1. "md" \in FilesOf(todo')
          BY <1>5, <2>1, <4>1, <4>2
        <5>2. PICK j \in DOMAIN todo' : todo'[j].file = "md"
          BY <5>1 DEF FilesOf
        <5>3. j + 1 \in DOMAIN todo /\ 1 < j + 1 /\ todo[j + 1].file = "md" /\ todo[1].file = f
          BY <1>1, <1>5, <5>2
        <5> QED
          BY <1>5, <2>1, <5>3
      <4> QED
        BY <1>6, <4>1, <4>3, FilesApart DEF CmdInv, OneReport
    <3> QED
      BY <3>1, <3>2 DEF OneReport
  <2>5. Reported' /\ Working' /\ Scanned'
    BY <1>2, <1>9 DEF Reported, Working, Scanned
  <2> QED
    BY <1>2, <1>3, <1>5, <1>7, <2>3, <2>4, <2>5, OnwardKeeps
<1>10. CASE at = "files"
  <2>1. f \in ScanFiles \ own /\ f \notin Report
    BY <1>1, <1>2, <1>5, <1>10, FilesApart DEF CmdInv, Working
  <2>2. cmd.name # "diff"
    BY <1>2, <1>5, <1>10 DEF CmdInv, Reported
  <2>3. Cleared' /\ Reported'
    BY <1>2, <1>10, <2>2 DEF Cleared, Reported
  <2>4. OneReport'
    <3>1. \A g \in Report : files'[g] = files[g]
      BY <1>6, <2>1, FilesApart
    <3> QED
      BY <3>1, FilesApart DEF CmdInv, OneReport, OnDisk
  <2>5. Working'
    <3>1. \A g \in own : Whole(g)' \/ Put(g) \in Range(todo')
      <4>1. \A g \in own : Whole(g) \/ Put(g) \in Range(todo)
        BY <1>10 DEF CmdInv, Working
      <4>2. \A g \in own : Whole(g)' <=> Whole(g)
        BY <1>2, <1>4, <1>6, <2>1 DEF Whole, FormOf
      <4>3. \A g : Put(g) # Drop(f)
        BY DEF Put, Drop
      <4> QED
        BY <1>5, <4>1, <4>2, <4>3
    <3>2. \A s \in Range(todo') : s.op = "write" => s.file \in own
      BY <1>5, <1>10 DEF CmdInv, Working
    <3>3. \A s \in Range(todo') : s.op = "remove" => /\ s.file \in ScanFiles \ own
                                                     /\ files'[s.file].form # "foreign"
      BY <1>5, <1>6, <1>8, <1>10, FilesApart DEF CmdInv, Working
    <3>4. Ordered(todo')
      BY <1>2, <1>4, <1>10, OrderedTail DEF CmdInv, Working
    <3> QED
      BY <1>2, <3>1, <3>2, <3>3, <3>4 DEF Working
  <2>6. Scanned'
    <3>1. own \subseteq ScanFiles
      BY <1>10, <2>2 DEF CmdInv, Scanned
    <3>2. ASSUME cmd.name = "scan", NEW g \in OnDisk(ScanFiles)' \ own
          PROVE  Leaving(g)'
      <4>1. g \in Files /\ g # f /\ files'[g] = files[g] /\ g \in OnDisk(ScanFiles)
        BY <1>6, <1>8, <3>2, FilesApart DEF OnDisk
      <4>2. Leaving(g)
        BY <1>10, <3>2, <4>1 DEF CmdInv, Scanned
      <4>3. (Drop(g) = Drop(f) => g = f) /\ ListPages # Drop(f)
        BY DEF Drop, ListPages
      <4> QED
        BY <1>5, <4>1, <4>2, <4>3 DEF Leaving
    <3> QED
      BY <1>2, <3>1, <3>2 DEF Scanned
  <2> QED
    BY <1>2, <1>3, <1>5, <1>7, <2>3, <2>4, <2>5, <2>6, OnwardKeeps
<1> QED
  BY <1>2, <1>9, <1>10


\* The pages of components the run no longer has: whole ones, and torn ones that kept the heading.
LEMMA DoListPagesKeeps ==
    ASSUME CmdInv, DoListPages
    PROVE  CmdInv'
<1>1. /\ at = "files" /\ todo # <<>> /\ Head(todo).op = "list"
      /\ UNCHANGED <<files, at, own, exit, n, cmd, posted>>
  BY DEF DoListPages, Stays
<1>2. UNCHANGED <<faulted, tripped, said>>
  BY DEF DoListPages
<1>3. PICK opens \in [Pages -> BOOLEAN] :
        /\ \A p \in Pages : opens[p] \in Opens(p)
        /\ todo' = SetToSeq({Drop(p) : p \in {q \in Pages : opens[q] /\ q \notin own}})
  BY DEF DoListPages
<1>4. PICK gone : gone = {q \in Pages : opens[q] /\ q \notin own}
  OBVIOUS
<1>5. PICK drops : drops = {Drop(p) : p \in gone}
  OBVIOUS
<1>6. IsFiniteSet(drops)
  <2>1. IsFiniteSet(gone)
    BY <1>4, CommandsAssumption, FS_Subset
  <2>2. PICK drop : drop = [p \in gone |-> Drop(p)]
    OBVIOUS
  <2>3. drop \in Surjection(gone, drops)
    BY <1>5, <2>2 DEF Surjection
  <2> QED
    BY <2>1, <2>3, FS_Surjection
<1>7. todo' = SetToSeq(drops)
  BY <1>3, <1>4, <1>5
<1>8. todo' \in Seq(drops) /\ Range(todo') = drops
  BY <1>6, <1>7, Listed
<1>9. drops \subseteq Step /\ \A s \in drops : s.op = "remove" /\ s.file \in gone
  BY <1>4, <1>5, FilesApart DEF Drop, Step
<1>10. todo' \in Seq(Step)
  BY <1>8, <1>9, SeqMonotonic
<1>11. FilesType /\ FilesType' /\ OneReport' /\ \A f \in Files : files[f].form = "foreign" => f \in Pages
  <2>1. FilesType /\ OneReport /\ \A f \in Files : files[f].form = "foreign" => f \in Pages
    BY DEF CmdInv, TypeOK, Standing
  <2>2. FilesType'
    BY <1>1, <2>1 DEF FilesType
  <2>3. OneReport'
    BY <1>1, <2>1 DEF OneReport, OnDisk
  <2> QED
    BY <2>1, <2>2, <2>3
<1>12. todo \in Seq(Step) /\ own \subseteq Files
  BY DEF CmdInv, TypeOK, RunType
<1>13. n \in Nat
  <2>1. n \in 0..Runs
    BY Zenon DEF CmdInv, TypeOK, RunType
  <2> QED
    BY <2>1, CommandsAssumption
<1>14. Head(todo) \in Range(todo)
  BY <1>1, <1>12, Shift
<1>15. Ordered(todo) /\ (\A s \in Range(todo) : s.op # "write") /\ Range(todo) = {Head(todo)}
  <2>1. Ordered(todo)
    BY <1>1 DEF CmdInv, Working
  <2>2. (\A s \in Range(todo) : s.op # "write") /\ Tail(todo) = <<>>
    BY <1>1, <1>12, <2>1, OrderedTail
  <2>3. Range(Tail(todo)) = {}
    BY <2>2 DEF Range
  <2> QED
    BY <1>1, <1>12, <2>1, <2>2, <2>3, Shift
<1>16. cmd.name # "diff"
  BY <1>1, <1>14 DEF CmdInv, Reported
<1>17. \A q \in gone : q \in Pages /\ q \notin own /\ files[q].form # "foreign"
  <2>1. ASSUME NEW q \in gone
        PROVE  files[q].form # "foreign"
    <3>1. q \in Pages /\ opens[q] = TRUE
      BY <1>3, <1>4
    <3>2. opens[q] \in Opens(q)
      BY <1>3, <3>1
    <3> QED
      BY <3>1, <3>2 DEF Opens
  <2> QED
    BY <1>4, <2>1
<1>18. Working'
  <2>1. \A f \in own : Whole(f)'
    <3>1. \A f \in own : Whole(f) \/ Put(f) \in Range(todo)
      BY <1>1 DEF CmdInv, Working
    <3> QED
      BY <1>1, <1>15, <3>1 DEF Put, Whole, FormOf
  <2>2. Ordered(todo')
    <3>1. \A i \in DOMAIN todo' : todo'[i].op = "remove"
      BY <1>8, <1>9 DEF Range
    <3> QED
      BY <3>1 DEF Ordered
  <2>3. \A s \in Range(todo') : s.op = "remove" /\ s.file \in ScanFiles \ own
                                /\ files'[s.file].form # "foreign"
    BY <1>1, <1>8, <1>9, <1>17, FilesApart
  <2> QED
    BY <1>1, <2>1, <2>2, <2>3 DEF Working
<1>19. Cleared' /\ Reported'
  BY <1>1, <1>16 DEF Cleared, Reported
<1>20. Scanned'
  <2>1. own \subseteq ScanFiles
    BY <1>1, <1>16 DEF CmdInv, Scanned
  <2>2. ASSUME cmd.name = "scan", NEW f \in OnDisk(ScanFiles) \ own
        PROVE  f \in Pages /\ (files[f].form = "torn" \/ Drop(f) \in drops)
    <3>1. Leaving(f)
      BY <1>1, <2>2 DEF CmdInv, Scanned
    <3>2. Drop(f) \notin Range(todo)
      BY <1>1, <1>15 DEF Drop
    <3>3. f \in Pages
      BY <3>1, <3>2 DEF Leaving
    <3>4. files[f].form \in {"whole", "torn"}
      <4>1. f \in Files /\ files[f].by > 0 /\ f # "md"
        BY <2>2, <3>3, FilesApart DEF OnDisk
      <4> QED
        BY <1>11, <1>13, <4>1, OnDiskForms
    <3>5. ASSUME files[f].form = "whole"
          PROVE  Drop(f) \in drops
      <4>1. opens[f] = TRUE
        BY <1>3, <3>3, <3>5 DEF Opens
      <4> QED
        BY <1>4, <1>5, <2>2, <3>3, <4>1
    <3> QED
      BY <3>3, <3>4, <3>5
  <2>3. \A f \in OnDisk(ScanFiles)' : f \in OnDisk(ScanFiles)
    BY <1>1 DEF OnDisk
  <2> QED
    BY <1>1, <1>8, <2>1, <2>2, <2>3 DEF Scanned, Leaving
<1> QED
  BY <1>1, <1>2, <1>10, <1>11, <1>18, <1>19, <1>20, OnwardKeeps

-----------------------------------------------------------------------------
(* What a command has on disk when it returns *)

LEMMA NothingLeftToWrite ==
    ASSUME CmdInv, at = "files", todo = <<>>
    PROVE  /\ \A f \in own : Whole(f)
           /\ cmd.name = "scan" => \A f \in OnDisk(ScanFiles) \ own : /\ f \in Pages
                                                                      /\ files[f].form = "torn"
<1>1. Range(todo) = {}
  BY DEF Range
<1> QED
  BY <1>1 DEF CmdInv, Working, Scanned, Leaving

LEMMA ReturnsKeeps ==
    ASSUME CmdInv, at = "files", todo = <<>>, NEW code \in Codes, Returns(code),
           UNCHANGED <<files, own, n, cmd, posted>>, FlagType',
           code = SUCCESS => ~faulted' /\ ~tripped',
           cmd.name = "diff" \/ said'
    PROVE  CmdInv'
<1>1. Ended("returned", code) /\ at' = "ended" /\ exit' = [how |-> "returned", code |-> code]
  BY DEF Returns, Ended
<1>2. FilesType' /\ OneReport' /\ \A f \in Files : files'[f].form = "foreign" => f \in Pages
  <2>1. FilesType /\ OneReport /\ \A f \in Files : files[f].form = "foreign" => f \in Pages
    BY DEF CmdInv, TypeOK, Standing
  <2>2. FilesType'
    BY <2>1 DEF FilesType
  <2>3. OneReport'
    BY <2>1 DEF OneReport, OnDisk
  <2> QED
    BY <2>1, <2>2, <2>3
<1>3. \A f \in own : Whole(f)'
  <2>1. \A f \in own : Whole(f)
    BY NothingLeftToWrite
  <2> QED
    BY <2>1 DEF Whole, FormOf
<1>4. DirectoryIsOneScans'
  <2>1. cmd.name = "scan" => \A f \in OnDisk(ScanFiles) \ own : /\ f \in Pages
                                                                /\ files[f].form = "torn"
    BY NothingLeftToWrite
  <2> QED
    BY <1>3, <2>1 DEF DirectoryIsOneScans, OnDisk
<1>5. ExitIsEarned'
  <2>1. exit'.code = code
    BY <1>1
  <2>2. exit'.code = SUCCESS => ~faulted' /\ ~tripped'
    BY <2>1, Zenon
  <2> QED
    BY <1>3, <2>2, Zenon DEF ExitIsEarned
<1>6. Finished'
  <2>1. SUFFICES ASSUME cmd.name = "diff", files["md"].by > 0
                 PROVE  files["md"].by = n /\ files["md"].form \in {"whole", "capped"}
    BY DEF Finished
  <2>2. Whole("md")
    BY <2>1, ReportSoFar, FilesApart DEF OnDisk
  <2> QED
    BY <2>2 DEF Whole, Written, FormOf
<1> QED
  BY <1>1, <1>2, <1>4, <1>5, <1>6, EndKeeps

LEMMA ScanReturnsKeeps ==
    ASSUME CmdInv, ScanReturns
    PROVE  CmdInv'
<1>1. /\ at = "files" /\ cmd.name # "diff" /\ todo = <<>>
      /\ UNCHANGED <<files, own, n, cmd, posted>>
  BY DEF ScanReturns, Stays
<1>2. said' = TRUE /\ UNCHANGED <<faulted, tripped>> /\ ~tripped
  BY <1>1, Zenon DEF ScanReturns, CmdInv, Blank
<1>3. FlagType'
  BY <1>2, Zenon DEF CmdInv, TypeOK, FlagType
<1>4. CASE \E error \in {"input-error", "runtime-error"} : Throws(error)
  <2>1. PICK error \in {"input-error", "runtime-error"} : Ended("threw", ExitOf(error))
    BY <1>4 DEF Throws
  <2>2. ExitOf(error) \in Codes
    BY CodesApart
  <2>3. FilesType' /\ OneReport' /\ \A f \in Files : files'[f].form = "foreign" => f \in Pages
    <3>1. FilesType /\ OneReport /\ \A f \in Files : files[f].form = "foreign" => f \in Pages
      BY DEF CmdInv, TypeOK, Standing
    <3>2. FilesType'
      BY <1>1, <3>1 DEF FilesType
    <3>3. OneReport'
      BY <1>1, <3>1 DEF OneReport, OnDisk
    <3> QED
      BY <1>1, <3>1, <3>2, <3>3
  <2>4. Finished'
    BY <1>1 DEF Finished
  <2> QED
    BY <1>1, <1>3, <2>1, <2>2, <2>3, <2>4, CutShortKeeps
<1>5. CASE \E code \in Codes : Returns(code) /\ (faulted => code # SUCCESS)
  <2>1. PICK code \in Codes : Returns(code) /\ (faulted => code # SUCCESS)
    BY <1>5
  <2>2. code = SUCCESS => ~faulted' /\ ~tripped'
    BY <1>2, <2>1, Zenon
  <2> QED
    BY <1>1, <1>2, <1>3, <2>1, <2>2, ReturnsKeeps
<1>6. \A code \in Answers : code \in Codes
  BY DEF Answers, AnswerCode, Codes
<1>7. GATE \in Codes /\ SUCCESS \in Codes /\ GATE # SUCCESS
  BY CodesApart
<1>8. CASE cmd.name = "scan" /\ Returns(IF faulted THEN GATE ELSE SUCCESS)
  <2>1. faulted => Returns(GATE)
    BY <1>8
  <2>2. ~faulted => Returns(SUCCESS)
    BY <1>8
  <2> QED
    BY <1>5, <1>7, <2>1, <2>2, Zenon
<1>9. CASE ~faulted /\ Answer
  BY <1>4, <1>5, <1>6, <1>9, Zenon DEF Answer, OutputRefused
<1>10. CASE faulted /\ (Returns(GATE) \/ OutputRefused)
  BY <1>4, <1>5, <1>7, <1>10, Zenon DEF OutputRefused
<1> QED
  BY <1>8, <1>9, <1>10, Zenon DEF ScanReturns

LEMMA DiffReturnsKeeps ==
    ASSUME CmdInv, DiffReturns
    PROVE  CmdInv'
<1>1. /\ at = "files" /\ cmd.name = "diff" /\ todo = <<>>
      /\ UNCHANGED <<files, own, n, cmd, posted>>
  BY DEF DiffReturns, Stays
<1>2. UNCHANGED <<faulted, said>> /\ tripped' \in BOOLEAN
  BY Zenon DEF DiffReturns
<1>3. FlagType'
  BY <1>2, Zenon DEF CmdInv, TypeOK, FlagType
<1>4. GATE \in Codes /\ SUCCESS \in Codes /\ GATE # SUCCESS
  BY CodesApart
<1>5. CASE tripped' \/ faulted
  <2>1. Returns(GATE)
    BY <1>5 DEF DiffReturns
  <2> QED
    BY <1>1, <1>3, <1>4, <2>1, ReturnsKeeps
<1>6. CASE ~(tripped' \/ faulted)
  <2>1. Returns(SUCCESS)
    BY <1>6 DEF DiffReturns
  <2>2. ~faulted' /\ ~tripped'
    BY <1>2, <1>6, Zenon
  <2> QED
    BY <1>1, <1>3, <1>4, <2>1, <2>2, ReturnsKeeps
<1> QED
  BY <1>5, <1>6, Zenon


-----------------------------------------------------------------------------
(* What a run sets out to write *)

LEMMA PutsAndDrops ==
    ASSUME NEW f \in Files
    PROVE  /\ <<Put(f)>> \in Seq(Step) /\ Range(<<Put(f)>>) = {Put(f)}
           /\ <<Drop(f)>> \in Seq(Step) /\ Range(<<Drop(f)>>) = {Drop(f)}
BY DEF Put, Drop, Step, Range

LEMMA IfSteps ==
    ASSUME NEW c, NEW s \in Seq(Step)
    PROVE  If(c, s) \in Seq(Step) /\ Range(If(c, s)) = (IF c THEN Range(s) ELSE {})
<1>1. <<>> \in Seq(Step) /\ Range(<<>>) = {}
  BY DEF Range
<1> QED
  BY <1>1 DEF If

LEMMA TwoSteps ==
    ASSUME NEW s \in Seq(Step), NEW t \in Seq(Step)
    PROVE  s \o t \in Seq(Step) /\ Range(s \o t) = Range(s) \cup Range(t)
BY ConcatProperties, RangeConcatenation

LEMMA Joined ==
    ASSUME NEW a, NEW b, NEW c
    PROVE  /\ <<a>> \o <<>> = <<a>> /\ <<>> \o <<a>> = <<a>>
           /\ <<a>> \o <<b>> = <<a, b>> /\ <<>> \o <<a, b>> = <<a, b>>
           /\ <<a>> \o <<b, c>> = <<a, b, c>>
<1>1. PICK S : S = {a, b, c}
  OBVIOUS
<1>2. PICK s, t, u, p, q : s = <<a>> /\ t = <<b, c>> /\ u = <<a, b, c>> /\ p = <<b>> /\ q = <<a, b>>
  OBVIOUS
<1>3. s \in Seq(S) /\ t \in Seq(S) /\ u \in Seq(S) /\ p \in Seq(S) /\ q \in Seq(S)
  BY <1>1, <1>2
<1>4. /\ Len(s) = 1 /\ Len(t) = 2 /\ Len(u) = 3 /\ Len(p) = 1 /\ Len(q) = 2
      /\ s[1] = a /\ t[1] = b /\ t[2] = c /\ u[1] = a /\ u[2] = b /\ u[3] = c
      /\ p[1] = b /\ q[1] = a /\ q[2] = b
  BY <1>2
<1>5. s \o <<>> = s /\ <<>> \o s = s /\ <<>> \o q = q
  BY <1>3, ConcatEmptySeq
<1>6. s \o p = q
  <2>1. s \o p \in Seq(S) /\ Len(s \o p) = Len(s) + Len(p)
        /\ \A i \in 1..Len(s) + Len(p) : (s \o p)[i] = IF i <= Len(s) THEN s[i] ELSE p[i - Len(s)]
    BY <1>3, ConcatProperties
  <2>2. Len(s \o p) = Len(q) /\ \A i \in 1..Len(s \o p) : (s \o p)[i] = q[i]
    BY <1>4, <2>1
  <2> QED
    BY <1>3, <2>1, <2>2, SeqEqual
<1>7. s \o t = u
  <2>1. s \o t \in Seq(S) /\ Len(s \o t) = Len(s) + Len(t)
        /\ \A i \in 1..Len(s) + Len(t) : (s \o t)[i] = IF i <= Len(s) THEN s[i] ELSE t[i - Len(s)]
    BY <1>3, ConcatProperties
  <2>2. Len(s \o t) = Len(u) /\ \A i \in 1..Len(s \o t) : (s \o t)[i] = u[i]
    BY <1>4, <2>1
  <2> QED
    BY <1>3, <2>1, <2>2, SeqEqual
<1> QED
  BY <1>2, <1>5, <1>6, <1>7

\* The report's order: the uncapped text lands before the capped one that names it.
LEMMA ReportWritesAre ==
    ASSUME cmd \in Diffs
    PROVE  /\ ReportWrites \in Seq(Step)
           /\ \A s \in Range(ReportWrites) : s.op = "write" /\ s = Put(s.file) /\ s.file \in Report
           /\ \A i, j \in DOMAIN ReportWrites :
                i < j => /\ ReportWrites[i].file # ReportWrites[j].file
                         /\ ~(ReportWrites[i].file = "md" /\ ReportWrites[j].file = "full")
           /\ "full" \in FilesOf(ReportWrites) => "md" \in FilesOf(ReportWrites)
           /\ "md" \in FilesOf(ReportWrites) /\ cmd.over => "full" \in FilesOf(ReportWrites)
<1>1. \E w \in {<<Put("json")>>, <<Put("full"), Put("md")>>, <<Put("md")>>,
                <<Put("json"), Put("full"), Put("md")>>, <<Put("json"), Put("md")>>} :
        /\ ReportWrites = w
        /\ w # <<Put("json")>> /\ cmd.over =>
             w \in {<<Put("full"), Put("md")>>, <<Put("json"), Put("full"), Put("md")>>}
  <2>1. cmd.format \in {"json", "md", "both"} /\ cmd.over \in BOOLEAN
    BY DEF Diffs, Formats
  <2>2. CASE cmd.format = "json"
    <3>1. ReportWrites = <<Put("json")>> \o <<>>
      BY <2>2 DEF ReportWrites, If
    <3> QED
      BY <3>1, Joined
  <2>3. CASE cmd.format = "md" /\ cmd.over
    <3>1. ReportWrites = <<>> \o (<<Put("full")>> \o <<Put("md")>>)
      BY <2>3 DEF ReportWrites, If
    <3> QED
      BY <3>1, Joined
  <2>4. CASE cmd.format = "md" /\ ~cmd.over
    <3>1. ReportWrites = <<>> \o (<<>> \o <<Put("md")>>)
      BY <2>4 DEF ReportWrites, If
    <3>2. ReportWrites = <<Put("md")>>
      BY <3>1, Joined
    <3> QED
      BY <2>4, <3>2
  <2>5. CASE cmd.format = "both" /\ cmd.over
    <3>1. ReportWrites = <<Put("json")>> \o (<<Put("full")>> \o <<Put("md")>>)
      BY <2>5 DEF ReportWrites, If
    <3> QED
      BY <3>1, Joined
  <2>6. CASE cmd.format = "both" /\ ~cmd.over
    <3>1. ReportWrites = <<Put("json")>> \o (<<>> \o <<Put("md")>>)
      BY <2>6 DEF ReportWrites, If
    <3>2. ReportWrites = <<Put("json"), Put("md")>>
      BY <3>1, Joined
    <3> QED
      BY <2>6, <3>2
  <2> QED
    BY <2>1, <2>2, <2>3, <2>4, <2>5, <2>6
<1>2. PICK w \in {<<Put("json")>>, <<Put("full"), Put("md")>>, <<Put("md")>>,
                  <<Put("json"), Put("full"), Put("md")>>, <<Put("json"), Put("md")>>} :
        /\ ReportWrites = w
        /\ w # <<Put("json")>> /\ cmd.over =>
             w \in {<<Put("full"), Put("md")>>, <<Put("json"), Put("full"), Put("md")>>}
  BY <1>1
<1>3. w \in Seq(Step)
  <2>1. {Put("json"), Put("md"), Put("full")} \subseteq Step
    BY FilesApart DEF Put, Step
  <2>2. PICK a, b, c : a = Put("json") /\ b = Put("md") /\ c = Put("full")
    OBVIOUS
  <2>3. a \in Step /\ b \in Step /\ c \in Step
    BY <2>1, <2>2
  <2>4. /\ <<a>> \in Seq(Step) /\ <<b>> \in Seq(Step) /\ <<c, b>> \in Seq(Step)
        /\ <<a, c, b>> \in Seq(Step) /\ <<a, b>> \in Seq(Step)
    BY <2>3
  <2> QED
    BY <2>2, <2>4
<1>4. \A i \in DOMAIN w : w[i] \in {Put("json"), Put("md"), Put("full")}
  OBVIOUS
<1>5. \A s \in Range(w) : s.op = "write" /\ s = Put(s.file) /\ s.file \in Report
  BY <1>4 DEF Range, Put, Report
<1>6. \A i, j \in DOMAIN w :
        i < j => w[i].file # w[j].file /\ ~(w[i].file = "md" /\ w[j].file = "full")
  BY DEF Put
<1>7. FilesOf(w) = {x.file : x \in Range(w)}
  BY FilesInRange
<1>8. "full" \in FilesOf(w) => "md" \in FilesOf(w)
  BY DEF FilesOf, Put
<1>9. "md" \in FilesOf(w) /\ cmd.over => "full" \in FilesOf(w)
  <2>1. w = <<Put("json")>> => "md" \notin FilesOf(w)
    BY DEF FilesOf, Put
  <2>2. w \in {<<Put("full"), Put("md")>>, <<Put("json"), Put("full"), Put("md")>>}
          => "full" \in FilesOf(w)
    BY DEF FilesOf, Put
  <2> QED
    BY <1>2, <2>1, <2>2
<1> QED
  BY <1>2, <1>3, <1>5, <1>6, <1>8, <1>9

LEMMA ReadSidesKeeps ==
    ASSUME CmdInv, ReadSides
    PROVE  CmdInv'
<1>1. /\ at = "clear" /\ todo = <<>> /\ at' = "files" /\ todo' = ReportWrites
      /\ own' = FilesOf(ReportWrites) /\ UNCHANGED <<files, exit, n, cmd, posted>>
  BY DEF ReadSides, Stays
<1>2. faulted' \in BOOLEAN /\ UNCHANGED <<tripped, said>>
  BY Zenon DEF ReadSides
<1>3. cmd \in Diffs /\ cmd.name = "diff" /\ n > 0
  BY <1>1, Named DEF CmdInv, Standing
<1>4. OnDisk(Report) = {}
  BY <1>1, NothingReported
<1>5. PICK w : w = ReportWrites
  OBVIOUS
<1>6. /\ w \in Seq(Step)
      /\ \A s \in Range(w) : s.op = "write" /\ s = Put(s.file) /\ s.file \in Report
      /\ \A i, j \in DOMAIN w :
           i < j => w[i].file # w[j].file /\ ~(w[i].file = "md" /\ w[j].file = "full")
      /\ "full" \in FilesOf(w) => "md" \in FilesOf(w)
      /\ "md" \in FilesOf(w) /\ cmd.over => "full" \in FilesOf(w)
  BY <1>3, <1>5, ReportWritesAre
<1>7. FilesOf(w) = {x.file : x \in Range(w)}
  BY FilesInRange
<1>8. todo' = w /\ own' = FilesOf(w)
  BY <1>1, <1>5
<1>9. FilesType' /\ EndType'
  BY <1>1 DEF CmdInv, TypeOK, FilesType, EndType
<1>10. RunType'
  <2>1. /\ n' \in 0..Runs /\ cmd' \in {NoCommand} \cup Scans \cup Explains \cup Diffs
    BY <1>1, Zenon DEF CmdInv, TypeOK, RunType
  <2>2. own' \subseteq Files
    BY <1>6, <1>7, <1>8, FilesApart
  <2> QED
    BY <1>1, <1>6, <1>8, <2>1, <2>2 DEF RunType
<1>11. FlagType' /\ Blank'
  BY <1>1, <1>2, Zenon DEF CmdInv, TypeOK, FlagType, Blank
<1>12. Standing'
  BY <1>1 DEF CmdInv, Standing
<1>13. OneReport' /\ PostedIsFinished'
  BY <1>1 DEF CmdInv, OneReport, PostedIsFinished, OnDisk
<1>14. Reported'
  <2>1. OnDisk(Report)' = {}
    BY <1>1, <1>4 DEF OnDisk
  <2> QED
    BY <1>1, <1>6, <1>7, <1>8, <2>1 DEF Reported
<1>15. Working'
  <2>1. \A f \in own' : Put(f) \in Range(todo')
    BY <1>6, <1>7, <1>8
  <2>2. \A s \in Range(todo') : s.op = "write" /\ s.file \in own'
    BY <1>6, <1>7, <1>8
  <2>3. Ordered(todo')
    BY <1>8, <2>2 DEF Ordered, Range
  <2> QED
    BY <2>1, <2>2, <2>3 DEF Working
<1>16. Cleared' /\ Scanned' /\ Finished'
  BY <1>1, <1>3 DEF Cleared, Scanned, Finished
<1>17. DirectoryIsOneScans' /\ ExitIsEarned'
  BY <1>1 DEF DirectoryIsOneScans, ExitIsEarned
<1> QED
  BY <1>9, <1>10, <1>11, <1>12, <1>13, <1>14, <1>15, <1>16, <1>17 DEF CmdInv, TypeOK

LEMMA ListPagesIs ==
    /\ ListPages \in Step /\ <<ListPages>> \in Seq(Step) /\ Range(<<ListPages>>) = {ListPages}
    /\ ListPages.op = "list"
BY FilesApart DEF ListPages, Step, Range

\* What a scan writes, by its options.
Outputs(format, strict, comps) ==
    (IF format # "md" THEN {"ir"} ELSE {})
      \cup (IF format # "json" THEN {"workspace"} \cup comps ELSE {})
      \cup (IF cmd.name = "scan" /\ ~strict THEN {"vocab"} ELSE {})

LEMMA ScanWritesAre ==
    ASSUME NEW format, NEW strict, NEW comps \in SUBSET Pages
    PROVE  /\ ScanWrites(format, strict, comps) \in Seq(Step)
           /\ Range(ScanWrites(format, strict, comps))
                = {Put(f) : f \in Outputs(format, strict, comps)}
<1>1. PICK pages : pages = [i \in 1..Cardinality(comps) |-> Put(SetToSeq(comps)[i])]
  OBVIOUS
<1>2. PICK ids : ids = SetToSeq(comps)
  OBVIOUS
<1>3. ids \in Seq(comps) /\ Len(ids) = Cardinality(comps) /\ Range(ids) = comps
  BY <1>2, CommandsAssumption, FS_Subset, Listed
<1>4. DOMAIN ids = 1..Cardinality(comps) /\ Cardinality(comps) \in Nat
  BY <1>3, LenProperties
<1>5. pages = [i \in 1..Cardinality(comps) |-> Put(ids[i])]
  BY <1>1, <1>2
<1>6. \A f \in comps : Put(f) \in Step
  BY FilesApart DEF Put, Step
<1>7. \A i \in 1..Cardinality(comps) : ids[i] \in comps
  BY <1>3, <1>4 DEF Range
<1>8. pages \in Seq(Step)
  BY <1>4, <1>5, <1>6, <1>7, IsASeq
<1>9. Range(pages) = {Put(f) : f \in comps}
  <2>1. Range(pages) = {Put(ids[i]) : i \in 1..Cardinality(comps)}
    BY <1>5 DEF Range
  <2>2. comps = {ids[i] : i \in 1..Cardinality(comps)}
    BY <1>3, <1>4 DEF Range
  <2> QED
    BY <2>1, <2>2
<1>10. PICK workspace, ir, vocab : /\ workspace = <<Put("workspace")>> /\ ir = <<Put("ir")>>
                                   /\ vocab = <<Put("vocab")>>
  OBVIOUS
<1>11. /\ workspace \in Seq(Step) /\ Range(workspace) = {Put("workspace")}
       /\ ir \in Seq(Step) /\ Range(ir) = {Put("ir")}
       /\ vocab \in Seq(Step) /\ Range(vocab) = {Put("vocab")}
  BY <1>10, PutsAndDrops, FilesApart
<1>12. PICK a : a = If(format # "md", ir)
  OBVIOUS
<1>13. PICK b : b = If(format # "json", workspace \o pages)
  OBVIOUS
<1>14. PICK c : c = If(cmd.name = "scan" /\ ~strict, vocab)
  OBVIOUS
<1>15. a \in Seq(Step) /\ Range(a) = IF format # "md" THEN {Put("ir")} ELSE {}
  BY <1>11, <1>12, IfSteps
<1>16. workspace \o pages \in Seq(Step)
       /\ Range(workspace \o pages) = {Put("workspace")} \cup {Put(f) : f \in comps}
  BY <1>8, <1>9, <1>11, TwoSteps
<1>17. b \in Seq(Step)
       /\ Range(b) = IF format # "json" THEN {Put("workspace")} \cup {Put(f) : f \in comps} ELSE {}
  BY <1>13, <1>16, IfSteps
<1>18. c \in Seq(Step) /\ Range(c) = IF cmd.name = "scan" /\ ~strict THEN {Put("vocab")} ELSE {}
  BY <1>11, <1>14, IfSteps
<1>19. ScanWrites(format, strict, comps) = a \o b \o c
  BY <1>1, <1>10, <1>12, <1>13, <1>14 DEF ScanWrites
<1>20. (a \o b) \o c \in Seq(Step) /\ Range((a \o b) \o c) = Range(a) \cup Range(b) \cup Range(c)
  <2>1. a \o b \in Seq(Step) /\ Range(a \o b) = Range(a) \cup Range(b)
    BY <1>15, <1>17, TwoSteps
  <2> QED
    BY <1>18, <2>1, TwoSteps
<1>21. Range(a) \cup Range(b) \cup Range(c) = {Put(f) : f \in Outputs(format, strict, comps)}
  BY <1>15, <1>17, <1>18 DEF Outputs
<1> QED
  BY <1>19, <1>20, <1>21

\* What the run does not write, among the files that are there whatever the components.
Leftovers(format, strict) ==
    (IF strict THEN {"vocab"} ELSE {})
      \cup (IF format = "md" THEN {"ir"} ELSE {})
      \cup (IF format = "json" THEN {"workspace"} ELSE {})

LEMMA ScanRemovalsAre ==
    ASSUME NEW format, NEW strict, cmd.name = "scan"
    PROVE  \E drops \in Seq(Step) :
             /\ ScanRemovals(format, strict) = drops \o <<ListPages>>
             /\ \A f \in Leftovers(format, strict) : Drop(f) \in Range(drops)
             /\ \A s \in Range(drops) : s.op = "remove" /\ s.file \in Leftovers(format, strict)
<1>1. PICK workspace, ir, vocab : /\ workspace = <<Drop("workspace")>> /\ ir = <<Drop("ir")>>
                                  /\ vocab = <<Drop("vocab")>>
  OBVIOUS
<1>2. /\ workspace \in Seq(Step) /\ Range(workspace) = {Drop("workspace")}
      /\ ir \in Seq(Step) /\ Range(ir) = {Drop("ir")}
      /\ vocab \in Seq(Step) /\ Range(vocab) = {Drop("vocab")}
  BY <1>1, PutsAndDrops, FilesApart
<1>3. PICK a : a = If(strict, vocab)
  OBVIOUS
<1>4. PICK b : b = If(format = "md", ir)
  OBVIOUS
<1>5. PICK c : c = If(format = "json", workspace)
  OBVIOUS
<1>6. /\ a \in Seq(Step) /\ Range(a) = IF strict THEN {Drop("vocab")} ELSE {}
      /\ b \in Seq(Step) /\ Range(b) = IF format = "md" THEN {Drop("ir")} ELSE {}
      /\ c \in Seq(Step) /\ Range(c) = IF format = "json" THEN {Drop("workspace")} ELSE {}
  BY <1>2, <1>3, <1>4, <1>5, IfSteps
<1>7. a \o b \in Seq(Step) /\ Range(a \o b) = Range(a) \cup Range(b)
  BY <1>6, TwoSteps
<1>8. (a \o b) \o c \in Seq(Step) /\ Range((a \o b) \o c) = Range(a) \cup Range(b) \cup Range(c)
  BY <1>6, <1>7, TwoSteps
<1>9. ScanRemovals(format, strict) = a \o b \o c \o <<ListPages>>
  BY <1>1, <1>3, <1>4, <1>5 DEF ScanRemovals, If
<1>10. \A f \in Leftovers(format, strict) : Drop(f) \in Range(a) \cup Range(b) \cup Range(c)
  BY <1>6 DEF Leftovers
<1>11. \A s \in Range(a) \cup Range(b) \cup Range(c) :
         s.op = "remove" /\ s.file \in Leftovers(format, strict)
  BY <1>6 DEF Leftovers, Drop
<1> QED
  BY <1>8, <1>9, <1>10, <1>11

LEMMA WritesThenRemovals ==
    ASSUME NEW w \in Seq(Step), NEW r \in Seq(Step),
           \A s \in Range(w) : s.op = "write", \A s \in Range(r) : s.op # "write",
           \A i, j \in DOMAIN r : i < j => r[i].op = "remove"
    PROVE  Ordered(w \o r)
<1>1. Len(w) \in Nat /\ DOMAIN w = 1..Len(w) /\ Len(r) \in Nat /\ DOMAIN r = 1..Len(r)
  BY LenProperties
<1>2. w \o r \in Seq(Step) /\ Len(w \o r) = Len(w) + Len(r)
      /\ \A i \in 1..Len(w) + Len(r) : (w \o r)[i] = IF i <= Len(w) THEN w[i] ELSE r[i - Len(w)]
  BY ConcatProperties
<1>3. PICK all : all = w \o r
  OBVIOUS
<1>4. DOMAIN all = 1..Len(w) + Len(r)
  BY <1>2, <1>3, LenProperties
<1>5. \A i \in 1..Len(w) : all[i] = w[i] /\ w[i].op = "write"
  BY <1>1, <1>2, <1>3 DEF Range
<1>6. \A i \in DOMAIN all : i > Len(w) => /\ i - Len(w) \in DOMAIN r /\ all[i] = r[i - Len(w)]
                                           /\ all[i].op # "write"
  BY <1>1, <1>2, <1>3, <1>4 DEF Range
<1>7. ASSUME NEW i \in DOMAIN all, NEW j \in DOMAIN all, i < j, all[i].op # "write"
      PROVE  all[i].op = "remove" /\ all[j].op # "write"
  <2>1. i > Len(w) /\ j > Len(w) /\ i - Len(w) < j - Len(w)
    BY <1>1, <1>4, <1>5, <1>7
  <2> QED
    BY <1>6, <1>7, <2>1
<1> QED
  BY <1>3, <1>7 DEF Ordered

\* After a scan's writes comes what removes the files of an earlier one, and of no other.
LEMMA ScanPlan ==
    ASSUME CmdInv, at = "scan", NEW comps \in SUBSET Pages, NEW w, NEW r,
           w = ScanWrites(Format, Strict, comps), r = ScanRemovals(Format, Strict)
    PROVE  /\ w \in Seq(Step) /\ r \in Seq(Step) /\ w \o r \in Seq(Step)
           /\ FilesOf(w) = Outputs(Format, Strict, comps) /\ FilesOf(w) \subseteq ScanFiles
           /\ \A f \in FilesOf(w) : Put(f) \in Range(w \o r)
           /\ \A s \in Range(w \o r) : s.op = "write" => s.file \in FilesOf(w)
           /\ \A s \in Range(w \o r) : s.op = "remove" => s.file \in ScanFiles \ FilesOf(w)
                                                          /\ s.file \notin Pages
           /\ Ordered(w \o r)
           /\ cmd.name = "scan" => \A f \in ScanFiles \ FilesOf(w) :
                Drop(f) \in Range(w \o r) \/ (f \in Pages /\ ListPages \in Range(w \o r))
<1>1. w \in Seq(Step) /\ Range(w) = {Put(f) : f \in Outputs(Format, Strict, comps)}
  BY ScanWritesAre
<1>2. FilesOf(w) = Outputs(Format, Strict, comps)
  <2>1. FilesOf(w) = {x.file : x \in Range(w)}
    BY FilesInRange
  <2>2. \A f : Put(f).file = f
    BY DEF Put
  <2>3. FilesOf(w) \subseteq Outputs(Format, Strict, comps)
    BY <1>1, <2>1, <2>2
  <2>4. Outputs(Format, Strict, comps) \subseteq FilesOf(w)
    BY <1>1, <2>1, <2>2
  <2> QED
    BY <2>3, <2>4
<1>3. Outputs(Format, Strict, comps) \subseteq ScanFiles
  BY FilesApart DEF Outputs
<1>4. \A s \in Range(w) : s.op = "write" /\ s.file \in FilesOf(w)
  BY <1>1, <1>2 DEF Put
<1>5. CASE cmd.name = "scan"
  <2>1. PICK drops \in Seq(Step) :
          /\ r = drops \o <<ListPages>>
          /\ \A f \in Leftovers(Format, Strict) : Drop(f) \in Range(drops)
          /\ \A s \in Range(drops) : s.op = "remove" /\ s.file \in Leftovers(Format, Strict)
    BY <1>5, ScanRemovalsAre
  <2>2. r \in Seq(Step) /\ Range(r) = Range(drops) \cup {ListPages}
    BY <2>1, ListPagesIs, TwoSteps
  <2>3. \A s \in Range(drops) : s.op = "remove" /\ s.file \in ScanFiles \ FilesOf(w)
                                /\ s.file \notin Pages
    <3>1. \A f \in Leftovers(Format, Strict) :
            f \in ScanFiles \ Pages /\ f \notin Outputs(Format, Strict, comps)
      BY <1>5, FilesApart DEF Outputs, Leftovers
    <3> QED
      BY <1>2, <2>1, <3>1
  <2>4. \A i, j \in DOMAIN r : i < j => r[i].op = "remove"
    <3>1. Len(drops) \in Nat /\ DOMAIN drops = 1..Len(drops) /\ Len(<<ListPages>>) = 1
      BY LenProperties
    <3>2. Len(r) = Len(drops) + 1
          /\ \A i \in 1..Len(drops) + 1 :
               r[i] = IF i <= Len(drops) THEN drops[i] ELSE <<ListPages>>[i - Len(drops)]
      BY <2>1, <3>1, ListPagesIs, ConcatProperties
    <3>3. DOMAIN r = 1..Len(drops) + 1
      BY <2>2, <3>2, LenProperties
    <3>4. ASSUME NEW i \in DOMAIN r, NEW j \in DOMAIN r, i < j
          PROVE  r[i].op = "remove"
      <4>1. i \in 1..Len(drops) /\ r[i] = drops[i]
        BY <3>1, <3>2, <3>3, <3>4
      <4>2. r[i] \in Range(drops)
        BY <3>1, <4>1 DEF Range
      <4> QED
        BY <2>3, <4>2
    <3> QED
      BY <3>4
  <2>5. w \o r \in Seq(Step) /\ Range(w \o r) = Range(w) \cup Range(drops) \cup {ListPages}
    BY <1>1, <2>2, TwoSteps
  <2>6. Ordered(w \o r)
    BY <1>1, <1>4, <2>2, <2>3, <2>4, ListPagesIs, WritesThenRemovals
  <2>7. ASSUME NEW f \in ScanFiles \ FilesOf(w)
        PROVE  Drop(f) \in Range(drops) \/ f \in Pages
    BY <1>2, <1>5, <2>1 DEF Outputs, Leftovers, ScanFiles
  <2> QED
    BY <1>1, <1>2, <1>3, <1>4, <2>2, <2>3, <2>5, <2>6, <2>7, ListPagesIs
<1>6. CASE cmd.name # "scan"
  <2>1. r = <<>>
    BY <1>6 DEF ScanRemovals, If
  <2>2. r \in Seq(Step) /\ Range(r) = {} /\ DOMAIN r = {}
    BY <2>1 DEF Range
  <2>3. w \o r \in Seq(Step) /\ Range(w \o r) = Range(w)
    BY <1>1, <2>2, TwoSteps
  <2>4. Ordered(w \o r)
    BY <1>1, <1>4, <2>2, WritesThenRemovals
  <2> QED
    BY <1>1, <1>2, <1>3, <1>4, <1>6, <2>2, <2>3, <2>4
<1> QED
  BY <1>5, <1>6

LEMMA ScanKeeps ==
    ASSUME CmdInv, Scan
    PROVE  CmdInv'
<1>1. PICK comps \in SUBSET Pages :
        /\ todo' = ScanWrites(Format, Strict, comps) \o ScanRemovals(Format, Strict)
        /\ own' = FilesOf(ScanWrites(Format, Strict, comps))
  BY Zenon DEF Scan
<1>2. at = "scan" /\ at' = "files" /\ UNCHANGED <<files, exit, n, cmd, posted>>
  BY Zenon DEF Scan, Stays
<1>3. faulted' \in BOOLEAN /\ UNCHANGED <<tripped, said>>
  BY Zenon DEF Scan, ScanFault, CoverageFault
<1>4. PICK w, r : w = ScanWrites(Format, Strict, comps) /\ r = ScanRemovals(Format, Strict)
  OBVIOUS
<1>5. todo' = w \o r /\ own' = FilesOf(w)
  BY <1>1, <1>4
<1>6. /\ w \o r \in Seq(Step) /\ FilesOf(w) \subseteq ScanFiles
      /\ \A f \in FilesOf(w) : Put(f) \in Range(w \o r)
      /\ \A s \in Range(w \o r) : s.op = "write" => s.file \in FilesOf(w)
      /\ \A s \in Range(w \o r) : s.op = "remove" => s.file \in ScanFiles \ FilesOf(w)
                                                     /\ s.file \notin Pages
      /\ Ordered(w \o r)
      /\ cmd.name = "scan" => \A f \in ScanFiles \ FilesOf(w) :
           Drop(f) \in Range(w \o r) \/ (f \in Pages /\ ListPages \in Range(w \o r))
  BY <1>2, <1>4, ScanPlan
<1>7. /\ n > 0 /\ cmd \in Scans \cup Explains \cup Diffs /\ cmd.name # "diff"
      /\ \A f \in Files : files[f].form = "foreign" => f \in Pages
  BY <1>2 DEF CmdInv, Standing
<1>8. FilesType' /\ EndType'
  BY <1>2 DEF CmdInv, TypeOK, FilesType, EndType
<1>9. RunType'
  <2>1. n' \in 0..Runs
    BY <1>2, Zenon DEF CmdInv, TypeOK, RunType
  <2>2. own' \subseteq Files
    BY <1>5, <1>6, FilesApart
  <2> QED
    BY <1>2, <1>5, <1>6, <1>7, <2>1, <2>2 DEF RunType
<1>10. FlagType' /\ Blank'
  BY <1>2, <1>3, Zenon DEF CmdInv, TypeOK, FlagType, Blank
<1>11. Standing'
  BY <1>2, <1>7 DEF Standing
<1>12. OneReport' /\ PostedIsFinished'
  BY <1>2 DEF CmdInv, OneReport, PostedIsFinished, OnDisk
<1>13. Working'
  <2>1. \A f \in own' : Put(f) \in Range(todo')
    BY <1>5, <1>6
  <2>2. \A s \in Range(todo') : s.op = "write" => s.file \in own'
    BY <1>5, <1>6
  <2>3. \A s \in Range(todo') : s.op = "remove" => /\ s.file \in ScanFiles \ own'
                                                   /\ files'[s.file].form # "foreign"
    BY <1>2, <1>5, <1>6, <1>7, FilesApart
  <2>4. Ordered(todo')
    BY <1>5, <1>6
  <2> QED
    BY <2>1, <2>2, <2>3, <2>4 DEF Working
<1>14. Scanned'
  <2>1. own' \subseteq ScanFiles
    BY <1>5, <1>6
  <2>2. ASSUME cmd.name = "scan", NEW f \in OnDisk(ScanFiles)' \ own'
        PROVE  Leaving(f)'
    <3>1. f \in ScanFiles \ FilesOf(w)
      BY <1>5, <2>2 DEF OnDisk
    <3> QED
      BY <1>5, <1>6, <2>2, <3>1 DEF Leaving
  <2> QED
    BY <1>2, <2>1, <2>2 DEF Scanned
<1>15. Cleared' /\ Reported' /\ Finished'
  BY <1>2, <1>7 DEF Cleared, Reported, Finished
<1>16. DirectoryIsOneScans' /\ ExitIsEarned'
  BY <1>2 DEF DirectoryIsOneScans, ExitIsEarned
<1> QED
  BY <1>8, <1>9, <1>10, <1>11, <1>12, <1>13, <1>14, <1>15, <1>16 DEF CmdInv, TypeOK

-----------------------------------------------------------------------------
(* Whatever a run does *)

LEMMA CmdInvHolds == Spec => []CmdInv
<1>1. CmdInv /\ [Next]_vars => CmdInv'
  <2> SUFFICES ASSUME CmdInv, [Next]_vars
               PROVE  CmdInv'
    OBVIOUS
  <2>1. CASE Start
    BY <2>1, StartKeeps
  <2>2. CASE Refuse
    BY <2>2, RefuseKeeps
  <2>3. CASE Configure
    BY <2>3, ConfigureKeeps
  <2>4. CASE LookUp
    BY <2>4, LookUpKeeps
  <2>5. CASE Scan
    BY <2>5, ScanKeeps
  <2>6. CASE ScanThrows
    BY <2>6, ScanThrowsKeeps
  <2>7. CASE DoWrite
    BY <2>7, DoWriteKeeps
  <2>8. CASE DoRemove
    BY <2>8, DoRemoveKeeps
  <2>9. CASE DoListPages
    BY <2>9, DoListPagesKeeps
  <2>10. CASE StepFails
    BY <2>10, StepFailsKeeps
  <2>11. CASE ScanReturns
    BY <2>11, ScanReturnsKeeps
  <2>12. CASE ReadSides
    BY <2>12, ReadSidesKeeps
  <2>13. CASE ReadSidesEnds
    BY <2>13, ReadSidesEndsKeeps
  <2>14. CASE DiffReturns
    BY <2>14, DiffReturnsKeeps
  <2>15. CASE Kill
    BY <2>15, KillKeeps
  <2>16. CASE Settle
    BY <2>16, SettleKeeps
  <2>17. CASE UNCHANGED vars
    <3>1. UNCHANGED <<files, n, cmd, at, todo, own, exit, posted>>
      BY <2>17 DEF vars
    <3>2. UNCHANGED <<faulted, tripped, said>>
      BY <2>17 DEF vars
    <3>3. FilesType' /\ RunType' /\ EndType'
      BY <3>1 DEF CmdInv, TypeOK, FilesType, RunType, EndType
    <3>4. FlagType' /\ Blank'
      BY <3>1, <3>2, Zenon DEF CmdInv, TypeOK, FlagType, Blank
    <3>5. Standing' /\ OneReport' /\ PostedIsFinished'
      BY <3>1 DEF CmdInv, Standing, OneReport, PostedIsFinished, OnDisk
    <3>6. Cleared' /\ Reported' /\ Finished' /\ DirectoryIsOneScans'
      BY <3>1 DEF CmdInv, Cleared, Reported, Finished, DirectoryIsOneScans, OnDisk, Whole, FormOf
    <3>7. Working' /\ Scanned'
      BY <3>1 DEF CmdInv, Working, Scanned, Leaving, OnDisk, Whole, FormOf
    <3>8. ExitIsEarned'
      <4>1. (\A f \in own : Whole(f)) => \A f \in own' : Whole(f)'
        BY <3>1 DEF Whole, FormOf
      <4> QED
        BY <3>1, <3>2, <4>1, Zenon DEF CmdInv, ExitIsEarned
    <3> QED
      BY <3>3, <3>4, <3>5, <3>6, <3>7, <3>8 DEF CmdInv, TypeOK
  <2> QED
    BY <2>1, <2>2, <2>3, <2>4, <2>5, <2>6, <2>7, <2>8, <2>9, <2>10, <2>11, <2>12, <2>13, <2>14,
       <2>15, <2>16, <2>17 DEF Next
<1> QED
  BY <1>1, InitCommands, PTL DEF Spec

\* diff.json, diff.md and diff.full.md are of one run, and the action posts only a report its own
\* diff finished: for any number of runs, ended by a return, a throw, an exit or a kill.
THEOREM ReportIsOneRunsHolds == Spec => []ReportIsOneRuns
<1>1. CmdInv => ReportIsOneRuns
  BY DEF CmdInv, ReportIsOneRuns, OneReport, PostedIsFinished
<1> QED
  BY <1>1, CmdInvHolds, PTL

\* A command that returned did all its format asks for, 0 is never a fault's or a gate's, and a
\* gate's exit is never unexplained.
THEOREM ExitIsEarnedHolds == Spec => []ExitIsEarned
<1>1. CmdInv => ExitIsEarned
  BY DEF CmdInv
<1> QED
  BY <1>1, CmdInvHolds, PTL

LEMMA FilesStayRemoveNothing ==
    ASSUME UNCHANGED files
    PROVE  RemovesLast
BY DEF RemovesLast, Absent

LEMMA WriteRemovesNothing ==
    ASSUME CmdInv, todo # <<>>, Head(todo).op = "write", UNCHANGED n,
           NEW form \in {"torn", FormOf(Head(todo).file)},
           files' = [files EXCEPT ![Head(todo).file] = Written(n, form)]
    PROVE  RemovesLast
<1>1. Head(todo).file \in own
  BY WriteKeepsReport
<1>2. Written(n, form) # Absent
  BY DEF Written, Absent, FormOf
<1>3. own \subseteq Files /\ files \in [Files -> Contents]
  BY DEF CmdInv, TypeOK, FilesType, RunType
<1>4. \A f \in Files : files'[f] = Absent => files[f] = Absent
  BY <1>1, <1>2, <1>3
<1>5. \A f \in Files \ {Head(todo).file} : files'[f] = files[f]
  BY <1>3
<1> QED
  BY <1>1, <1>4, <1>5, FilesApart DEF RemovesLast, Absent

LEMMA RemoveRemovesLast ==
    ASSUME CmdInv, DoRemove
    PROVE  RemovesLast
<1>1. PICK f : f = Head(todo).file
  OBVIOUS
<1>2. /\ at \in {"files", "clear"} /\ todo # <<>> /\ Head(todo).op = "remove"
      /\ files' = [files EXCEPT ![f] = Absent]
  BY <1>1 DEF DoRemove
<1>3. todo \in Seq(Step) /\ files \in [Files -> Contents]
  BY DEF CmdInv, TypeOK, FilesType, RunType
<1>4. Head(todo) \in Range(todo) /\ f \in Files
  BY <1>1, <1>2, <1>3, Shift, StepIs
<1>5. \A g \in Files \ {f} : files'[g] = files[g]
  BY <1>2, <1>3
<1>6. CASE at = "clear"
  <2>1. f \in Report
    BY <1>1, <1>4, <1>6 DEF CmdInv, Cleared
  <2>2. \A g \in ScanFiles : files'[g] = files[g]
    BY <1>5, <2>1, FilesApart
  <2> QED
    BY <2>2 DEF RemovesLast, Absent
<1>7. CASE at = "files"
  <2>1. files[f].form # "foreign" /\ Ordered(todo)
    BY <1>1, <1>2, <1>4, <1>7 DEF CmdInv, Working
  <2>2. \A s \in Range(todo) : s.op # "write"
    BY <1>2, <1>3, <2>1, OrderedTail
  <2>3. \A g \in own : Whole(g)
    <3>1. \A g \in own : Whole(g) \/ Put(g) \in Range(todo)
      BY <1>7 DEF CmdInv, Working
    <3>2. \A g : Put(g).op = "write"
      BY DEF Put
    <3> QED
      BY <2>2, <3>1, <3>2
  <2>4. files[f] # Foreign
    BY <2>1 DEF Foreign
  <2>5. \A g \in ScanFiles : files[g] = Foreign => files'[g] = Foreign
    BY <1>5, <2>4, FilesApart
  <2> QED
    BY <2>3, <2>5 DEF RemovesLast
<1> QED
  BY <1>2, <1>6, <1>7

\* A scan takes an earlier one's place file by file, removes what that one left only when all its
\* own files are on disk, and where it returns nothing of the earlier is left.
THEOREM ScanOutputIsOneScansHolds == Spec => ScanOutputIsOneScans
<1>1. CmdInv /\ [Next]_vars => RemovesLast
  <2> SUFFICES ASSUME CmdInv, [Next]_vars
               PROVE  RemovesLast
    OBVIOUS
  <2>1. CASE UNCHANGED files
    BY <2>1, FilesStayRemoveNothing
  <2>2. CASE DoWrite
    <3>1. /\ todo # <<>> /\ Head(todo).op = "write" /\ UNCHANGED n
          /\ files' = [files EXCEPT ![Head(todo).file] = Written(n, FormOf(Head(todo).file))]
      BY <2>2 DEF DoWrite, Stays
    <3> QED
      BY <3>1, WriteRemovesNothing
  <2>3. CASE DoRemove
    BY <2>3, RemoveRemovesLast
  <2>4. CASE StepFails
    <3>1. UNCHANGED n /\ todo # <<>>
      BY <2>4 DEF StepFails, Stays
    <3>2. \/ UNCHANGED files
          \/ /\ Head(todo).op = "write"
             /\ files' = [files EXCEPT ![Head(todo).file] = Written(n, "torn")]
      BY <2>4 DEF StepFails
    <3> QED
      BY <2>1, <3>1, <3>2, WriteRemovesNothing
  <2>5. CASE Kill
    <3>1. UNCHANGED n
      BY <2>5 DEF Kill, Stays
    <3>2. \/ UNCHANGED files
          \/ /\ todo # <<>> /\ Head(todo).op = "write"
             /\ files' = [files EXCEPT ![Head(todo).file] = Written(n, "torn")]
      BY <2>5 DEF Kill
    <3> QED
      BY <2>1, <3>1, <3>2, WriteRemovesNothing
  <2>6. CASE Start \/ Settle \/ DoListPages
    BY <2>1, <2>6 DEF Start, Settle, DoListPages
  <2>7. CASE Refuse \/ Configure \/ LookUp \/ ScanThrows \/ ReadSidesEnds
    BY <2>1, <2>7 DEF Refuse, Configure, LookUp, ScanThrows, ReadSidesEnds, Idle
  <2>8. CASE Scan \/ ReadSides \/ ScanReturns \/ DiffReturns
    BY <2>1, <2>8 DEF Scan, ReadSides, ScanReturns, DiffReturns
  <2>9. CASE UNCHANGED vars
    BY <2>1, <2>9 DEF vars
  <2> QED
    BY <2>2, <2>3, <2>4, <2>5, <2>6, <2>7, <2>8, <2>9 DEF Next
<1>2. CmdInv' => DirectoryIsOneScans'
  BY DEF CmdInv
<1>3. CmdInv /\ CmdInv' /\ [Next]_vars => [RemovesLast /\ DirectoryIsOneScans']_vars
  BY <1>1, <1>2
<1> QED
  BY <1>3, CmdInvHolds, PTL DEF Spec, ScanOutputIsOneScans

===============================================================================
