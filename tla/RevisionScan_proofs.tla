------------------------- MODULE RevisionScan_proofs -------------------------
(***************************************************************************)
(* Proofs about RevisionScan, for any number of log lines, either way of   *)
(* scanning and signals at any point: what the run leaves on disk, and     *)
(* that the concurrent run implements ScanInTurn, the run in turn.         *)
(***************************************************************************)
EXTENDS RevisionScan, FiniteSetTheorems, SequenceTheorems, TLAPS

BaseDone == {"done", "failed", "died"}

\* What of the checkout stands at each place of the main thread.
Standing ==
    /\ main \in {"preflight", "mkdtemp", "register"} =>
         checkout = "absent" /\ ~listening /\ (temp <=> main = "register")
    /\ main = "add" => checkout = "adding" /\ listening /\ temp
    /\ main \in Scanning \cup {"remove worktree"} => checkout = "present" /\ listening /\ temp
    /\ main \in {"remove temp", "release signals"} =>
         listening /\ (checkout = "absent" \/ "worktree" \in warned)
    /\ main \in {"remove temp", "release signals", "returned"} => checkout # "adding"
    /\ main = "release signals" => (temp => "temp" \in warned)

\* What a signal leaves of it.
Interrupted ==
    /\ main \in Cleanup \cup {"signalled"} => signals # 0
    /\ checkout = "adding" => main = "add" \/ addCut
    /\ main \in {"cleanup temp", "reraise", "signalled", "returned"} /\ ~addCut =>
         checkout = "absent" \/ "worktree" \in warned
    /\ main \in {"reraise", "signalled", "returned"} /\ ~addCut => (temp => "temp" \in warned)
    /\ main = "killed" /\ signals = 1 => checkout = "absent"
    /\ signals = 0 => main \notin Cleanup \cup {"signalled", "killed"}
    /\ signals # 0 => main \in Cleanup \cup {"signalled", "killed"}

\* Where the scans stand at each place of the main thread.
Scans ==
    /\ main \in Before => base = "idle" /\ head = "idle"
    /\ \A i \in DOMAIN channel : channel[i].kind # "log" => base \in BaseDone
    /\ baseResult # "none" => base \in BaseDone
    /\ main \in Scanning \ {"scan"} => baseResult # "none"
    /\ ~parallel /\ main \in {"scan", "base read"} => head = "idle"
    /\ main = "head read" => head = "done"
    /\ main = "wait head" => parallel
    /\ main \in Finally => base # "running" /\ head # "running"

\* The lines kept back are the head's so far, until they are released.
Kinds == {"log", "incidents", "stray", "thread", "done", "failed", "error", "exit"}
Lines == [side : {"base", "head", "both"}, kind : Kinds, n : Nat]
Held ==
    /\ channel \in Seq(Lines) /\ held \in Seq(Lines) /\ spoken \in Seq(Lines)
    /\ ~released => Len(held) = headLogged

CheckoutInv == TypeOK /\ Standing /\ Interrupted /\ Scans /\ Held

-----------------------------------------------------------------------------
LEMMA InitCheckout == Init => CheckoutInv
<1> SUFFICES ASSUME Init PROVE CheckoutInv
  OBVIOUS
<1>1. TypeOK
  <2>1. RunType
    BY DEF Init, RunType, Before
  <2>2. signals \in 0..2
    BY DEF Init
  <2>3. BaseType
    BY ScanLinesAssumption DEF Init, BaseType
  <2>4. HeadType
    <3>1. released \in BOOLEAN /\ (released => held = <<>>)
      BY DEF Init
    <3>2. headLogged \in 0..HeadLines /\ Len(held) <= headLogged
      BY ScanLinesAssumption DEF Init
    <3> QED
      BY <3>1, <3>2 DEF Init, HeadType
  <2> QED
    BY <2>1, <2>2, <2>3, <2>4 DEF TypeOK
<1>2. Scans
  BY DEF Init, Scans, Scanning, Finally, Before
<1>3. Held
  BY DEF Init, Held
<1> QED
  BY <1>1, <1>2, <1>3 DEF Init, CheckoutInv, Standing, Interrupted, Before, Scanning, Finally,
                          Cleanup, Stopped

\* A step of the main thread alone.
LEMMA DataStays ==
    ASSUME CheckoutInv, UNCHANGED <<signals, baseVars, headVars, spoken>>
    PROVE  BaseType' /\ HeadType' /\ (signals \in 0..2)' /\ Held'
<1>1. BaseType'
  BY DEF CheckoutInv, TypeOK, BaseType, baseVars
<1>2. HeadType'
  BY DEF CheckoutInv, TypeOK, HeadType, headVars
<1>3. (signals \in 0..2)'
  BY DEF CheckoutInv, TypeOK
<1>4. Held'
  BY DEF CheckoutInv, Held, baseVars, headVars
<1> QED
  BY <1>1, <1>2, <1>3, <1>4

LEMMA PreflightKeeps ==
    ASSUME CheckoutInv, NEW ok \in BOOLEAN, Preflight(ok)
    PROVE  CheckoutInv'
<1>1. RunType'
  BY DEF CheckoutInv, TypeOK, RunType, Before, Scanning, Finally, Cleanup,
         Stopped, cleanupVars, Preflight
<1>2. Standing' /\ Interrupted'
  BY DEF CheckoutInv, TypeOK, RunType, Standing, Interrupted, Before, Scanning, Finally, Cleanup,
         Stopped, cleanupVars, Preflight
<1>3. Scans'
  BY DEF CheckoutInv, TypeOK, BaseType, Scans, BaseDone, Before, Scanning, Finally, Cleanup,
         Stopped, baseVars, headVars, Preflight
<1>4. UNCHANGED <<signals, baseVars, headVars, spoken>>
  BY DEF cleanupVars, Preflight
<1> QED
  BY <1>1, <1>2, <1>3, <1>4, DataStays DEF CheckoutInv, TypeOK

LEMMA MkdtempKeeps ==
    ASSUME CheckoutInv, Mkdtemp
    PROVE  CheckoutInv'
<1>1. RunType'
  BY DEF CheckoutInv, TypeOK, RunType, Before, Scanning, Finally, Cleanup,
         Stopped, cleanupVars, Mkdtemp
<1>2. Standing' /\ Interrupted'
  BY DEF CheckoutInv, TypeOK, RunType, Standing, Interrupted, Before, Scanning, Finally, Cleanup,
         Stopped, cleanupVars, Mkdtemp
<1>3. Scans'
  BY DEF CheckoutInv, TypeOK, BaseType, Scans, BaseDone, Before, Scanning, Finally, Cleanup,
         Stopped, baseVars, headVars, Mkdtemp
<1>4. UNCHANGED <<signals, baseVars, headVars, spoken>>
  BY DEF cleanupVars, Mkdtemp
<1> QED
  BY <1>1, <1>2, <1>3, <1>4, DataStays DEF CheckoutInv, TypeOK

LEMMA RegisterKeeps ==
    ASSUME CheckoutInv, Register
    PROVE  CheckoutInv'
<1>1. RunType'
  BY DEF CheckoutInv, TypeOK, RunType, Before, Scanning, Finally, Cleanup,
         Stopped, cleanupVars, Register
<1>2. Standing' /\ Interrupted'
  BY DEF CheckoutInv, TypeOK, RunType, Standing, Interrupted, Before, Scanning, Finally, Cleanup,
         Stopped, cleanupVars, Register
<1>3. Scans'
  BY DEF CheckoutInv, TypeOK, BaseType, Scans, BaseDone, Before, Scanning, Finally, Cleanup,
         Stopped, baseVars, headVars, Register
<1>4. UNCHANGED <<signals, baseVars, headVars, spoken>>
  BY DEF cleanupVars, Register
<1> QED
  BY <1>1, <1>2, <1>3, <1>4, DataStays DEF CheckoutInv, TypeOK

LEMMA AddEndsKeeps ==
    ASSUME CheckoutInv, NEW ok \in BOOLEAN, AddEnds(ok)
    PROVE  CheckoutInv'
<1>1. TypeOK'
  <2>1. RunType'
    BY DEF CheckoutInv, TypeOK, RunType, Before, Scanning, Finally, Cleanup, Stopped, cleanupVars,
           AddEnds
  <2>2. BaseType'
    BY DEF CheckoutInv, TypeOK, BaseType, baseVars, AddEnds
  <2>3. HeadType'
    BY DEF CheckoutInv, TypeOK, HeadType, headVars, AddEnds
  <2>4. (signals \in 0..2)'
    BY DEF CheckoutInv, TypeOK, cleanupVars, AddEnds
  <2> QED
    BY <2>1, <2>2, <2>3, <2>4 DEF TypeOK
<1>2. Standing'
  BY DEF CheckoutInv, TypeOK, RunType, Standing, Interrupted, Before, Scanning, Finally, Cleanup,
         Stopped, cleanupVars, baseVars,
         headVars, AddEnds
<1>3. Interrupted'
  BY DEF CheckoutInv, TypeOK, RunType, Standing, Interrupted, Before, Scanning, Finally, Cleanup,
         Stopped, cleanupVars, baseVars,
         headVars, AddEnds
<1>4. Scans'
  BY DEF CheckoutInv, TypeOK, BaseType, Interrupted, Scans, Held, BaseDone, Before, Scanning,
         Finally, Cleanup, Stopped, cleanupVars, baseVars,
         headVars, AddEnds
<1>5. Held'
  BY DEF CheckoutInv, Held, cleanupVars, baseVars, headVars, AddEnds
<1> QED
  BY <1>1, <1>2, <1>3, <1>4, <1>5 DEF CheckoutInv

LEMMA RemoveWorktreeKeeps ==
    ASSUME CheckoutInv, NEW ok \in BOOLEAN, RemoveWorktree(ok)
    PROVE  CheckoutInv'
<1>1. RunType'
  BY DEF CheckoutInv, TypeOK, RunType, Before, Scanning, Finally, Cleanup,
         Stopped, cleanupVars, RemoveWorktree
<1>2. Standing' /\ Interrupted'
  BY DEF CheckoutInv, TypeOK, RunType, Standing, Interrupted, Before, Scanning, Finally, Cleanup,
         Stopped, cleanupVars, RemoveWorktree
<1>3. Scans'
  BY DEF CheckoutInv, TypeOK, BaseType, Scans, BaseDone, Before, Scanning, Finally, Cleanup,
         Stopped, baseVars, headVars, RemoveWorktree
<1>4. UNCHANGED <<signals, baseVars, headVars, spoken>>
  BY DEF cleanupVars, RemoveWorktree
<1> QED
  BY <1>1, <1>2, <1>3, <1>4, DataStays DEF CheckoutInv, TypeOK

LEMMA RemoveTempKeeps ==
    ASSUME CheckoutInv, NEW ok \in BOOLEAN, RemoveTemp(ok)
    PROVE  CheckoutInv'
<1>1. RunType'
  BY DEF CheckoutInv, TypeOK, RunType, Before, Scanning, Finally, Cleanup,
         Stopped, cleanupVars, RemoveTemp
<1>2. Standing' /\ Interrupted'
  BY DEF CheckoutInv, TypeOK, RunType, Standing, Interrupted, Before, Scanning, Finally, Cleanup,
         Stopped, cleanupVars, RemoveTemp
<1>3. Scans'
  BY DEF CheckoutInv, TypeOK, BaseType, Scans, BaseDone, Before, Scanning, Finally, Cleanup,
         Stopped, baseVars, headVars, RemoveTemp
<1>4. UNCHANGED <<signals, baseVars, headVars, spoken>>
  BY DEF cleanupVars, RemoveTemp
<1> QED
  BY <1>1, <1>2, <1>3, <1>4, DataStays DEF CheckoutInv, TypeOK

LEMMA ReleaseSignalsKeeps ==
    ASSUME CheckoutInv, ReleaseSignals
    PROVE  CheckoutInv'
<1>1. RunType'
  BY DEF CheckoutInv, TypeOK, RunType, Before, Scanning, Finally, Cleanup,
         Stopped, cleanupVars, ReleaseSignals
<1>2. Standing' /\ Interrupted'
  BY DEF CheckoutInv, TypeOK, RunType, Standing, Interrupted, Before, Scanning, Finally, Cleanup,
         Stopped, cleanupVars, ReleaseSignals
<1>3. Scans'
  BY DEF CheckoutInv, TypeOK, BaseType, Scans, BaseDone, Before, Scanning, Finally, Cleanup,
         Stopped, baseVars, headVars, ReleaseSignals
<1>4. UNCHANGED <<signals, baseVars, headVars, spoken>>
  BY DEF cleanupVars, ReleaseSignals
<1> QED
  BY <1>1, <1>2, <1>3, <1>4, DataStays DEF CheckoutInv, TypeOK

LEMMA CleanupWorktreeKeeps ==
    ASSUME CheckoutInv, NEW ok \in BOOLEAN, CleanupWorktree(ok)
    PROVE  CheckoutInv'
<1>1. RunType'
  BY DEF CheckoutInv, TypeOK, RunType, Before, Scanning, Finally, Cleanup,
         Stopped, cleanupVars, CleanupWorktree
<1>2. Standing' /\ Interrupted'
  BY DEF CheckoutInv, TypeOK, RunType, Standing, Interrupted, Before, Scanning, Finally, Cleanup,
         Stopped, cleanupVars, CleanupWorktree
<1>3. Scans'
  BY DEF CheckoutInv, TypeOK, BaseType, Scans, BaseDone, Before, Scanning, Finally, Cleanup,
         Stopped, baseVars, headVars, CleanupWorktree
<1>4. UNCHANGED <<signals, baseVars, headVars, spoken>>
  BY DEF cleanupVars, CleanupWorktree
<1> QED
  BY <1>1, <1>2, <1>3, <1>4, DataStays DEF CheckoutInv, TypeOK

LEMMA CleanupTempKeeps ==
    ASSUME CheckoutInv, NEW ok \in BOOLEAN, CleanupTemp(ok)
    PROVE  CheckoutInv'
<1>1. RunType'
  BY DEF CheckoutInv, TypeOK, RunType, Before, Scanning, Finally, Cleanup,
         Stopped, cleanupVars, CleanupTemp
<1>2. Standing' /\ Interrupted'
  BY DEF CheckoutInv, TypeOK, RunType, Standing, Interrupted, Before, Scanning, Finally, Cleanup,
         Stopped, cleanupVars, CleanupTemp
<1>3. Scans'
  BY DEF CheckoutInv, TypeOK, BaseType, Scans, BaseDone, Before, Scanning, Finally, Cleanup,
         Stopped, baseVars, headVars, CleanupTemp
<1>4. UNCHANGED <<signals, baseVars, headVars, spoken>>
  BY DEF cleanupVars, CleanupTemp
<1> QED
  BY <1>1, <1>2, <1>3, <1>4, DataStays DEF CheckoutInv, TypeOK

LEMMA ReraiseKeeps ==
    ASSUME CheckoutInv, Reraise
    PROVE  CheckoutInv'
<1>1. RunType'
  BY DEF CheckoutInv, TypeOK, RunType, Before, Scanning, Finally, Cleanup,
         Stopped, cleanupVars, Reraise
<1>2. Standing' /\ Interrupted'
  BY DEF CheckoutInv, TypeOK, RunType, Standing, Interrupted, Before, Scanning, Finally, Cleanup,
         Stopped, cleanupVars, Reraise
<1>3. Scans'
  BY DEF CheckoutInv, TypeOK, BaseType, Scans, BaseDone, Before, Scanning, Finally, Cleanup,
         Stopped, baseVars, headVars, Reraise
<1>4. UNCHANGED <<signals, baseVars, headVars, spoken>>
  BY DEF cleanupVars, Reraise
<1> QED
  BY <1>1, <1>2, <1>3, <1>4, DataStays DEF CheckoutInv, TypeOK

LEMMA SignalKeeps ==
    ASSUME CheckoutInv, Signal
    PROVE  CheckoutInv'
<1>0. signals' \in 0..2 /\ signals' # 0 /\ (signals' = 1 => signals = 0)
  <2>1. signals \in 0..2 /\ signals < 2 /\ signals' = signals + 1
    BY DEF CheckoutInv, TypeOK, Signal
  <2> QED
    BY <2>1
<1>1. TypeOK'
  <2>1. RunType'
    <3>1. addCut' \in BOOLEAN
      BY Zenon DEF Signal
    <3> QED
      BY <3>1 DEF CheckoutInv, TypeOK, RunType, Before, Scanning, Finally, Cleanup, Stopped, Signal
  <2>2. BaseType'
    BY DEF CheckoutInv, TypeOK, BaseType, baseVars, Signal
  <2>3. HeadType'
    BY DEF CheckoutInv, TypeOK, HeadType, headVars, Signal
  <2> QED
    BY <1>0, <2>1, <2>2, <2>3 DEF TypeOK
<1>2. Standing'
  BY DEF CheckoutInv, TypeOK, RunType, Standing, Before, Scanning, Finally, Cleanup, Stopped, Signal
<1>3. Interrupted'
  <2>1. main \in Before \cup Scanning \cup Finally \cup Cleanup
    BY DEF CheckoutInv, TypeOK, RunType, Signal
  <2>2. CASE listening
    <3>1. main' = "cleanup worktree" /\ checkout' = checkout
      BY <2>2 DEF Signal
    <3>2. checkout = "adding" => addCut'
      BY <2>2, Zenon DEF Signal
    <3> QED
      BY <1>0, <3>1, <3>2 DEF Interrupted, Cleanup
  <2>3. CASE ~listening
    <3>1. main' = "killed" /\ checkout' = checkout
      BY <2>3 DEF Signal
    <3>2. addCut => addCut'
      BY Zenon DEF Signal
    <3>3. main = "add" => listening
      BY DEF CheckoutInv, Standing
    <3>4. signals = 0 => checkout = "absent"
      BY <2>1, <2>3 DEF CheckoutInv, Standing, Interrupted, Before, Scanning, Finally, Cleanup
    <3>5. checkout = "adding" => addCut'
      BY <2>3, <3>2, <3>3 DEF CheckoutInv, Interrupted
    <3> QED
      BY <1>0, <3>1, <3>4, <3>5 DEF Interrupted, Cleanup
  <2> QED
    BY <2>2, <2>3
<1>4. Scans'
  BY DEF CheckoutInv, TypeOK, BaseType, Interrupted, Scans, Held, BaseDone, Before, Scanning,
         Finally, Cleanup, Stopped, baseVars,
         headVars, Signal
<1>5. Held'
  BY DEF CheckoutInv, Held, baseVars, headVars, Signal
<1> QED
  BY <1>1, <1>2, <1>3, <1>4, <1>5 DEF CheckoutInv

LEMMA GitOutlivesKeeps ==
    ASSUME CheckoutInv, GitOutlives
    PROVE  CheckoutInv'
<1>1. RunType'
  BY DEF CheckoutInv, TypeOK, RunType, Before, Scanning, Finally, Cleanup,
         Stopped, cleanupVars, GitOutlives
<1>2. Standing' /\ Interrupted'
  BY DEF CheckoutInv, TypeOK, RunType, Standing, Interrupted, Before, Scanning, Finally, Cleanup,
         Stopped, cleanupVars, GitOutlives
<1>3. Scans'
  BY DEF CheckoutInv, TypeOK, BaseType, Scans, BaseDone, Before, Scanning, Finally, Cleanup,
         Stopped, baseVars, headVars, GitOutlives
<1>4. UNCHANGED <<signals, baseVars, headVars, spoken>>
  BY DEF cleanupVars, GitOutlives
<1> QED
  BY <1>1, <1>2, <1>3, <1>4, DataStays DEF CheckoutInv, TypeOK

LEMMA BaseFailsKeeps ==
    ASSUME CheckoutInv, BaseFails
    PROVE  CheckoutInv'
<1>1. RunType'
  BY DEF CheckoutInv, TypeOK, RunType, Before, Scanning, Finally, Cleanup,
         Stopped, cleanupVars, BaseFails, BaseFailure
<1>2. Standing' /\ Interrupted'
  BY DEF CheckoutInv, TypeOK, RunType, Standing, Interrupted, Before, Scanning, Finally, Cleanup,
         Stopped, cleanupVars, BaseFails, BaseFailure
<1>3. Scans'
  BY DEF CheckoutInv, TypeOK, BaseType, Scans, BaseDone, Before, Scanning, Finally, Cleanup,
         Stopped, baseVars, headVars, BaseFails, BaseFailure
<1>4. UNCHANGED <<signals, baseVars, headVars, spoken>>
  BY DEF cleanupVars, BaseFails, BaseFailure
<1> QED
  BY <1>1, <1>2, <1>3, <1>4, DataStays DEF CheckoutInv, TypeOK

LEMMA BaseUnreadableKeeps ==
    ASSUME CheckoutInv, BaseUnreadable
    PROVE  CheckoutInv'
<1>1. RunType'
  BY DEF CheckoutInv, TypeOK, RunType, Before, Scanning, Finally, Cleanup,
         Stopped, cleanupVars, BaseUnreadable, BaseFailure
<1>2. Standing' /\ Interrupted'
  BY DEF CheckoutInv, TypeOK, RunType, Standing, Interrupted, Before, Scanning, Finally, Cleanup,
         Stopped, cleanupVars, BaseUnreadable, BaseFailure
<1>3. Scans'
  BY DEF CheckoutInv, TypeOK, BaseType, Scans, BaseDone, Before, Scanning, Finally, Cleanup,
         Stopped, baseVars, headVars, BaseUnreadable, BaseFailure
<1>4. UNCHANGED <<signals, baseVars, headVars, spoken>>
  BY DEF cleanupVars, BaseUnreadable, BaseFailure
<1> QED
  BY <1>1, <1>2, <1>3, <1>4, DataStays DEF CheckoutInv, TypeOK

LEMMA WaitHeadKeeps ==
    ASSUME CheckoutInv, WaitHead
    PROVE  CheckoutInv'
<1>1. RunType'
  BY DEF CheckoutInv, TypeOK, RunType, Before, Scanning, Finally, Cleanup,
         Stopped, cleanupVars, WaitHead, HeadStopped
<1>2. Standing' /\ Interrupted'
  BY DEF CheckoutInv, TypeOK, RunType, Standing, Interrupted, Before, Scanning, Finally, Cleanup,
         Stopped, cleanupVars, WaitHead, HeadStopped
<1>3. Scans'
  BY DEF CheckoutInv, TypeOK, BaseType, Scans, BaseDone, Before, Scanning, Finally, Cleanup,
         Stopped, baseVars, headVars, WaitHead, HeadStopped
<1>4. UNCHANGED <<signals, baseVars, headVars, spoken>>
  BY DEF cleanupVars, WaitHead, HeadStopped
<1> QED
  BY <1>1, <1>2, <1>3, <1>4, DataStays DEF CheckoutInv, TypeOK

LEMMA HeadFailsKeeps ==
    ASSUME CheckoutInv, HeadFails
    PROVE  CheckoutInv'
<1>1. RunType'
  BY DEF CheckoutInv, TypeOK, RunType, Before, Scanning, Finally, Cleanup,
         Stopped, cleanupVars, HeadFails
<1>2. Standing' /\ Interrupted'
  BY DEF CheckoutInv, TypeOK, RunType, Standing, Interrupted, Before, Scanning, Finally, Cleanup,
         Stopped, cleanupVars, HeadFails
<1>3. Scans'
  BY DEF CheckoutInv, TypeOK, BaseType, Scans, BaseDone, Before, Scanning, Finally, Cleanup,
         Stopped, baseVars, headVars, HeadFails
<1>4. UNCHANGED <<signals, baseVars, headVars, spoken>>
  BY DEF cleanupVars, HeadFails
<1> QED
  BY <1>1, <1>2, <1>3, <1>4, DataStays DEF CheckoutInv, TypeOK

LEMMA HeadReadKeeps ==
    ASSUME CheckoutInv, HeadRead
    PROVE  CheckoutInv'
<1>1. RunType'
  BY DEF CheckoutInv, TypeOK, RunType, Before, Scanning, Finally, Cleanup,
         Stopped, cleanupVars, HeadRead
<1>2. Standing' /\ Interrupted'
  BY DEF CheckoutInv, TypeOK, RunType, Standing, Interrupted, Before, Scanning, Finally, Cleanup,
         Stopped, cleanupVars, HeadRead
<1>3. Scans'
  BY DEF CheckoutInv, TypeOK, BaseType, Scans, BaseDone, Before, Scanning, Finally, Cleanup,
         Stopped, baseVars, headVars, HeadRead
<1>4. UNCHANGED <<signals, baseVars, headVars, spoken>>
  BY DEF cleanupVars, HeadRead
<1> QED
  BY <1>1, <1>2, <1>3, <1>4, DataStays DEF CheckoutInv, TypeOK

-----------------------------------------------------------------------------
(* The steps that say or send something *)

LEMMA LineIsALine ==
    ASSUME NEW side \in {"base", "head", "both"}, NEW kind \in Kinds, NEW n \in Nat
    PROVE  Turn!Line(side, kind, n) \in Lines
BY DEF Turn!Line, Lines

LEMMA ReportIsLines ==
    ASSUME NEW side \in {"base", "head"}, NEW lines
    PROVE  Turn!Report(side, lines) \in Seq(Lines)
<1>1. Turn!Line(side, "incidents", 0) \in Lines /\ Turn!Line("both", "stray", 0) \in Lines
  BY LineIsALine DEF Kinds
<1>2. <<Turn!Line(side, "incidents", 0)>> \in Seq(Lines)
      /\ <<Turn!Line("both", "stray", 0)>> \in Seq(Lines) /\ <<>> \in Seq(Lines)
  BY <1>1
<1> QED
  BY <1>2, ConcatProperties DEF Turn!Report

LEMMA ReportBaseKeeps ==
    ASSUME CheckoutInv, ReportBase
    PROVE  CheckoutInv'
<1>1. TypeOK'
  <2>1. RunType'
    BY DEF CheckoutInv, TypeOK, RunType, Before, Scanning, cleanupVars, ReportBase
  <2>2. BaseType'
    BY DEF CheckoutInv, TypeOK, BaseType, baseVars, ReportBase
  <2>3. HeadType'
    BY DEF CheckoutInv, TypeOK, HeadType, headVars, ReportBase
  <2>4. (signals \in 0..2)'
    BY DEF CheckoutInv, TypeOK, cleanupVars, ReportBase
  <2> QED
    BY <2>1, <2>2, <2>3, <2>4 DEF TypeOK
<1>2. Standing'
  BY DEF CheckoutInv, Standing, Scanning, cleanupVars, ReportBase
<1>3. Interrupted'
  BY DEF CheckoutInv, Interrupted, Cleanup, cleanupVars, ReportBase
<1>4. Scans'
  BY DEF CheckoutInv, Scans, Before, Scanning, Finally, baseVars, headVars, ReportBase
<1>5. Held'
  <2>1. spoken' \in Seq(Lines)
    BY ReportIsLines, ConcatProperties DEF CheckoutInv, Held, ReportBase
  <2> QED
    BY <2>1 DEF CheckoutInv, Held, baseVars, headVars, ReportBase
<1> QED
  BY <1>1, <1>2, <1>3, <1>4, <1>5 DEF CheckoutInv

LEMMA ReportHeadKeeps ==
    ASSUME CheckoutInv, ReportHead
    PROVE  CheckoutInv'
<1>1. TypeOK'
  <2>1. RunType'
    BY DEF CheckoutInv, TypeOK, RunType, Before, Scanning, cleanupVars, ReportHead
  <2>2. BaseType'
    BY DEF CheckoutInv, TypeOK, BaseType, baseVars, ReportHead
  <2>3. HeadType'
    BY DEF CheckoutInv, TypeOK, HeadType, headVars, ReportHead
  <2>4. (signals \in 0..2)'
    BY DEF CheckoutInv, TypeOK, cleanupVars, ReportHead
  <2> QED
    BY <2>1, <2>2, <2>3, <2>4 DEF TypeOK
<1>2. Standing'
  BY DEF CheckoutInv, Standing, Scanning, cleanupVars, ReportHead
<1>3. Interrupted'
  BY DEF CheckoutInv, Interrupted, Cleanup, cleanupVars, ReportHead
<1>4. Scans'
  BY DEF CheckoutInv, Scans, Before, Scanning, Finally, baseVars, headVars, ReportHead
<1>5. Held'
  <2>1. spoken' \in Seq(Lines)
    BY ReportIsLines, ConcatProperties DEF CheckoutInv, Held, ReportHead
  <2> QED
    BY <2>1 DEF CheckoutInv, Held, baseVars, headVars, ReportHead
<1> QED
  BY <1>1, <1>2, <1>3, <1>4, <1>5 DEF CheckoutInv

LEMMA BaseReadKeeps ==
    ASSUME CheckoutInv, BaseRead
    PROVE  CheckoutInv'
<1>1. TypeOK'
  <2>1. RunType'
    BY DEF CheckoutInv, TypeOK, RunType, Before, Scanning, cleanupVars, BaseRead
  <2>2. BaseType'
    BY DEF CheckoutInv, TypeOK, BaseType, baseVars, BaseRead
  <2>3. HeadType'
    <3>1. headLogged' \in 0..HeadLines /\ held' = <<>>
      BY DEF CheckoutInv, TypeOK, HeadType, BaseRead
    <3>2. Len(held') <= headLogged'
      BY <3>1, ScanLinesAssumption
    <3>3. head' \in {"idle", "running", "done", "failed"} /\ released' \in BOOLEAN
      BY DEF CheckoutInv, TypeOK, HeadType, BaseRead
    <3> QED
      BY <3>1, <3>2, <3>3, Zenon DEF HeadType
  <2>4. (signals \in 0..2)'
    BY DEF CheckoutInv, TypeOK, cleanupVars, BaseRead
  <2> QED
    BY <2>1, <2>2, <2>3, <2>4 DEF TypeOK
<1>2. Standing'
  BY DEF CheckoutInv, Standing, Scanning, cleanupVars, BaseRead
<1>3. Interrupted'
  BY DEF CheckoutInv, Interrupted, Cleanup, cleanupVars, BaseRead
<1>4. Scans'
  BY DEF CheckoutInv, Scans, Before, Scanning, Finally, baseVars, BaseRead
<1>5. Held'
  <2>1. spoken' \in Seq(Lines) /\ held' \in Seq(Lines)
    <3>1. spoken \in Seq(Lines) /\ held \in Seq(Lines)
      BY DEF CheckoutInv, Held
    <3>2. spoken' = spoken \o held /\ held' = <<>>
      BY DEF BaseRead
    <3> QED
      BY <3>1, <3>2, ConcatProperties
  <2>2. channel' \in Seq(Lines)
    BY DEF CheckoutInv, Held, baseVars, BaseRead
  <2>3. released'
    BY DEF BaseRead
  <2> QED
    BY <2>1, <2>2, <2>3, Zenon DEF Held
<1> QED
  BY <1>1, <1>2, <1>3, <1>4, <1>5 DEF CheckoutInv

LEMMA Appended ==
    ASSUME NEW lines \in Seq(Lines), NEW line \in Lines
    PROVE  /\ Append(lines, line) \in Seq(Lines)
           /\ Len(Append(lines, line)) = Len(lines) + 1
           /\ \A i \in DOMAIN Append(lines, line) :
                \/ i \in DOMAIN lines /\ Append(lines, line)[i] = lines[i]
                \/ i = Len(lines) + 1 /\ Append(lines, line)[i] = line
OBVIOUS

LEMMA Taken ==
    ASSUME NEW lines \in Seq(Lines), lines # <<>>
    PROVE  /\ Tail(lines) \in Seq(Lines) /\ Head(lines) \in Lines
           /\ Head(lines) = lines[1] /\ 1 \in DOMAIN lines
           /\ \A i \in DOMAIN Tail(lines) : i + 1 \in DOMAIN lines /\ Tail(lines)[i] = lines[i + 1]
OBVIOUS

LEMMA BaseLogsKeeps ==
    ASSUME CheckoutInv, BaseLogs
    PROVE  CheckoutInv'
<1> DEFINE line == Turn!Line("base", "log", baseLogged + 1)
<1>1. baseLogged \in Nat /\ baseLogged + 1 \in 0..BaseLines /\ baseLogged' = baseLogged + 1
  BY ScanLinesAssumption DEF CheckoutInv, TypeOK, BaseType, BaseLogs
<1>2. line \in Lines
  BY <1>1, LineIsALine DEF Kinds
<1>3. line.side = "base" /\ line.kind = "log"
  BY DEF Turn!Line
<1>4. channel \in Seq(Lines) /\ held \in Seq(Lines) /\ spoken \in Seq(Lines)
  BY DEF CheckoutInv, Held
<1>5. \/ channel' = Append(channel, line) /\ spoken' = spoken
      \/ channel' = channel /\ spoken' = Append(spoken, line)
  BY DEF BaseLogs
<1> HIDE DEF line
<1>6. /\ channel' \in Seq(Lines) /\ spoken' \in Seq(Lines)
      /\ \A i \in DOMAIN channel' :
           \/ i \in DOMAIN channel /\ channel'[i] = channel[i]
           \/ channel'[i] = line
  <2>1. CASE channel' = Append(channel, line) /\ spoken' = spoken
    BY <1>2, <1>4, <2>1, Appended
  <2>2. CASE channel' = channel /\ spoken' = Append(spoken, line)
    BY <1>2, <1>4, <2>2, Appended
  <2> QED
    BY <1>5, <2>1, <2>2
<1>7. TypeOK'
  <2>1. RunType'
    BY DEF CheckoutInv, TypeOK, RunType, cleanupVars, BaseLogs
  <2>2. BaseType'
    <3>1. \A i \in DOMAIN channel' : channel'[i].side = "base" /\ channel'[i].kind \in Messages
      BY <1>3, <1>6 DEF CheckoutInv, TypeOK, BaseType, Messages
    <3>2. base' \in {"idle", "running", "done", "failed", "died"}
          /\ baseResult' \in {"none", "done", "failed", "died"}
      BY DEF CheckoutInv, TypeOK, BaseType, BaseLogs
    <3> QED
      BY <1>1, <3>1, <3>2 DEF BaseType
  <2>3. HeadType'
    BY DEF CheckoutInv, TypeOK, HeadType, headVars, BaseLogs
  <2>4. (signals \in 0..2)'
    BY DEF CheckoutInv, TypeOK, cleanupVars, BaseLogs
  <2> QED
    BY <2>1, <2>2, <2>3, <2>4 DEF TypeOK
<1>8. Standing'
  BY DEF CheckoutInv, Standing, cleanupVars, BaseLogs
<1>9. Interrupted'
  BY DEF CheckoutInv, Interrupted, cleanupVars, BaseLogs
<1>10. Scans'
  <2>1. \A i \in DOMAIN channel' : channel'[i].kind # "log" => base' \in BaseDone
    BY <1>3, <1>6 DEF CheckoutInv, Scans, BaseLogs
  <2> QED
    BY <2>1 DEF CheckoutInv, Scans, headVars, BaseLogs
<1>11. Held'
  BY <1>6 DEF CheckoutInv, Held, headVars, BaseLogs
<1> QED
  BY <1>7, <1>8, <1>9, <1>10, <1>11 DEF CheckoutInv

LEMMA BaseEndsKeeps ==
    ASSUME CheckoutInv, NEW how \in {"done", "failed"}, BaseEnds(how)
    PROVE  CheckoutInv'
<1> DEFINE line == Turn!Line("base", how, 0)
<1>2. line \in Lines
  BY LineIsALine DEF Kinds
<1>3. line.side = "base" /\ line.kind \in Messages
  BY DEF Turn!Line, Messages
<1>4. channel \in Seq(Lines) /\ held \in Seq(Lines) /\ spoken \in Seq(Lines)
  BY DEF CheckoutInv, Held
<1>5. channel' = Append(channel, line) \/ channel' = channel
  BY DEF BaseEnds
<1> HIDE DEF line
<1>6. /\ channel' \in Seq(Lines)
      /\ \A i \in DOMAIN channel' :
           \/ i \in DOMAIN channel /\ channel'[i] = channel[i]
           \/ channel'[i] = line
  BY <1>2, <1>4, <1>5, Appended
<1>7. base' \in BaseDone /\ baseResult' \in {"none", "done", "failed", "died"}
      /\ (baseResult # "none" => baseResult' # "none")
  BY DEF CheckoutInv, TypeOK, BaseType, BaseEnds, BaseDone
<1>8. TypeOK'
  <2>1. RunType'
    BY DEF CheckoutInv, TypeOK, RunType, cleanupVars, BaseEnds
  <2>2. BaseType'
    <3>1. \A i \in DOMAIN channel' : channel'[i].side = "base" /\ channel'[i].kind \in Messages
      BY <1>3, <1>6 DEF CheckoutInv, TypeOK, BaseType
    <3>2. baseLogged' \in 0..BaseLines
      BY DEF CheckoutInv, TypeOK, BaseType, BaseEnds
    <3> QED
      BY <1>7, <3>1, <3>2 DEF BaseType, BaseDone
  <2>3. HeadType'
    BY DEF CheckoutInv, TypeOK, HeadType, headVars, BaseEnds
  <2>4. (signals \in 0..2)'
    BY DEF CheckoutInv, TypeOK, cleanupVars, BaseEnds
  <2> QED
    BY <2>1, <2>2, <2>3, <2>4 DEF TypeOK
<1>9. Standing'
  BY DEF CheckoutInv, Standing, cleanupVars, BaseEnds
<1>10. Interrupted'
  BY DEF CheckoutInv, Interrupted, cleanupVars, BaseEnds
<1>11. Scans'
  <2>1. main \notin Before
    BY DEF CheckoutInv, Scans, BaseEnds, BaseRuns
  <2> QED
    BY <1>7, <2>1 DEF CheckoutInv, Scans, headVars, BaseDone, BaseEnds
<1>12. Held'
  BY <1>6 DEF CheckoutInv, Held, headVars, BaseEnds
<1> QED
  BY <1>8, <1>9, <1>10, <1>11, <1>12 DEF CheckoutInv

LEMMA ThreadDiesKeeps ==
    ASSUME CheckoutInv, NEW how \in {"error", "exit"}, ThreadDies(how)
    PROVE  CheckoutInv'
<1> DEFINE line == Turn!Line("base", how, 0)
<1>2. line \in Lines
  BY LineIsALine DEF Kinds
<1>3. line.side = "base" /\ line.kind \in Messages
  BY DEF Turn!Line, Messages
<1>4. channel \in Seq(Lines) /\ held \in Seq(Lines) /\ spoken \in Seq(Lines)
  BY DEF CheckoutInv, Held
<1>5. channel' = Append(channel, line)
  BY DEF ThreadDies
<1> HIDE DEF line
<1>6. /\ channel' \in Seq(Lines)
      /\ \A i \in DOMAIN channel' :
           \/ i \in DOMAIN channel /\ channel'[i] = channel[i]
           \/ channel'[i] = line
  BY <1>2, <1>4, <1>5, Appended
<1>7. base' \in BaseDone /\ baseResult' \in {"none", "done", "failed", "died"}
      /\ (baseResult # "none" => baseResult' # "none")
  BY DEF CheckoutInv, TypeOK, BaseType, ThreadDies, BaseDone
<1>8. TypeOK'
  <2>1. RunType'
    BY DEF CheckoutInv, TypeOK, RunType, cleanupVars, ThreadDies
  <2>2. BaseType'
    <3>1. \A i \in DOMAIN channel' : channel'[i].side = "base" /\ channel'[i].kind \in Messages
      BY <1>3, <1>6 DEF CheckoutInv, TypeOK, BaseType
    <3>2. baseLogged' \in 0..BaseLines
      BY DEF CheckoutInv, TypeOK, BaseType, ThreadDies
    <3> QED
      BY <1>7, <3>1, <3>2 DEF BaseType, BaseDone
  <2>3. HeadType'
    BY DEF CheckoutInv, TypeOK, HeadType, headVars, ThreadDies
  <2>4. (signals \in 0..2)'
    BY DEF CheckoutInv, TypeOK, cleanupVars, ThreadDies
  <2> QED
    BY <2>1, <2>2, <2>3, <2>4 DEF TypeOK
<1>9. Standing'
  BY DEF CheckoutInv, Standing, cleanupVars, ThreadDies
<1>10. Interrupted'
  BY DEF CheckoutInv, Interrupted, cleanupVars, ThreadDies
<1>11. Scans'
  <2>1. main \notin Before
    BY DEF CheckoutInv, Scans, ThreadDies
  <2> QED
    BY <1>7, <2>1 DEF CheckoutInv, Scans, headVars, BaseDone, ThreadDies
<1>12. Held'
  BY <1>6 DEF CheckoutInv, Held, headVars, ThreadDies
<1> QED
  BY <1>8, <1>9, <1>10, <1>11, <1>12 DEF CheckoutInv

LEMMA ReceiveKeeps ==
    ASSUME CheckoutInv, Receive
    PROVE  CheckoutInv'
<1>1. channel \in Seq(Lines) /\ channel # <<>> /\ held \in Seq(Lines) /\ spoken \in Seq(Lines)
  BY DEF CheckoutInv, Held, Receive
<1>2. /\ Tail(channel) \in Seq(Lines) /\ Head(channel) \in Lines
      /\ Head(channel) = channel[1] /\ 1 \in DOMAIN channel
      /\ \A i \in DOMAIN Tail(channel) :
           i + 1 \in DOMAIN channel /\ Tail(channel)[i] = channel[i + 1]
  BY <1>1, Taken
<1>3. Head(channel).kind \in Messages
  BY <1>2 DEF CheckoutInv, TypeOK, BaseType
<1>4. baseResult' \in {"none", "done", "failed", "died"}
      /\ (baseResult # "none" => baseResult' = baseResult)
      /\ (Head(channel).kind = "log" => baseResult' = baseResult)
  <2>1. baseResult \in {"none", "done", "failed", "died"}
    BY DEF CheckoutInv, TypeOK, BaseType
  <2>2. baseResult' = IF Head(channel).kind = "log" THEN baseResult
                      ELSE Settled(Head(channel).kind)
    BY DEF Receive
  <2>3. Settled(Head(channel).kind) =
          IF baseResult # "none" THEN baseResult
          ELSE IF Head(channel).kind \in {"error", "exit"} THEN "died" ELSE Head(channel).kind
    BY DEF Settled
  <2> QED
    BY <1>3, <2>1, <2>2, <2>3 DEF Messages
<1>5. spoken' \in Seq(Lines)
  <2>1. Turn!Line("base", "thread", 0) \in Lines
    BY LineIsALine DEF Kinds
  <2>2. spoken' \in {spoken, Append(spoken, Head(channel)),
                     Append(spoken, Turn!Line("base", "thread", 0))}
    BY DEF Receive
  <2>3. Append(spoken, Head(channel)) \in Seq(Lines)
        /\ Append(spoken, Turn!Line("base", "thread", 0)) \in Seq(Lines)
    BY <1>1, <1>2, <2>1, Appended
  <2> QED
    BY <1>1, <2>2, <2>3
<1>6. TypeOK'
  <2>1. RunType'
    BY DEF CheckoutInv, TypeOK, RunType, cleanupVars, Receive
  <2>2. BaseType'
    <3>1. \A i \in DOMAIN channel' : channel'[i].side = "base" /\ channel'[i].kind \in Messages
      BY <1>2 DEF CheckoutInv, TypeOK, BaseType, Receive
    <3>2. baseLogged' \in 0..BaseLines
      BY DEF CheckoutInv, TypeOK, BaseType, Receive
    <3>3. base' \in {"idle", "running", "done", "failed", "died"}
      BY DEF CheckoutInv, TypeOK, BaseType, Receive
    <3> QED
      BY <1>4, <3>1, <3>2, <3>3 DEF BaseType
  <2>3. HeadType'
    BY DEF CheckoutInv, TypeOK, HeadType, headVars, Receive
  <2>4. (signals \in 0..2)'
    BY DEF CheckoutInv, TypeOK, cleanupVars, Receive
  <2> QED
    BY <2>1, <2>2, <2>3, <2>4 DEF TypeOK
<1>7. Standing'
  BY DEF CheckoutInv, Standing, cleanupVars, Receive
<1>8. Interrupted'
  BY DEF CheckoutInv, Interrupted, cleanupVars, Receive
<1>9. Scans'
  <2>1. \A i \in DOMAIN channel' : channel'[i].kind # "log" => base' \in BaseDone
    BY <1>2 DEF CheckoutInv, Scans, Receive
  <2>2. baseResult' # "none" => base' \in BaseDone
    BY <1>2, <1>4 DEF CheckoutInv, Scans, Receive
  <2> QED
    BY <1>4, <2>1, <2>2 DEF CheckoutInv, Scans, headVars, Receive
<1>10. Held'
  BY <1>2, <1>5 DEF CheckoutInv, Held, headVars, Receive
<1> QED
  BY <1>6, <1>7, <1>8, <1>9, <1>10 DEF CheckoutInv

LEMMA HeadLogsKeeps ==
    ASSUME CheckoutInv, HeadLogs
    PROVE  CheckoutInv'
<1> DEFINE line == Turn!Line("head", "log", headLogged + 1)
<1>1. headLogged \in Nat /\ headLogged + 1 \in 0..HeadLines /\ headLogged' = headLogged + 1
  BY ScanLinesAssumption DEF CheckoutInv, TypeOK, HeadType, HeadLogs
<1>2. line \in Lines
  BY <1>1, LineIsALine DEF Kinds
<1>3. channel \in Seq(Lines) /\ held \in Seq(Lines) /\ spoken \in Seq(Lines)
  BY DEF CheckoutInv, Held
<1>4. \/ ~released /\ held' = Append(held, line) /\ spoken' = spoken
      \/ released /\ held' = held /\ spoken' = Append(spoken, line)
  BY DEF HeadLogs, HoldsBack
<1>5. released' = released /\ head' = head
  BY DEF HeadLogs
<1> HIDE DEF line
<1>6. /\ held' \in Seq(Lines) /\ spoken' \in Seq(Lines)
      /\ Len(held') <= headLogged'
      /\ released => held' = <<>>
      /\ ~released => Len(held') = headLogged'
  <2>1. Len(held) <= headLogged /\ (released => held = <<>>) /\ (~released => Len(held) = headLogged)
    BY DEF CheckoutInv, TypeOK, HeadType, Held
  <2>2. CASE ~released /\ held' = Append(held, line) /\ spoken' = spoken
    BY <1>1, <1>2, <1>3, <2>1, <2>2, Appended
  <2>3. CASE released /\ held' = held /\ spoken' = Append(spoken, line)
    BY <1>1, <1>2, <1>3, <2>1, <2>3, Appended
  <2> QED
    BY <1>4, <2>2, <2>3
<1>7. TypeOK'
  <2>1. RunType'
    BY DEF CheckoutInv, TypeOK, RunType, cleanupVars, HeadLogs
  <2>2. BaseType'
    BY DEF CheckoutInv, TypeOK, BaseType, baseVars, HeadLogs
  <2>3. HeadType'
    <3>1. head' \in {"idle", "running", "done", "failed"} /\ released' \in BOOLEAN
      BY <1>5 DEF CheckoutInv, TypeOK, HeadType
    <3>2. headLogged' \in 0..HeadLines
      BY <1>1
    <3> QED
      BY <1>5, <1>6, <3>1, <3>2, Zenon DEF HeadType
  <2>4. (signals \in 0..2)'
    BY DEF CheckoutInv, TypeOK, cleanupVars, HeadLogs
  <2> QED
    BY <2>1, <2>2, <2>3, <2>4 DEF TypeOK
<1>8. Standing'
  BY DEF CheckoutInv, Standing, cleanupVars, HeadLogs
<1>9. Interrupted'
  BY DEF CheckoutInv, Interrupted, cleanupVars, HeadLogs
<1>10. Scans'
  BY DEF CheckoutInv, Scans, baseVars, HeadLogs
<1>11. Held'
  <2>1. channel' \in Seq(Lines)
    BY <1>3 DEF baseVars, HeadLogs
  <2> QED
    BY <1>5, <1>6, <2>1, Zenon DEF Held
<1> QED
  BY <1>7, <1>8, <1>9, <1>10, <1>11 DEF CheckoutInv

LEMMA HeadEndsKeeps ==
    ASSUME CheckoutInv, NEW how \in {"done", "failed"}, HeadEnds(how)
    PROVE  CheckoutInv'
<1>1. TypeOK'
  <2>1. RunType'
    BY DEF CheckoutInv, TypeOK, RunType, cleanupVars, HeadEnds
  <2>2. BaseType'
    BY DEF CheckoutInv, TypeOK, BaseType, baseVars, HeadEnds
  <2>3. HeadType'
    BY DEF CheckoutInv, TypeOK, HeadType, HeadEnds
  <2>4. (signals \in 0..2)'
    BY DEF CheckoutInv, TypeOK, cleanupVars, HeadEnds
  <2> QED
    BY <2>1, <2>2, <2>3, <2>4 DEF TypeOK
<1>2. Standing'
  BY DEF CheckoutInv, Standing, cleanupVars, HeadEnds
<1>3. Interrupted'
  BY DEF CheckoutInv, Interrupted, cleanupVars, HeadEnds
<1>4. Scans'
  BY DEF CheckoutInv, Scans, Before, Scanning, Finally, baseVars, HeadEnds
<1>5. Held'
  BY DEF CheckoutInv, Held, baseVars, HeadEnds
<1> QED
  BY <1>1, <1>2, <1>3, <1>4, <1>5 DEF CheckoutInv

-----------------------------------------------------------------------------
THEOREM CheckoutInvHolds == Spec => []CheckoutInv
<1>1. CheckoutInv /\ [Next]_vars => CheckoutInv'
  <2> SUFFICES ASSUME CheckoutInv, [Next]_vars
               PROVE  CheckoutInv'
    OBVIOUS
  <2>1. CASE UNCHANGED vars
    <3>1. RunType' /\ (signals \in 0..2)'
      BY <2>1 DEF CheckoutInv, TypeOK, RunType, vars
    <3>2. BaseType'
      BY <2>1 DEF CheckoutInv, TypeOK, BaseType, vars
    <3>3. HeadType'
      BY <2>1 DEF CheckoutInv, TypeOK, HeadType, vars
    <3>4. Standing' /\ Interrupted'
      BY <2>1 DEF CheckoutInv, Standing, Interrupted, vars
    <3>5. Scans'
      BY <2>1 DEF CheckoutInv, Scans, vars
    <3>6. Held'
      BY <2>1 DEF CheckoutInv, Held, vars
    <3> QED
      BY <3>1, <3>2, <3>3, <3>4, <3>5, <3>6 DEF CheckoutInv, TypeOK
  <2>2. CASE Next
    <3>1. CASE Main
      BY <3>1, PreflightKeeps, AddEndsKeeps, RemoveWorktreeKeeps, RemoveTempKeeps,
         CleanupWorktreeKeeps, CleanupTempKeeps, MkdtempKeeps, RegisterKeeps, ReportBaseKeeps,
         BaseFailsKeeps, BaseUnreadableKeeps, WaitHeadKeeps, BaseReadKeeps, ReportHeadKeeps,
         HeadFailsKeeps, HeadReadKeeps, ReleaseSignalsKeeps, ReraiseKeeps DEF Main
    <3>2. CASE BaseScan
      BY <3>2, BaseLogsKeeps, BaseEndsKeeps DEF BaseScan
    <3>3. CASE HeadScan
      BY <3>3, HeadLogsKeeps, HeadEndsKeeps DEF HeadScan
    <3> QED
      BY <2>2, <3>1, <3>2, <3>3, ReceiveKeeps, ThreadDiesKeeps, SignalKeeps, GitOutlivesKeeps
         DEF Next
  <2> QED
    BY <2>1, <2>2
<1> QED
  BY InitCheckout, <1>1, PTL DEF Spec

\* However the run ends, at whatever point a signal comes and however many lines the scans log,
\* nothing it made is left behind unreported, and no scan runs while its directory is removed.
THEOREM NothingLeftBehindHolds == Spec => []NothingLeftBehind
<1>1. CheckoutInv => NothingLeftBehind
  <2> SUFFICES ASSUME CheckoutInv PROVE NothingLeftBehind
    OBVIOUS
  <2>1. main \in Finally => head # "running" /\ base # "running"
    BY DEF CheckoutInv, Scans
  <2>2. main = "killed" /\ signals = 1 => checkout = "absent"
    BY DEF CheckoutInv, Interrupted
  <2>3. main \in {"returned", "signalled"} /\ ~addCut =>
          (temp => "temp" \in warned) /\ (checkout = "absent" \/ "worktree" \in warned)
    BY DEF CheckoutInv, Interrupted
  <2> QED
    BY <2>1, <2>2, <2>3 DEF CheckoutInv, NothingLeftBehind
<1> QED
  BY <1>1, CheckoutInvHolds, PTL

-----------------------------------------------------------------------------
(* How many log lines of a side were said *)

LogsIn(side, lines) == {i \in DOMAIN lines : lines[i].side = side /\ lines[i].kind = "log"}

LEMMA SaidIsCounted ==
    ASSUME NEW side
    PROVE  SaidOf(side) = Cardinality(LogsIn(side, spoken))
BY DEF SaidOf, LogsIn

LEMMA LogsCounted ==
    ASSUME NEW lines \in Seq(Lines), NEW side
    PROVE  /\ IsFiniteSet(LogsIn(side, lines)) /\ Cardinality(LogsIn(side, lines)) \in Nat
           /\ LogsIn(side, lines) \subseteq 1..Len(lines)
<1>1. LogsIn(side, lines) \subseteq 1..Len(lines)
  BY DEF LogsIn
<1>2. IsFiniteSet(1..Len(lines))
  BY FS_Interval
<1> QED
  BY <1>1, <1>2, FS_Subset, FS_CardinalityType

LEMMA LogsAppended ==
    ASSUME NEW lines \in Seq(Lines), NEW line \in Lines, NEW side
    PROVE  Cardinality(LogsIn(side, Append(lines, line))) =
             IF line.side = side /\ line.kind = "log" THEN Cardinality(LogsIn(side, lines)) + 1
             ELSE Cardinality(LogsIn(side, lines))
<1> DEFINE longer == Append(lines, line)
<1>1. /\ longer \in Seq(Lines) /\ DOMAIN longer = 1..Len(lines) + 1
      /\ \A i \in 1..Len(lines) : longer[i] = lines[i]
      /\ longer[Len(lines) + 1] = line /\ DOMAIN lines = 1..Len(lines) /\ Len(lines) \in Nat
  OBVIOUS
<1> HIDE DEF longer
<1>2. IsFiniteSet(LogsIn(side, lines)) /\ Len(lines) + 1 \notin LogsIn(side, lines)
  BY <1>1, LogsCounted
<1>3. CASE line.side = side /\ line.kind = "log"
  <2>1. LogsIn(side, longer) = LogsIn(side, lines) \cup {Len(lines) + 1}
    BY <1>1, <1>3 DEF LogsIn
  <2>2. Cardinality(LogsIn(side, lines) \cup {Len(lines) + 1})
          = Cardinality(LogsIn(side, lines)) + 1
    BY <1>2, FS_AddElement
  <2> QED
    BY <1>3, <2>1, <2>2 DEF longer
<1>4. CASE ~(line.side = side /\ line.kind = "log")
  <2>1. LogsIn(side, longer) = LogsIn(side, lines)
    BY <1>1, <1>4 DEF LogsIn
  <2> QED
    BY <1>4, <2>1 DEF longer
<1> QED
  BY <1>3, <1>4

LEMMA Joined ==
    ASSUME NEW lines \in Seq(Lines), NEW more \in Seq(Lines)
    PROVE  /\ lines \o more \in Seq(Lines) /\ DOMAIN (lines \o more) = 1..Len(lines) + Len(more)
           /\ \A i \in 1..Len(lines) : (lines \o more)[i] = lines[i]
           /\ \A i \in 1..Len(more) : (lines \o more)[Len(lines) + i] = more[i]
           /\ \A i \in Len(lines) + 1..Len(lines) + Len(more) :
                i - Len(lines) \in 1..Len(more) /\ (lines \o more)[i] = more[i - Len(lines)]
           /\ DOMAIN lines = 1..Len(lines) /\ DOMAIN more = 1..Len(more)
           /\ Len(lines) \in Nat /\ Len(more) \in Nat
BY ConcatProperties

LEMMA LogsJoined ==
    ASSUME NEW lines \in Seq(Lines), NEW more \in Seq(Lines), NEW side,
           LogsIn(side, more) = {}
    PROVE  LogsIn(side, lines \o more) = LogsIn(side, lines)
<1> DEFINE joined == lines \o more
<1>1. /\ DOMAIN joined = 1..Len(lines) + Len(more)
      /\ \A i \in 1..Len(lines) : joined[i] = lines[i]
      /\ \A i \in Len(lines) + 1..Len(lines) + Len(more) :
           i - Len(lines) \in 1..Len(more) /\ joined[i] = more[i - Len(lines)]
      /\ DOMAIN lines = 1..Len(lines) /\ DOMAIN more = 1..Len(more)
      /\ Len(lines) \in Nat /\ Len(more) \in Nat
  BY Joined
<1> HIDE DEF joined
<1>2. LogsIn(side, joined) = LogsIn(side, lines)
  BY <1>1 DEF LogsIn
<1> QED
  BY <1>2 DEF joined

LEMMA LogsReleased ==
    ASSUME NEW lines \in Seq(Lines), NEW more \in Seq(Lines), NEW side,
           LogsIn(side, lines) = {}, LogsIn(side, more) = DOMAIN more
    PROVE  Cardinality(LogsIn(side, lines \o more)) = Len(more)
<1> DEFINE joined == lines \o more
<1>1. /\ DOMAIN joined = 1..Len(lines) + Len(more)
      /\ \A i \in 1..Len(lines) : joined[i] = lines[i]
      /\ \A i \in Len(lines) + 1..Len(lines) + Len(more) :
           i - Len(lines) \in 1..Len(more) /\ joined[i] = more[i - Len(lines)]
      /\ DOMAIN lines = 1..Len(lines) /\ DOMAIN more = 1..Len(more)
      /\ Len(lines) \in Nat /\ Len(more) \in Nat
  BY Joined
<1> HIDE DEF joined
<1>2. LogsIn(side, joined) = Len(lines) + 1..Len(lines) + Len(more)
  BY <1>1 DEF LogsIn
<1>3. Cardinality(Len(lines) + 1..Len(lines) + Len(more)) = Len(more)
  <2>1. \A a, b \in Int : Cardinality(a..b) = IF a > b THEN 0 ELSE b - a + 1
    BY FS_Interval
  <2>2. \A n, m \in Nat : Cardinality(n + 1..n + m) = m
    <3> SUFFICES ASSUME NEW n \in Nat, NEW m \in Nat
                 PROVE  Cardinality(n + 1..n + m) = m
      OBVIOUS
    <3>1. n + 1 \in Int /\ n + m \in Int /\ (n + 1 > n + m <=> m = 0)
          /\ (n + m) - (n + 1) + 1 = m
      OBVIOUS
    <3>2. Cardinality(n + 1..n + m) = IF n + 1 > n + m THEN 0 ELSE (n + m) - (n + 1) + 1
      BY <2>1, <3>1
    <3> QED
      BY <3>1, <3>2
  <2> QED
    BY <1>1, <2>2
<1> QED
  BY <1>2, <1>3 DEF joined

-----------------------------------------------------------------------------
(* The run in turn *)

\* What the base said and what is on its way is what it logged, in order: its lines first, and
\* all of them said once its scan is settled.
Sent ==
    /\ SaidOf("base") <= baseLogged /\ baseLogged - SaidOf("base") <= Len(channel)
    /\ \A i \in DOMAIN channel :
         /\ i <= baseLogged - SaidOf("base")
              => channel[i] = Turn!Line("base", "log", SaidOf("base") + i)
         /\ i > baseLogged - SaidOf("base") => channel[i].kind # "log"
    /\ baseResult # "none" => SaidOf("base") = baseLogged
    /\ base = "idle" => channel = <<>>
Unsent == ~parallel => channel = <<>>

\* The head said nothing before its release, and all it logged after.
Withheld ==
    /\ \A i \in DOMAIN held : held[i] = Turn!Line("head", "log", i)
    /\ released => SaidOf("head") = headLogged
    /\ ~released => LogsIn("head", spoken) = {}

\* The outcome, and the release, at each place of the main thread.
Decided ==
    /\ main \in Before \cup {"scan", "base read"} => ~released /\ outcome = "running"
    /\ main \in {"head", "head read"} => released /\ outcome = "running"
    /\ main \in {"wait head"} \cup Finally \cup Cleanup \cup Stopped => outcome # "running"
    /\ main = "wait head" => ~released
    /\ EventLoop /\ main # "scan" /\ base # "idle" => baseResult # "none"

TurnInv == Sent /\ Unsent /\ Withheld /\ Decided

LEMMA SaidSame ==
    ASSUME UNCHANGED spoken, NEW side
    PROVE  SaidOf(side)' = SaidOf(side) /\ LogsIn(side, spoken') = LogsIn(side, spoken)
BY DEF SaidOf, LogsIn

LEMMA SaidNat == CheckoutInv => \A side : SaidOf(side) \in Nat
BY LogsCounted, SaidIsCounted DEF CheckoutInv, Held

LEMMA NumbersTyped ==
    ASSUME CheckoutInv
    PROVE  baseLogged \in Nat /\ headLogged \in Nat /\ SaidOf("base") \in Nat
           /\ SaidOf("head") \in Nat /\ baseLogged <= BaseLines /\ headLogged <= HeadLines
BY SaidNat, ScanLinesAssumption DEF CheckoutInv, TypeOK, BaseType, HeadType

\* A step that leaves the lines where they are.
LEMMA LinesStay ==
    ASSUME CheckoutInv, TurnInv, base' = "idle" => base = "idle",
           UNCHANGED <<parallel, baseLogged, channel, baseResult, headLogged, held, released,
           spoken>>
    PROVE  Sent' /\ Unsent' /\ Withheld'
<1>1. SaidOf("base")' = SaidOf("base") /\ SaidOf("head")' = SaidOf("head")
      /\ LogsIn("head", spoken') = LogsIn("head", spoken)
  BY SaidSame
<1>2. Sent'
  BY <1>1 DEF TurnInv, Sent
<1>3. Unsent'
  BY DEF TurnInv, Unsent
<1>4. Withheld'
  BY <1>1 DEF TurnInv, Withheld
<1> QED
  BY <1>2, <1>3, <1>4

\* A step a reader of stderr cannot tell, and one that ends the run.
LEMMA Unnoticed ==
    ASSUME TurnAt' = TurnAt, UNCHANGED <<released, outcome, spoken>>
    PROVE  UNCHANGED Turn!inTurnVars
BY SaidSame DEF TurnLogged, Turn!inTurnVars

LEMMA Ends ==
    ASSUME outcome' # "running", UNCHANGED <<released, spoken>>
    PROVE  Turn!End(outcome')
BY SaidSame DEF TurnLogged, TurnAt, Turn!End

LEMMA MkdtempInTurn ==
    ASSUME CheckoutInv, TurnInv, Mkdtemp
    PROVE  TurnInv' /\ UNCHANGED Turn!inTurnVars
<1>1. Sent' /\ Unsent' /\ Withheld'
  BY LinesStay DEF cleanupVars, baseVars, headVars, Mkdtemp
<1>2. Decided'
  BY DEF TurnInv, Decided, Before, Scanning, Finally, Cleanup, Stopped, EventLoop, cleanupVars,
         baseVars, headVars, Mkdtemp
<1>3. TurnAt' = TurnAt /\ UNCHANGED <<released, outcome, spoken>>
  BY DEF TurnInv, Decided, TurnAt, Before, Scanning, Finally, Cleanup, Stopped, EventLoop,
         cleanupVars, baseVars, headVars, Mkdtemp
<1> QED
  BY <1>1, <1>2, <1>3, Unnoticed DEF TurnInv

LEMMA RegisterInTurn ==
    ASSUME CheckoutInv, TurnInv, Register
    PROVE  TurnInv' /\ UNCHANGED Turn!inTurnVars
<1>1. Sent' /\ Unsent' /\ Withheld'
  BY LinesStay DEF cleanupVars, baseVars, headVars, Register
<1>2. Decided'
  BY DEF TurnInv, Decided, Before, Scanning, Finally, Cleanup, Stopped, EventLoop, cleanupVars,
         baseVars, headVars, Register
<1>3. TurnAt' = TurnAt /\ UNCHANGED <<released, outcome, spoken>>
  BY DEF TurnInv, Decided, TurnAt, Before, Scanning, Finally, Cleanup, Stopped, EventLoop,
         cleanupVars, baseVars, headVars, Register
<1> QED
  BY <1>1, <1>2, <1>3, Unnoticed DEF TurnInv

LEMMA ReleaseSignalsInTurn ==
    ASSUME CheckoutInv, TurnInv, ReleaseSignals
    PROVE  TurnInv' /\ UNCHANGED Turn!inTurnVars
<1>1. Sent' /\ Unsent' /\ Withheld'
  BY LinesStay DEF cleanupVars, baseVars, headVars, ReleaseSignals
<1>2. Decided'
  BY DEF TurnInv, Decided, Before, Scanning, Finally, Cleanup, Stopped, EventLoop, cleanupVars,
         baseVars, headVars, ReleaseSignals
<1>3. TurnAt' = TurnAt /\ UNCHANGED <<released, outcome, spoken>>
  BY DEF TurnInv, Decided, TurnAt, Before, Scanning, Finally, Cleanup, Stopped, EventLoop,
         cleanupVars, baseVars, headVars, ReleaseSignals
<1> QED
  BY <1>1, <1>2, <1>3, Unnoticed DEF TurnInv

LEMMA ReraiseInTurn ==
    ASSUME CheckoutInv, TurnInv, Reraise
    PROVE  TurnInv' /\ UNCHANGED Turn!inTurnVars
<1>1. Sent' /\ Unsent' /\ Withheld'
  BY LinesStay DEF cleanupVars, baseVars, headVars, Reraise
<1>2. Decided'
  BY DEF TurnInv, Decided, Before, Scanning, Finally, Cleanup, Stopped, EventLoop, cleanupVars,
         baseVars, headVars, Reraise
<1>3. TurnAt' = TurnAt /\ UNCHANGED <<released, outcome, spoken>>
  BY DEF TurnInv, Decided, TurnAt, Before, Scanning, Finally, Cleanup, Stopped, EventLoop,
         cleanupVars, baseVars, headVars, Reraise
<1> QED
  BY <1>1, <1>2, <1>3, Unnoticed DEF TurnInv

LEMMA GitOutlivesInTurn ==
    ASSUME CheckoutInv, TurnInv, GitOutlives
    PROVE  TurnInv' /\ UNCHANGED Turn!inTurnVars
<1>1. Sent' /\ Unsent' /\ Withheld'
  BY LinesStay DEF cleanupVars, baseVars, headVars, GitOutlives
<1>2. Decided'
  BY DEF TurnInv, Decided, Before, Scanning, Finally, Cleanup, Stopped, EventLoop, cleanupVars,
         baseVars, headVars, GitOutlives
<1>3. TurnAt' = TurnAt /\ UNCHANGED <<released, outcome, spoken>>
  BY DEF TurnInv, Decided, TurnAt, Before, Scanning, Finally, Cleanup, Stopped, EventLoop,
         cleanupVars, baseVars, headVars, GitOutlives
<1> QED
  BY <1>1, <1>2, <1>3, Unnoticed DEF TurnInv

LEMMA WaitHeadInTurn ==
    ASSUME CheckoutInv, TurnInv, WaitHead
    PROVE  TurnInv' /\ UNCHANGED Turn!inTurnVars
<1>1. Sent' /\ Unsent' /\ Withheld'
  BY LinesStay DEF cleanupVars, baseVars, headVars, WaitHead
<1>2. Decided'
  BY DEF TurnInv, Decided, Before, Scanning, Finally, Cleanup, Stopped, EventLoop, cleanupVars,
         baseVars, headVars, WaitHead
<1>3. TurnAt' = TurnAt /\ UNCHANGED <<released, outcome, spoken>>
  BY DEF TurnInv, Decided, TurnAt, Before, Scanning, Finally, Cleanup, Stopped, EventLoop,
         cleanupVars, baseVars, headVars, WaitHead
<1> QED
  BY <1>1, <1>2, <1>3, Unnoticed DEF TurnInv

LEMMA RemoveWorktreeInTurn ==
    ASSUME CheckoutInv, TurnInv, NEW ok \in BOOLEAN, RemoveWorktree(ok)
    PROVE  TurnInv' /\ UNCHANGED Turn!inTurnVars
<1>1. Sent' /\ Unsent' /\ Withheld'
  BY LinesStay DEF cleanupVars, baseVars, headVars, RemoveWorktree
<1>2. Decided'
  BY DEF TurnInv, Decided, Before, Scanning, Finally, Cleanup, Stopped, EventLoop, cleanupVars,
         baseVars, headVars, RemoveWorktree
<1>3. TurnAt' = TurnAt /\ UNCHANGED <<released, outcome, spoken>>
  BY DEF TurnInv, Decided, TurnAt, Before, Scanning, Finally, Cleanup, Stopped, EventLoop,
         cleanupVars, baseVars, headVars, RemoveWorktree
<1> QED
  BY <1>1, <1>2, <1>3, Unnoticed DEF TurnInv

LEMMA RemoveTempInTurn ==
    ASSUME CheckoutInv, TurnInv, NEW ok \in BOOLEAN, RemoveTemp(ok)
    PROVE  TurnInv' /\ UNCHANGED Turn!inTurnVars
<1>1. Sent' /\ Unsent' /\ Withheld'
  BY LinesStay DEF cleanupVars, baseVars, headVars, RemoveTemp
<1>2. Decided'
  BY DEF TurnInv, Decided, Before, Scanning, Finally, Cleanup, Stopped, EventLoop, cleanupVars,
         baseVars, headVars, RemoveTemp
<1>3. TurnAt' = TurnAt /\ UNCHANGED <<released, outcome, spoken>>
  BY DEF TurnInv, Decided, TurnAt, Before, Scanning, Finally, Cleanup, Stopped, EventLoop,
         cleanupVars, baseVars, headVars, RemoveTemp
<1> QED
  BY <1>1, <1>2, <1>3, Unnoticed DEF TurnInv

LEMMA CleanupWorktreeInTurn ==
    ASSUME CheckoutInv, TurnInv, NEW ok \in BOOLEAN, CleanupWorktree(ok)
    PROVE  TurnInv' /\ UNCHANGED Turn!inTurnVars
<1>1. Sent' /\ Unsent' /\ Withheld'
  BY LinesStay DEF cleanupVars, baseVars, headVars, CleanupWorktree
<1>2. Decided'
  BY DEF TurnInv, Decided, Before, Scanning, Finally, Cleanup, Stopped, EventLoop, cleanupVars,
         baseVars, headVars, CleanupWorktree
<1>3. TurnAt' = TurnAt /\ UNCHANGED <<released, outcome, spoken>>
  BY DEF TurnInv, Decided, TurnAt, Before, Scanning, Finally, Cleanup, Stopped, EventLoop,
         cleanupVars, baseVars, headVars, CleanupWorktree
<1> QED
  BY <1>1, <1>2, <1>3, Unnoticed DEF TurnInv

LEMMA CleanupTempInTurn ==
    ASSUME CheckoutInv, TurnInv, NEW ok \in BOOLEAN, CleanupTemp(ok)
    PROVE  TurnInv' /\ UNCHANGED Turn!inTurnVars
<1>1. Sent' /\ Unsent' /\ Withheld'
  BY LinesStay DEF cleanupVars, baseVars, headVars, CleanupTemp
<1>2. Decided'
  BY DEF TurnInv, Decided, Before, Scanning, Finally, Cleanup, Stopped, EventLoop, cleanupVars,
         baseVars, headVars, CleanupTemp
<1>3. TurnAt' = TurnAt /\ UNCHANGED <<released, outcome, spoken>>
  BY DEF TurnInv, Decided, TurnAt, Before, Scanning, Finally, Cleanup, Stopped, EventLoop,
         cleanupVars, baseVars, headVars, CleanupTemp
<1> QED
  BY <1>1, <1>2, <1>3, Unnoticed DEF TurnInv

LEMMA HeadEndsInTurn ==
    ASSUME CheckoutInv, TurnInv, NEW how \in {"done", "failed"}, HeadEnds(how)
    PROVE  TurnInv' /\ UNCHANGED Turn!inTurnVars
<1>1. Sent' /\ Unsent' /\ Withheld'
  BY LinesStay DEF cleanupVars, baseVars, headVars, HeadEnds
<1>2. Decided'
  BY DEF TurnInv, Decided, Before, Scanning, Finally, Cleanup, Stopped, EventLoop, cleanupVars,
         baseVars, headVars, HeadEnds
<1>3. TurnAt' = TurnAt /\ UNCHANGED <<released, outcome, spoken>>
  BY DEF TurnInv, Decided, TurnAt, Before, Scanning, Finally, Cleanup, Stopped, EventLoop,
         cleanupVars, baseVars, headVars, HeadEnds
<1> QED
  BY <1>1, <1>2, <1>3, Unnoticed DEF TurnInv

LEMMA BaseUnreadableInTurn ==
    ASSUME CheckoutInv, TurnInv, BaseUnreadable
    PROVE  TurnInv' /\ Turn!Fail
<1>1. Sent' /\ Unsent' /\ Withheld'
  BY LinesStay DEF baseVars, headVars, BaseUnreadable, BaseFailure
<1>2. Decided'
  BY DEF TurnInv, Decided, Before, Scanning, Finally, Cleanup, Stopped, EventLoop, baseVars,
         headVars, BaseUnreadable, BaseFailure
<1>3. outcome' # "running" /\ UNCHANGED <<released, spoken>>
  BY DEF headVars, BaseUnreadable, BaseFailure
<1>4. Turn!Fail
  BY <1>3, Ends DEF TurnInv, Decided, TurnAt, Scanning, Turn!Fail, BaseUnreadable, BaseFailure
<1> QED
  BY <1>1, <1>2, <1>4 DEF TurnInv

LEMMA HeadFailsInTurn ==
    ASSUME CheckoutInv, TurnInv, HeadFails
    PROVE  TurnInv' /\ Turn!Fail
<1>1. Sent' /\ Unsent' /\ Withheld'
  BY LinesStay DEF baseVars, headVars, HeadFails
<1>2. Decided'
  BY DEF TurnInv, Decided, Before, Scanning, Finally, Cleanup, Stopped, EventLoop, baseVars,
         headVars, HeadFails
<1>3. outcome' # "running" /\ UNCHANGED <<released, spoken>>
  BY DEF headVars, HeadFails
<1>4. Turn!Fail
  BY <1>3, Ends DEF TurnInv, Decided, TurnAt, Scanning, Turn!Fail, HeadFails
<1> QED
  BY <1>1, <1>2, <1>4 DEF TurnInv

LEMMA HeadReadInTurn ==
    ASSUME CheckoutInv, TurnInv, HeadRead
    PROVE  TurnInv' /\ Turn!ReadHead
<1>1. Sent' /\ Unsent' /\ Withheld'
  BY LinesStay DEF baseVars, headVars, HeadRead
<1>2. Decided'
  BY DEF TurnInv, Decided, Before, Scanning, Finally, Cleanup, Stopped, EventLoop, baseVars,
         headVars, HeadRead
<1>3. outcome' # "running" /\ UNCHANGED <<released, spoken>>
  BY DEF headVars, HeadRead
<1>4. Turn!ReadHead
  BY <1>3, Ends DEF TurnInv, Decided, TurnAt, Scanning, Turn!ReadHead, HeadRead
<1> QED
  BY <1>1, <1>2, <1>4 DEF TurnInv

LEMMA BaseFailsInTurn ==
    ASSUME CheckoutInv, TurnInv, BaseFails
    PROVE  TurnInv' /\ (Turn!Fail \/ Turn!ThreadFails)
<1>1. Sent' /\ Unsent' /\ Withheld'
  BY LinesStay DEF baseVars, headVars, BaseFails, BaseFailure
<1>2. Decided'
  BY DEF TurnInv, Decided, Before, Scanning, Finally, Cleanup, Stopped, EventLoop, baseVars,
         headVars, BaseFails, BaseFailure
<1>3. outcome' \in {"base failed", "thread failed"} /\ UNCHANGED <<released, spoken>>
      /\ TurnAt = "base"
  BY DEF TurnInv, Decided, TurnAt, Scanning, headVars, BaseFails, BaseFailure
<1>4. Turn!End(outcome')
  BY <1>3, Ends
<1> QED
  BY <1>1, <1>2, <1>3, <1>4 DEF TurnInv, Turn!Fail, Turn!ThreadFails

LEMMA PreflightInTurn ==
    ASSUME CheckoutInv, TurnInv, NEW ok \in BOOLEAN, Preflight(ok)
    PROVE  TurnInv' /\ (Turn!Stop \/ UNCHANGED Turn!inTurnVars)
<1>1. Sent' /\ Unsent' /\ Withheld'
  BY LinesStay DEF baseVars, headVars, Preflight
<1>2. Decided'
  BY DEF TurnInv, Decided, CheckoutInv, Scans, Before, Scanning, Finally, Cleanup, Stopped,
         EventLoop, baseVars, headVars, Preflight
<1>3. TurnAt = "base" /\ UNCHANGED <<released, spoken>>
  BY DEF TurnInv, Decided, TurnAt, Before, headVars, Preflight
<1>4. CASE ok
  <2>1. TurnAt' = TurnAt /\ UNCHANGED outcome
    BY <1>4 DEF TurnInv, Decided, TurnAt, Before, headVars, Preflight
  <2> QED
    BY <1>1, <1>2, <1>3, <2>1, Unnoticed DEF TurnInv
<1>5. CASE ~ok
  <2>1. outcome' = "stopped"
    BY <1>5 DEF Preflight
  <2> QED
    BY <1>1, <1>2, <1>3, <2>1, Ends DEF TurnInv, Turn!Stop
<1> QED
  BY <1>4, <1>5

LEMMA AddEndsInTurn ==
    ASSUME CheckoutInv, TurnInv, NEW ok \in BOOLEAN, AddEnds(ok)
    PROVE  TurnInv' /\ (Turn!Stop \/ UNCHANGED Turn!inTurnVars)
<1>0. main = "add" /\ base = "idle"
  BY DEF CheckoutInv, Scans, Before, AddEnds
<1>1. Sent' /\ Unsent' /\ Withheld'
  BY <1>0, LinesStay DEF AddEnds
<1>2. Decided'
  BY <1>0 DEF TurnInv, Decided, Before, Scanning, Finally, Cleanup, Stopped, EventLoop, AddEnds
<1>3. TurnAt = "base" /\ UNCHANGED <<released, spoken>>
  BY DEF TurnInv, Decided, TurnAt, Before, AddEnds
<1>4. CASE ok
  <2>1. TurnAt' = TurnAt /\ UNCHANGED outcome
    BY <1>4 DEF TurnInv, Decided, TurnAt, Before, AddEnds
  <2> QED
    BY <1>1, <1>2, <1>3, <2>1, Unnoticed DEF TurnInv
<1>5. CASE ~ok
  <2>1. outcome' = "stopped"
    BY <1>5 DEF AddEnds
  <2> QED
    BY <1>1, <1>2, <1>3, <2>1, Ends DEF TurnInv, Turn!Stop
<1> QED
  BY <1>4, <1>5

LEMMA SignalInTurn ==
    ASSUME CheckoutInv, TurnInv, Signal
    PROVE  TurnInv' /\ (Turn!Stop \/ UNCHANGED Turn!inTurnVars)
<1>1. Sent' /\ Unsent' /\ Withheld'
  BY LinesStay DEF baseVars, headVars, Signal
<1>2. Decided'
  BY DEF TurnInv, Decided, Before, Scanning, Finally, Cleanup, Stopped, EventLoop, Signal
<1>3. outcome' # "running" /\ UNCHANGED <<released, spoken>>
  BY DEF headVars, Signal
<1>4. CASE outcome = "running"
  <2>1. outcome' = "stopped" /\ TurnAt # "ended"
    BY <1>4 DEF Signal, TurnAt
  <2> QED
    BY <1>1, <1>2, <1>3, <2>1, Ends DEF TurnInv, Turn!Stop
<1>5. CASE outcome # "running"
  <2>1. outcome' = outcome /\ TurnAt' = TurnAt
    BY <1>5 DEF Signal, TurnAt
  <2> QED
    BY <1>1, <1>2, <1>3, <2>1, Unnoticed DEF TurnInv
<1> QED
  BY <1>4, <1>5

\* A message of the base's thread other than a log line, at the end of the channel.
LEMMA MessageSent ==
    ASSUME CheckoutInv, TurnInv, NEW line \in Lines, line.kind # "log",
           channel' = Append(channel, line), base # "idle", base' # "idle", parallel,
           UNCHANGED <<main, parallel, baseLogged, baseResult, headLogged, held, released, spoken,
                       outcome>>
    PROVE  TurnInv' /\ UNCHANGED Turn!inTurnVars
<1>1. SaidOf("base")' = SaidOf("base") /\ SaidOf("head")' = SaidOf("head")
      /\ LogsIn("head", spoken') = LogsIn("head", spoken)
  BY SaidSame
<1>2. Sent'
  <2>1. channel \in Seq(Lines)
    BY DEF CheckoutInv, Held
  <2>2. /\ Len(channel') = Len(channel) + 1 /\ Len(channel) \in Nat
        /\ \A i \in DOMAIN channel' :
             \/ i \in DOMAIN channel /\ channel'[i] = channel[i]
             \/ i = Len(channel) + 1 /\ channel'[i] = line
    BY <2>1, Appended
  <2>3. baseLogged \in Nat /\ SaidOf("base") \in Nat
    BY NumbersTyped
  <2>4. SaidOf("base") <= baseLogged /\ baseLogged - SaidOf("base") <= Len(channel)
    BY DEF TurnInv, Sent
  <2>5. ASSUME NEW i \in DOMAIN channel'
        PROVE  /\ i <= baseLogged - SaidOf("base")
                    => channel'[i] = Turn!Line("base", "log", SaidOf("base") + i)
               /\ i > baseLogged - SaidOf("base") => channel'[i].kind # "log"
    <3>1. CASE i \in DOMAIN channel /\ channel'[i] = channel[i]
      BY <3>1 DEF TurnInv, Sent
    <3>2. CASE i = Len(channel) + 1 /\ channel'[i] = line
      BY <2>2, <2>3, <2>4, <3>2
    <3> QED
      BY <2>2, <3>1, <3>2
  <2> QED
    BY <1>1, <2>2, <2>3, <2>4, <2>5 DEF TurnInv, Sent
<1>3. Unsent'
  BY DEF Unsent
<1>4. Withheld'
  BY <1>1 DEF TurnInv, Withheld
<1>5. Decided'
  BY DEF TurnInv, Decided, EventLoop
<1>6. TurnAt' = TurnAt
  BY DEF TurnAt
<1> QED
  BY <1>2, <1>3, <1>4, <1>5, <1>6, Unnoticed DEF TurnInv

LEMMA ThreadDiesInTurn ==
    ASSUME CheckoutInv, TurnInv, NEW how \in {"error", "exit"}, ThreadDies(how)
    PROVE  TurnInv' /\ UNCHANGED Turn!inTurnVars
<1>1. Turn!Line("base", how, 0) \in Lines
  BY LineIsALine DEF Kinds
<1>2. Turn!Line("base", how, 0).kind # "log"
  BY DEF Turn!Line
<1>3. base # "idle" /\ base' # "idle" /\ parallel
  BY DEF ThreadDies
<1>4. channel' = Append(channel, Turn!Line("base", how, 0))
      /\ UNCHANGED <<main, parallel, baseLogged, baseResult, headLogged, held, released, spoken,
                     outcome>>
  BY DEF ThreadDies, headVars
<1> QED
  BY <1>1, <1>2, <1>3, <1>4, MessageSent

\* The base scanned in turn runs at the main thread's "scan", and nothing it says is behind.
LEMMA BaseEndsInTurn ==
    ASSUME CheckoutInv, TurnInv, NEW how \in {"done", "failed"}, BaseEnds(how)
    PROVE  TurnInv' /\ UNCHANGED Turn!inTurnVars
<1>1. base = "running" /\ base' = how
      /\ UNCHANGED <<main, parallel, baseLogged, headLogged, held, released, spoken, outcome>>
  BY DEF BaseEnds, BaseRuns, headVars
<1>2. CASE parallel
  <2>1. Turn!Line("base", how, 0) \in Lines
    BY LineIsALine DEF Kinds
  <2>2. Turn!Line("base", how, 0).kind # "log"
    BY DEF Turn!Line
  <2>3. channel' = Append(channel, Turn!Line("base", how, 0)) /\ UNCHANGED baseResult
    BY <1>2 DEF BaseEnds
  <2> QED
    BY <1>1, <1>2, <2>1, <2>2, <2>3, MessageSent
<1>3. CASE ~parallel
  <2>1. channel = <<>> /\ channel' = channel /\ baseResult' = how
    BY <1>3 DEF BaseEnds, TurnInv, Unsent
  <2>2. SaidOf("base")' = SaidOf("base") /\ SaidOf("head")' = SaidOf("head")
        /\ LogsIn("head", spoken') = LogsIn("head", spoken)
    BY <1>1, SaidSame
  <2>3. Sent'
    <3>1. baseLogged \in Nat /\ SaidOf("base") \in Nat
      BY NumbersTyped
    <3>2. SaidOf("base") = baseLogged
      BY <2>1, <3>1 DEF TurnInv, Sent
    <3> QED
      BY <1>1, <2>1, <2>2, <3>1, <3>2 DEF Sent
  <2>4. Unsent'
    BY <2>1 DEF Unsent
  <2>5. Withheld'
    BY <1>1, <2>2 DEF TurnInv, Withheld
  <2>6. Decided'
    BY <1>1, <2>1 DEF TurnInv, Decided, EventLoop
  <2>7. TurnAt' = TurnAt
    BY <1>1 DEF TurnAt
  <2> QED
    BY <1>1, <2>3, <2>4, <2>5, <2>6, <2>7, Unnoticed DEF TurnInv
<1> QED
  BY <1>2, <1>3

\* A side's next line, said.
LEMMA LineSaid ==
    ASSUME CheckoutInv, NEW line \in Lines, spoken' = Append(spoken, line), NEW side
    PROVE  SaidOf(side)' = IF line.side = side /\ line.kind = "log" THEN SaidOf(side) + 1
                           ELSE SaidOf(side)
<1>1. SaidOf(side) = Cardinality(LogsIn(side, spoken))
      /\ SaidOf(side)' = Cardinality(LogsIn(side, spoken'))
  BY DEF SaidOf, LogsIn
<1> QED
  BY <1>1, LogsAppended DEF CheckoutInv, Held

\* And one said that is no log line of the head's leaves none of the head's said.
LEMMA NotTheHeads ==
    ASSUME CheckoutInv, NEW line \in Lines, spoken' = Append(spoken, line),
           ~(line.side = "head" /\ line.kind = "log"), LogsIn("head", spoken) = {}
    PROVE  LogsIn("head", spoken') = {}
<1>1. spoken \in Seq(Lines)
  BY DEF CheckoutInv, Held
<1>2. \A i \in DOMAIN spoken' :
        \/ i \in DOMAIN spoken /\ spoken'[i] = spoken[i]
        \/ spoken'[i] = line
  BY <1>1, Appended
<1> QED
  BY <1>2 DEF LogsIn

LEMMA OneLineLogged ==
    ASSUME NEW side \in {"base", "head"}, TurnAt = side, TurnAt' = side,
           TurnLogged \in Nat, TurnLogged + 1 <= Turn!Limit(side), Turn!Limit(side) \in Nat,
           TurnLogged' = TurnLogged + 1, outcome' = outcome, spoken \in Seq(Lines),
           spoken' = Append(spoken, Turn!Line(side, "log", TurnLogged + 1))
    PROVE  Turn!Log
<1>1. TurnLogged + 1 \in TurnLogged + 1..Turn!Limit(side)
  OBVIOUS
<1>2. Turn!LogLines(side, TurnLogged, TurnLogged + 1)
        = <<Turn!Line(side, "log", TurnLogged + 1)>>
  <2>1. (TurnLogged + 1) - TurnLogged = 1
    OBVIOUS
  <2>2. Turn!LogLines(side, TurnLogged, TurnLogged + 1)
          = [i \in 1..1 |-> Turn!Line(side, "log", TurnLogged + i)]
    BY <2>1 DEF Turn!LogLines
  <2>3. \A i \in 1..1 : i = 1
    OBVIOUS
  <2> QED
    BY <2>2, <2>3
<1>3. spoken' = spoken \o <<Turn!Line(side, "log", TurnLogged + 1)>>
  BY AppendIsConcat
<1> QED
  BY <1>1, <1>2, <1>3 DEF Turn!Log

LEMMA BaseLogsInTurn ==
    ASSUME CheckoutInv, TurnInv, BaseLogs
    PROVE  TurnInv' /\ [Turn!Next]_(Turn!inTurnVars)
<1> DEFINE line == Turn!Line("base", "log", baseLogged + 1)
<1>1. baseLogged \in Nat /\ baseLogged + 1 \in 0..BaseLines /\ baseLogged' = baseLogged + 1
      /\ SaidOf("base") \in Nat /\ headLogged \in Nat
  <2>1. baseLogged < BaseLines /\ baseLogged' = baseLogged + 1
    BY DEF BaseLogs
  <2> QED
    BY <2>1, NumbersTyped, ScanLinesAssumption
<1>2. line \in Lines /\ line.side = "base" /\ line.kind = "log"
  BY <1>1, LineIsALine DEF Kinds, Turn!Line
<1>3. base = "running" /\ base' = base
      /\ UNCHANGED <<main, parallel, baseResult, headLogged, held, released, outcome>>
  BY DEF BaseLogs, BaseRuns, headVars
<1>4. channel \in Seq(Lines) /\ spoken \in Seq(Lines)
  BY DEF CheckoutInv, Held
<1>5. baseResult = "none" /\ \A i \in DOMAIN channel : channel[i].kind = "log"
  BY <1>3 DEF CheckoutInv, Scans, BaseDone
<1>6. SaidOf("base") <= baseLogged /\ baseLogged - SaidOf("base") <= Len(channel)
      /\ \A i \in DOMAIN channel :
           /\ i <= baseLogged - SaidOf("base")
                => channel[i] = Turn!Line("base", "log", SaidOf("base") + i)
           /\ i > baseLogged - SaidOf("base") => channel[i].kind # "log"
  BY DEF TurnInv, Sent
<1>7. Len(channel) = baseLogged - SaidOf("base")
  <2>1. Len(channel) \in Nat /\ DOMAIN channel = 1..Len(channel)
    BY <1>4
  <2>2. \A i \in 1..Len(channel) : ~(i > baseLogged - SaidOf("base"))
    BY <1>5, <1>6, <2>1
  <2> QED
    BY <1>1, <1>6, <2>1, <2>2
<1>8. Decided' /\ TurnAt' = TurnAt
  BY <1>3 DEF TurnInv, Decided, EventLoop, TurnAt
<1>9. CASE parallel
  <2>1. channel' = Append(channel, line) /\ UNCHANGED spoken
    BY <1>9 DEF BaseLogs
  <2>2. SaidOf("base")' = SaidOf("base") /\ SaidOf("head")' = SaidOf("head")
        /\ LogsIn("head", spoken') = LogsIn("head", spoken)
    BY <2>1, SaidSame
  <2>3. Sent'
    <3>1. /\ Len(channel') = Len(channel) + 1
          /\ \A i \in DOMAIN channel' :
               \/ i \in DOMAIN channel /\ channel'[i] = channel[i]
               \/ i = Len(channel) + 1 /\ channel'[i] = line
      BY <1>2, <1>4, <2>1, Appended
    <3>2. ASSUME NEW i \in DOMAIN channel'
          PROVE  i <= baseLogged' - SaidOf("base")
                 /\ channel'[i] = Turn!Line("base", "log", SaidOf("base") + i)
      <4>1. CASE i \in DOMAIN channel /\ channel'[i] = channel[i]
        <5>1. i \in 1..Len(channel)
          BY <1>4, <4>1
        <5> QED
          BY <1>1, <1>6, <1>7, <4>1, <5>1
      <4>2. CASE i = Len(channel) + 1 /\ channel'[i] = line
        <5>1. SaidOf("base") + i = baseLogged + 1 /\ i <= baseLogged' - SaidOf("base")
          BY <1>1, <1>7, <4>2
        <5> QED
          BY <4>2, <5>1
      <4> QED
        BY <3>1, <4>1, <4>2
    <3>3. SaidOf("base") <= baseLogged' /\ baseLogged' - SaidOf("base") <= Len(channel')
      BY <1>1, <1>7, <3>1
    <3>4. \A i \in DOMAIN channel' : ~(i > baseLogged' - SaidOf("base"))
      <4>1. DOMAIN channel' \subseteq Nat
        BY <1>2, <1>4, <2>1, Appended
      <4> QED
        BY <1>1, <3>2, <4>1
    <3>5. baseResult' = "none" /\ base' # "idle"
      BY <1>3, <1>5
    <3> QED
      BY <2>2, <3>2, <3>3, <3>4, <3>5 DEF Sent
  <2>4. Unsent'
    BY <1>3, <1>9 DEF Unsent
  <2>5. Withheld'
    BY <1>3, <2>2 DEF TurnInv, Withheld
  <2> QED
    BY <1>3, <1>8, <2>1, <2>3, <2>4, <2>5, Unnoticed DEF TurnInv
<1>10. CASE ~parallel
  <2>1. channel = <<>> /\ UNCHANGED channel /\ spoken' = Append(spoken, line)
    BY <1>10 DEF BaseLogs, TurnInv, Unsent
  <2>2. SaidOf("base") = baseLogged /\ SaidOf("base")' = SaidOf("base") + 1
        /\ SaidOf("head")' = SaidOf("head")
    BY <1>1, <1>2, <1>7, <2>1, LineSaid
  <2>3. ~released /\ TurnAt = "base"
    <3>1. main = "scan"
      BY <1>3, <1>5, <1>10 DEF BaseLogs, BaseRuns, TurnInv, Decided
    <3> QED
      BY <3>1 DEF TurnInv, Decided, TurnAt
  <2>4. Sent'
    BY <1>1, <1>3, <1>5, <2>1, <2>2 DEF Sent
  <2>5. Unsent'
    BY <2>1 DEF Unsent
  <2>6. Withheld'
    BY <1>2, <1>3, <2>1, <2>3, NotTheHeads DEF TurnInv, Withheld
  <2>7. TurnLogged = SaidOf("base") /\ TurnLogged' = SaidOf("base")'
    BY <1>3, <2>3 DEF TurnLogged
  <2>8. Turn!Log
    <3>1. Turn!Limit("base") = BaseLines /\ BaseLines \in Nat
      BY ScanLinesAssumption DEF Turn!Limit
    <3> QED
      BY <1>1, <1>3, <1>4, <1>8, <2>1, <2>2, <2>3, <2>7, <3>1, OneLineLogged
  <2> QED
    BY <1>8, <2>4, <2>5, <2>6, <2>8 DEF TurnInv, Turn!Next
<1> QED
  BY <1>9, <1>10

LEMMA HeadLogsInTurn ==
    ASSUME CheckoutInv, TurnInv, HeadLogs
    PROVE  TurnInv' /\ [Turn!Next]_(Turn!inTurnVars)
<1> DEFINE line == Turn!Line("head", "log", headLogged + 1)
<1>1. headLogged \in Nat /\ headLogged + 1 \in 0..HeadLines /\ headLogged' = headLogged + 1
      /\ baseLogged \in Nat
  <2>1. headLogged < HeadLines /\ headLogged' = headLogged + 1
    BY DEF HeadLogs
  <2> QED
    BY <2>1, NumbersTyped, ScanLinesAssumption
<1>2. line \in Lines /\ line.side = "head" /\ line.kind = "log"
  BY <1>1, LineIsALine DEF Kinds, Turn!Line
<1>3. UNCHANGED <<main, parallel, base, baseLogged, channel, baseResult, released, outcome>>
  BY DEF HeadLogs, baseVars
<1>4. held \in Seq(Lines) /\ spoken \in Seq(Lines)
  BY DEF CheckoutInv, Held
<1>5. Decided' /\ TurnAt' = TurnAt /\ Unsent'
  BY <1>3 DEF TurnInv, Decided, EventLoop, TurnAt, Unsent
<1>6. CASE ~released
  <2>1. held' = Append(held, line) /\ UNCHANGED spoken
    BY <1>6 DEF HeadLogs, HoldsBack
  <2>2. SaidOf("base")' = SaidOf("base") /\ LogsIn("head", spoken') = LogsIn("head", spoken)
    BY <2>1, SaidSame
  <2>3. Len(held) = headLogged
    BY <1>6 DEF CheckoutInv, Held
  <2>4. \A i \in DOMAIN held' : held'[i] = Turn!Line("head", "log", i)
    BY <1>2, <1>4, <2>1, <2>3, Appended DEF TurnInv, Withheld
  <2>5. Withheld'
    BY <1>3, <1>6, <2>2, <2>4 DEF TurnInv, Withheld
  <2>6. Sent'
    BY <1>3, <2>2 DEF TurnInv, Sent
  <2> QED
    BY <1>3, <1>5, <2>1, <2>5, <2>6, Unnoticed DEF TurnInv
<1>7. CASE released
  <2>1. UNCHANGED held /\ spoken' = Append(spoken, line)
    BY <1>7 DEF HeadLogs, HoldsBack
  <2>2. SaidOf("head") = headLogged
    BY <1>7 DEF TurnInv, Withheld
  <2>3. SaidOf("head")' = SaidOf("head") + 1 /\ SaidOf("base")' = SaidOf("base")
    BY <1>2, <2>1, LineSaid
  <2>4. TurnAt = "head"
    <3>1. main = "head"
      BY <1>7 DEF HeadLogs, CheckoutInv, TypeOK, RunType, Scans, TurnInv, Decided, EventLoop,
                  Before, Scanning, Finally
    <3> QED
      BY <1>7, <3>1 DEF TurnInv, Decided, TurnAt
  <2>5. Withheld'
    BY <1>1, <1>3, <1>7, <2>1, <2>2, <2>3 DEF TurnInv, Withheld
  <2>6. Sent'
    BY <1>3, <2>3 DEF TurnInv, Sent
  <2>7. TurnLogged = SaidOf("head") /\ TurnLogged' = SaidOf("head")'
    BY <1>3, <1>7 DEF TurnLogged
  <2>8. Turn!Log
    <3>1. Turn!Limit("head") = HeadLines /\ HeadLines \in Nat
      BY ScanLinesAssumption DEF Turn!Limit
    <3> QED
      BY <1>1, <1>3, <1>4, <1>5, <2>1, <2>2, <2>3, <2>4, <2>7, <3>1, OneLineLogged
  <2> QED
    BY <1>5, <2>5, <2>6, <2>8 DEF TurnInv, Turn!Next
<1> QED
  BY <1>6, <1>7

LEMMA ReceiveInTurn ==
    ASSUME CheckoutInv, TurnInv, Receive
    PROVE  TurnInv' /\ [Turn!Next]_(Turn!inTurnVars)
<1> DEFINE message == Head(channel)
           said == SaidOf("base")
<1>1. EventLoop /\ channel # <<>> /\ channel' = Tail(channel)
      /\ UNCHANGED <<main, parallel, base, baseLogged, head, headLogged, held, released, outcome>>
  BY DEF Receive, headVars
<1>2. channel \in Seq(Lines) /\ spoken \in Seq(Lines)
  BY DEF CheckoutInv, Held
<1>3. /\ channel' \in Seq(Lines) /\ message \in Lines /\ message = channel[1]
      /\ 1 \in DOMAIN channel /\ Len(channel') = Len(channel) - 1 /\ Len(channel) \in Nat
      /\ \A i \in DOMAIN channel' :
           i \in Nat /\ i + 1 \in DOMAIN channel /\ channel'[i] = channel[i + 1]
  BY <1>1, <1>2, Taken
<1>4. baseLogged \in Nat /\ said \in Nat /\ headLogged \in Nat /\ baseLogged <= BaseLines
  BY NumbersTyped
<1>5. said <= baseLogged /\ baseLogged - said <= Len(channel)
      /\ \A i \in DOMAIN channel :
           /\ i <= baseLogged - said => channel[i] = Turn!Line("base", "log", said + i)
           /\ i > baseLogged - said => channel[i].kind # "log"
  BY DEF TurnInv, Sent
<1>6. base # "idle" /\ (baseResult # "none" => said = baseLogged)
  BY <1>1 DEF TurnInv, Sent
<1>7. TurnAt' = TurnAt
  BY <1>1 DEF TurnAt
<1>8. Unsent'
  BY <1>1 DEF TurnInv, Unsent
<1>9. baseResult # "none" => baseResult' = baseResult
  BY DEF Receive, Settled
<1>10. Decided'
  BY <1>1, <1>9 DEF TurnInv, Decided, EventLoop
<1> HIDE DEF message, said
<1>11. CASE message.kind = "log"
  <2>1. said < baseLogged
    BY <1>3, <1>4, <1>5, <1>11
  <2>2. message = Turn!Line("base", "log", said + 1)
    BY <1>3, <1>4, <1>5, <2>1
  <2>3. baseResult = "none" /\ baseResult' = baseResult /\ spoken' = Append(spoken, message)
    BY <1>4, <1>6, <1>11, <2>1 DEF Receive, message
  <2>4. message.side = "base"
    BY <2>2 DEF Turn!Line
  <2>5. said' = said + 1 /\ SaidOf("head")' = SaidOf("head")
    BY <1>3, <1>11, <2>3, <2>4, LineSaid DEF said
  <2>6. main = "scan" /\ TurnAt = "base" /\ ~released
    BY <1>1, <1>6, <2>3 DEF TurnInv, Decided, TurnAt
  <2>7. Sent'
    <3>1. ASSUME NEW i \in DOMAIN channel'
          PROVE  /\ i <= baseLogged - (said + 1)
                      => channel'[i] = Turn!Line("base", "log", said + 1 + i)
                 /\ i > baseLogged - (said + 1) => channel'[i].kind # "log"
      <4>1. i \in Nat /\ i + 1 \in DOMAIN channel /\ channel'[i] = channel[i + 1]
        BY <1>3
      <4>2. (i <= baseLogged - (said + 1) <=> i + 1 <= baseLogged - said)
            /\ (i > baseLogged - (said + 1) <=> i + 1 > baseLogged - said)
            /\ said + (i + 1) = said + 1 + i
        BY <1>4, <4>1
      <4> QED
        BY <1>5, <4>1, <4>2
    <3>2. said + 1 <= baseLogged /\ baseLogged - (said + 1) <= Len(channel')
      BY <1>3, <1>4, <1>5, <2>1
    <3> QED
      BY <1>1, <1>6, <2>3, <2>5, <3>1, <3>2 DEF Sent, said
  <2>8. Withheld'
    BY <1>1, <1>3, <2>3, <2>4, <2>6, <1>11, NotTheHeads, LineIsALine
       DEF TurnInv, Withheld, Turn!Line
  <2>9. Turn!Log
    <3>1. TurnLogged = said /\ TurnLogged' = said'
      BY <1>1, <2>6 DEF TurnLogged, said
    <3>2. Turn!Limit("base") = BaseLines /\ BaseLines \in Nat
      BY ScanLinesAssumption DEF Turn!Limit
    <3>3. said + 1 <= BaseLines
      BY <1>4, <2>1, <3>2
    <3> QED
      BY <1>1, <1>2, <1>4, <1>7, <2>2, <2>3, <2>5, <2>6, <3>1, <3>2, <3>3, OneLineLogged
  <2> QED
    BY <1>8, <1>10, <2>7, <2>8, <2>9 DEF TurnInv, Turn!Next
<1>12. CASE message.kind # "log"
  <2>1. said = baseLogged
    <3>1. ~(1 <= baseLogged - said)
      <4>1. Turn!Line("base", "log", said + 1).kind = "log"
        BY DEF Turn!Line
      <4> QED
        BY <1>3, <1>5, <1>12, <4>1
    <3> QED
      BY <1>4, <1>5, <3>1
  <2>2. \/ UNCHANGED spoken
        \/ spoken' = Append(spoken, Turn!Line("base", "thread", 0))
    BY <1>12 DEF Receive, message
  <2>3. Turn!Line("base", "thread", 0) \in Lines
        /\ Turn!Line("base", "thread", 0).kind # "log"
    BY LineIsALine DEF Kinds, Turn!Line
  <2>4. said' = said /\ SaidOf("head")' = SaidOf("head")
    BY <2>2, <2>3, SaidSame, LineSaid DEF said
  <2>5. LogsIn("head", spoken) = {} => LogsIn("head", spoken') = {}
    BY <2>2, <2>3, SaidSame, NotTheHeads
  <2>6. Sent'
    <3>1. \A i \in DOMAIN channel' :
            i \in Nat /\ i > 0 /\ channel'[i].kind # "log"
      <4>1. \A i \in DOMAIN channel : i > baseLogged - said
        BY <1>2, <1>4, <2>1
      <4>2. \A i \in DOMAIN channel' : i > 0
        BY <1>3
      <4> QED
        BY <1>3, <1>5, <4>1, <4>2
    <3>2. \A i \in DOMAIN channel' : ~(i <= baseLogged - said)
      BY <1>4, <2>1, <3>1
    <3>3. baseLogged - said <= Len(channel')
      BY <1>3, <1>4, <2>1
    <3> QED
      BY <1>1, <1>4, <1>6, <2>1, <2>4, <3>1, <3>2, <3>3 DEF Sent, said
  <2>7. Withheld'
    BY <1>1, <2>4, <2>5 DEF TurnInv, Withheld
  <2>8. [Turn!Next]_(Turn!inTurnVars)
    <3>1. CASE UNCHANGED spoken
      BY <1>1, <1>7, <3>1, Unnoticed
    <3>2. CASE spoken' = Append(spoken, Turn!Line("base", "thread", 0))
      <4>1. TurnLogged' = TurnLogged
        BY <1>1, <2>4 DEF TurnLogged, said
      <4> QED
        BY <1>1, <1>7, <3>2, <4>1 DEF Turn!Next, Turn!LateThreadWarning
    <3> QED
      BY <2>2, <3>1, <3>2
  <2> QED
    BY <1>8, <1>10, <2>6, <2>7, <2>8 DEF TurnInv
<1> QED
  BY <1>11, <1>12

LEMMA ReportSaysNoLog ==
    ASSUME CheckoutInv, NEW side \in {"base", "head"}, NEW who,
           spoken' = spoken \o Turn!Report(side, spoken)
    PROVE  LogsIn(who, spoken') = LogsIn(who, spoken) /\ SaidOf(who)' = SaidOf(who)
<1> DEFINE report == Turn!Report(side, spoken)
<1>1. spoken \in Seq(Lines) /\ report \in Seq(Lines)
  BY ReportIsLines DEF CheckoutInv, Held
<1>2. LogsIn(who, report) = {}
  <2>1. Turn!Line(side, "incidents", 0).kind # "log" /\ Turn!Line("both", "stray", 0).kind # "log"
    BY DEF Turn!Line
  <2>2. /\ <<Turn!Line(side, "incidents", 0)>> \in Seq(Lines)
        /\ <<Turn!Line("both", "stray", 0)>> \in Seq(Lines) /\ <<>> \in Seq(Lines)
    BY LineIsALine DEF Kinds
  <2>3. /\ LogsIn(who, <<Turn!Line(side, "incidents", 0)>>) = {}
        /\ LogsIn(who, <<Turn!Line("both", "stray", 0)>>) = {} /\ LogsIn(who, <<>>) = {}
    BY <2>1 DEF LogsIn
  <2>4. \/ report = <<Turn!Line(side, "incidents", 0)>> \o <<Turn!Line("both", "stray", 0)>>
        \/ report = <<Turn!Line(side, "incidents", 0)>> \o <<>>
    BY Zenon DEF Turn!Report
  <2>5. LogsIn(who, <<Turn!Line(side, "incidents", 0)>> \o <<Turn!Line("both", "stray", 0)>>) = {}
    BY <2>2, <2>3, LogsJoined
  <2>6. LogsIn(who, <<Turn!Line(side, "incidents", 0)>> \o <<>>) = {}
    BY <2>2, <2>3, LogsJoined
  <2> HIDE DEF report
  <2> QED
    BY <2>4, <2>5, <2>6, Zenon
<1>3. LogsIn(who, spoken') = LogsIn(who, spoken)
  BY <1>1, <1>2, LogsJoined
<1> QED
  BY <1>3 DEF SaidOf, LogsIn

LEMMA ReportBaseInTurn ==
    ASSUME CheckoutInv, TurnInv, ReportBase
    PROVE  TurnInv' /\ Turn!Scanned
<1>1. main = "scan" /\ main' = "base read" /\ baseResult = "done"
      /\ spoken' = spoken \o Turn!Report("base", spoken)
      /\ UNCHANGED <<parallel, base, baseLogged, channel, baseResult, headLogged, held, released,
                     outcome>>
  BY DEF ReportBase, baseVars, headVars
<1>2. \A who : LogsIn(who, spoken') = LogsIn(who, spoken) /\ SaidOf(who)' = SaidOf(who)
  BY <1>1, ReportSaysNoLog
<1>3. Sent' /\ Withheld' /\ Unsent'
  <2>1. Sent'
    BY <1>1, <1>2 DEF TurnInv, Sent
  <2>2. Withheld'
    BY <1>1, <1>2 DEF TurnInv, Withheld
  <2>3. Unsent'
    BY <1>1 DEF TurnInv, Unsent
  <2> QED
    BY <2>1, <2>2, <2>3
<1>4. Decided'
  BY <1>1 DEF TurnInv, Decided, Before, Finally, Cleanup, Stopped
<1>5. TurnAt = "base" /\ TurnAt' = "base read" /\ TurnLogged' = TurnLogged
  BY <1>1, <1>2 DEF TurnInv, Decided, TurnAt, TurnLogged
<1>6. Turn!Scanned
  BY <1>1, <1>5 DEF Turn!Scanned
<1> QED
  BY <1>3, <1>4, <1>6 DEF TurnInv

LEMMA ReportHeadInTurn ==
    ASSUME CheckoutInv, TurnInv, ReportHead
    PROVE  TurnInv' /\ Turn!Scanned
<1>1. main = "head" /\ main' = "head read"
      /\ spoken' = spoken \o Turn!Report("head", spoken)
      /\ UNCHANGED <<parallel, base, baseLogged, channel, baseResult, headLogged, held, released,
                     outcome>>
  BY DEF ReportHead, baseVars, headVars
<1>2. \A who : LogsIn(who, spoken') = LogsIn(who, spoken) /\ SaidOf(who)' = SaidOf(who)
  BY <1>1, ReportSaysNoLog
<1>3. Sent' /\ Withheld' /\ Unsent'
  <2>1. Sent'
    BY <1>1, <1>2 DEF TurnInv, Sent
  <2>2. Withheld'
    BY <1>1, <1>2 DEF TurnInv, Withheld
  <2>3. Unsent'
    BY <1>1 DEF TurnInv, Unsent
  <2> QED
    BY <2>1, <2>2, <2>3
<1>4. Decided'
  BY <1>1 DEF TurnInv, Decided, Before, Scanning, Finally, Cleanup, Stopped, EventLoop
<1>5. TurnAt = "head" /\ TurnAt' = "head read" /\ TurnLogged' = TurnLogged
  BY <1>1, <1>2 DEF TurnInv, Decided, TurnAt, TurnLogged
<1>6. Turn!Scanned
  BY <1>1, <1>5 DEF Turn!Scanned
<1> QED
  BY <1>3, <1>4, <1>6 DEF TurnInv

\* The release says the lines held back, which are the head's so far.
LEMMA BaseReadInTurn ==
    ASSUME CheckoutInv, TurnInv, BaseRead
    PROVE  TurnInv' /\ Turn!ReadBase
<1>1. main = "base read" /\ main' = "head" /\ spoken' = spoken \o held /\ held' = <<>>
      /\ UNCHANGED <<parallel, base, baseLogged, channel, baseResult, headLogged, outcome>>
  BY DEF BaseRead, baseVars
<1>2. ~released /\ released' /\ outcome = "running"
  BY DEF BaseRead, TurnInv, Decided
<1>3. spoken \in Seq(Lines) /\ held \in Seq(Lines) /\ Len(held) = headLogged
  BY <1>2 DEF CheckoutInv, Held
<1>4. LogsIn("head", spoken) = {} /\ \A i \in DOMAIN held : held[i] = Turn!Line("head", "log", i)
  BY <1>2 DEF TurnInv, Withheld
<1>5. LogsIn("base", held) = {} /\ LogsIn("head", held) = DOMAIN held
  BY <1>4 DEF LogsIn, Turn!Line
<1>6. SaidOf("base")' = SaidOf("base") /\ SaidOf("head")' = headLogged
  <2>1. LogsIn("base", spoken') = LogsIn("base", spoken)
    BY <1>1, <1>3, <1>5, LogsJoined
  <2>2. Cardinality(LogsIn("head", spoken')) = headLogged
    BY <1>1, <1>3, <1>4, <1>5, LogsReleased
  <2> QED
    BY <2>1, <2>2 DEF SaidOf, LogsIn
<1>7. Sent'
  BY <1>1, <1>6 DEF TurnInv, Sent
<1>8. Unsent'
  BY <1>1 DEF TurnInv, Unsent
<1>9. Withheld'
  <2>1. \A i \in DOMAIN held' : held'[i] = Turn!Line("head", "log", i)
    <3>1. DOMAIN <<>> = {}
      OBVIOUS
    <3>2. held' = <<>>
      BY <1>1
    <3> QED
      BY <3>1, <3>2, Zenon
  <2>2. SaidOf("head")' = headLogged'
    BY <1>1, <1>6
  <2> QED
    BY <1>2, <2>1, <2>2, Zenon DEF Withheld
<1>10. Decided'
  BY <1>1, <1>2 DEF TurnInv, Decided, Before, Scanning, Finally, Cleanup, Stopped, EventLoop
<1>11. TurnAt = "base read" /\ TurnAt' = "head" /\ TurnLogged' = headLogged
  BY <1>1, <1>2, <1>6 DEF TurnAt, TurnLogged
<1>12. held = Turn!LogLines("head", 0, headLogged)
  <2>1. headLogged \in Nat /\ headLogged - 0 = headLogged
    BY NumbersTyped
  <2>2. held = [i \in 1..headLogged |-> Turn!Line("head", "log", i)]
    BY <1>3, <1>4, <2>1
  <2>3. \A i \in 1..headLogged : 0 + i = i
    BY <2>1
  <2> QED
    BY <2>1, <2>2, <2>3 DEF Turn!LogLines
<1>13. headLogged \in 0..HeadLines
  BY DEF CheckoutInv, TypeOK, HeadType
<1>14. Turn!ReadBase
  BY <1>1, <1>11, <1>12, <1>13 DEF Turn!ReadBase
<1> QED
  BY <1>7, <1>8, <1>9, <1>10, <1>14 DEF TurnInv

-----------------------------------------------------------------------------
LEMMA InitInTurn == Init => TurnInv /\ Turn!Init
<1> SUFFICES ASSUME Init PROVE TurnInv /\ Turn!Init
  OBVIOUS
<1>1. spoken = <<>> /\ channel = <<>> /\ held = <<>> /\ baseLogged = 0 /\ baseResult = "none"
      /\ main = "preflight" /\ outcome = "running"
  BY DEF Init
<1>2. ~released
  BY DEF Init
<1>3. \A side : LogsIn(side, spoken) = {} /\ SaidOf(side) = 0
  BY <1>1, FS_EmptySet DEF SaidOf, LogsIn
<1>4. Sent
  BY <1>1, <1>3 DEF Sent
<1>5. Unsent /\ Withheld
  BY <1>1, <1>2, <1>3 DEF Unsent, Withheld
<1>6. Decided
  BY <1>1, <1>2 DEF Init, Decided, EventLoop, Before, Scanning, Finally, Cleanup, Stopped
<1>7. Turn!Init
  BY <1>1, <1>2, <1>3 DEF TurnAt, TurnLogged, Turn!Init
<1> QED
  BY <1>4, <1>5, <1>6, <1>7 DEF TurnInv

LEMMA StepInTurn ==
    ASSUME CheckoutInv, TurnInv, [Next]_vars
    PROVE  TurnInv' /\ [Turn!Next]_(Turn!inTurnVars)
<1>1. CASE UNCHANGED vars
  <2>1. UNCHANGED <<main, parallel, base, baseLogged, channel, baseResult, headLogged, held,
                    released, spoken, outcome>>
    BY <1>1 DEF vars
  <2>2. Sent' /\ Unsent' /\ Withheld'
    BY <2>1, LinesStay
  <2>3. Decided' /\ TurnAt' = TurnAt
    BY <2>1 DEF TurnInv, Decided, EventLoop, TurnAt
  <2> QED
    BY <2>1, <2>2, <2>3, Unnoticed DEF TurnInv
<1>2. CASE Main
  <2>1. CASE \E ok \in BOOLEAN :
               \/ Preflight(ok) \/ AddEnds(ok)
               \/ RemoveWorktree(ok) \/ RemoveTemp(ok)
               \/ CleanupWorktree(ok) \/ CleanupTemp(ok)
    BY <2>1, PreflightInTurn, AddEndsInTurn, RemoveWorktreeInTurn, RemoveTempInTurn,
       CleanupWorktreeInTurn, CleanupTempInTurn DEF Turn!Next
  <2>2. CASE Mkdtemp \/ Register \/ WaitHead \/ ReleaseSignals \/ Reraise
    BY <2>2, MkdtempInTurn, RegisterInTurn, WaitHeadInTurn, ReleaseSignalsInTurn, ReraiseInTurn
  <2>3. CASE ReportBase \/ BaseFails \/ BaseUnreadable \/ BaseRead \/ ReportHead \/ HeadFails
             \/ HeadRead
    BY <2>3, ReportBaseInTurn, BaseFailsInTurn, BaseUnreadableInTurn, BaseReadInTurn,
       ReportHeadInTurn, HeadFailsInTurn, HeadReadInTurn DEF Turn!Next
  <2> QED
    BY <1>2, <2>1, <2>2, <2>3 DEF Main
<1>3. CASE BaseScan
  BY <1>3, BaseLogsInTurn, BaseEndsInTurn DEF BaseScan
<1>4. CASE HeadScan
  BY <1>4, HeadLogsInTurn, HeadEndsInTurn DEF HeadScan
<1>5. CASE \E how \in {"error", "exit"} : ThreadDies(how)
  BY <1>5, ThreadDiesInTurn
<1>6. CASE Receive \/ Signal \/ GitOutlives
  BY <1>6, ReceiveInTurn, SignalInTurn, GitOutlivesInTurn DEF Turn!Next
<1> QED
  BY <1>1, <1>2, <1>3, <1>4, <1>5, <1>6 DEF Next

\* The concurrent run implements the run in turn: whatever the two scans' pace, however many
\* lines they log and whenever a signal comes, the lines on stderr, their order and the failure
\* that ends the run are some behaviour of scanInTurn.
THEOREM RunsAsInTurn == Spec => AsInTurn
<1>1. CheckoutInv /\ TurnInv /\ [Next]_vars => TurnInv' /\ [Turn!Next]_(Turn!inTurnVars)
  BY StepInTurn
<1>2. Spec => Init /\ [][Next]_vars /\ []CheckoutInv
  BY CheckoutInvHolds, PTL DEF Spec
<1>3. Init /\ [][Next]_vars /\ []CheckoutInv => Turn!Init /\ [][Turn!Next]_(Turn!inTurnVars)
  BY <1>1, InitInTurn, PTL
<1> QED
  BY <1>2, <1>3, PTL DEF AsInTurn, Turn!Spec
=============================================================================
