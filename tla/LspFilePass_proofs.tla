-------------------------- MODULE LspFilePass_proofs --------------------------
(***************************************************************************)
(* Proofs about LspFilePass, for any files, any number of hover workers,   *)
(* any thresholds and any replies: every request is accounted for, a call  *)
(* site's hint is the one of its first job, whatever order the workers'    *)
(* hovers settle in, and the server is given up on after straight          *)
(* fallbacks alone.                                                        *)
(***************************************************************************)
EXTENDS LspFilePass, FiniteSetTheorems, WellFoundedInduction, TLAPS

AllStopped == \A w \in Workers : pc[w] = "stopped"
NothingHeld == \A j \in JobIds : hovers[j] = None
JobCount == IF file \in Files THEN Len(JobKeys[file]) ELSE 0

\* The pool works only while the hovers of a file are asked for.
AtRest ==
    /\ step # "hover" => AllStopped
    /\ step \in {"open", "symbols"} => next = 1 /\ applied = 0 /\ NothingHeld
    /\ step = "ended" => applied = 0 /\ NothingHeld
    /\ step = "close" => \A j \in JobIds : hovers[j] # None => j <= applied
    /\ step = "close" => applied \in {0, JobCount}
    /\ applied <= JobCount

\* No two workers hold one job, nobody holds an answered one, and none is applied while one works.
AtWork ==
    /\ \A w \in InFlight : job[w] < next /\ hovers[job[w]] = None
    /\ \A v, w \in InFlight : job[v] = job[w] => v = w
    /\ \A j \in JobIds : hovers[j] # None => j \in 1..JobCount /\ j < next
    /\ applied > 0 => AllStopped

\* A call site of the file has the hint of the first applied job that was read to a member; one
\* of a later file has none.
Hit(j) == j <= applied /\ hovers[j] \in Targets
FirstHit(k, j) ==
    /\ j \in Jobs /\ JobKeys[file][j] = k
    /\ Hit(j) /\ hints[k] = hovers[j]
    /\ \A i \in Jobs : JobKeys[file][i] = k /\ Hit(i) => j <= i
Filed ==
    /\ \A f \in Files : f > file => \A j \in DOMAIN JobKeys[f] : hints[JobKeys[f][j]] = None
    /\ step \in {"open", "symbols", "hover", "close"} =>
         \A i \in Jobs :
           \/ hints[JobKeys[file][i]] = None /\ ~Hit(i)
           \/ \E j \in Jobs : FirstHit(JobKeys[file][i], j)

PassInv == TypeOK /\ AtRest /\ AtWork /\ Filed /\ EveryRequestEndsOnce /\ EveryHoverEndsOnce

-----------------------------------------------------------------------------
LEMMA Shape ==
    /\ Len(JobKeys) \in Nat /\ Files = 1..Len(JobKeys)
    /\ \A f \in Files : /\ Len(JobKeys[f]) \in Nat
                        /\ DOMAIN JobKeys[f] = 1..Len(JobKeys[f])
                        /\ DOMAIN JobKeys[f] \subseteq JobIds
                        /\ \A j \in DOMAIN JobKeys[f] : JobKeys[f][j] \in Keys
    /\ JobIds \subseteq Nat \ {0}
    /\ Workers \subseteq Nat \ {0} /\ IsFiniteSet(Workers)
<1>1. Len(JobKeys) \in Nat /\ Files = 1..Len(JobKeys)
      /\ \A f \in Files : JobKeys[f] \in Seq(Keys)
  BY JobKeysAssumption DEF Files
<1>2. ASSUME NEW f \in Files
      PROVE  /\ Len(JobKeys[f]) \in Nat
             /\ DOMAIN JobKeys[f] = 1..Len(JobKeys[f])
             /\ \A j \in DOMAIN JobKeys[f] : JobKeys[f][j] \in Keys
  BY <1>1
<1>3. \A f \in Files : DOMAIN JobKeys[f] \subseteq JobIds
  BY DEF JobIds
<1>4. JobIds \subseteq Nat \ {0}
  BY <1>2 DEF JobIds
<1>5. Workers \subseteq Nat \ {0} /\ IsFiniteSet(Workers)
  BY ThresholdAssumption, FS_Interval DEF Workers
<1> QED
  BY <1>1, <1>2, <1>3, <1>4, <1>5

LEMMA LeastMember ==
    ASSUME NEW R, R \subseteq Nat, R # {}
    PROVE  \E r \in R : \A q \in R : r <= q
<1>1. PICK r \in R : \A q \in R : ~ (<<q, r>> \in OpToRel(<, Nat))
  BY NatLessThanWellFounded, WFMin
<1>2. \A q \in R : ~ (q < r)
  BY <1>1, Zenon DEF OpToRel
<1> QED
  BY <1>2

LEMMA NextFileIsNext ==
    ASSUME NEW f \in 1..Len(JobKeys) + 1
    PROVE  /\ NextFile(f) \in f..Len(JobKeys) + 1
           /\ NextFile(f) \in Files => NextFile(f) \in Files \ Unread
<1>1. PICK R : R = {g \in f..Len(JobKeys) + 1 : g \notin Unread}
  OBVIOUS
<1>2. R \subseteq Nat /\ Len(JobKeys) + 1 \in R
  BY <1>1, Shape, JobKeysAssumption
<1>3. PICK g \in R : \A h \in R : g <= h
  BY <1>2, LeastMember
<1>4. \A h \in f..g - 1 : h \in Unread
  BY <1>1, <1>2, <1>3, Shape
<1>5. \E n \in f..Len(JobKeys) + 1 : n \notin Unread /\ \A h \in f..n - 1 : h \in Unread
  BY <1>1, <1>3, <1>4
<1> QED
  BY <1>5 DEF NextFile

LEMMA TargetsApart ==
    /\ None \notin Answers /\ Targets \cap Rejections = {}
    /\ Answers \cap Failures = {} /\ "throw" \notin Answers /\ Rejections \subseteq Counters
BY TargetsAssumption DEF Answers, Rejections, Failures, None, Counters

\* One counter is moved and no other.
LEMMA Counted ==
    ASSUME stats \in [Counters -> Nat], NEW c \in Counters, stats' = [stats EXCEPT ![c] = @ + 1]
    PROVE  /\ stats' \in [Counters -> Nat]
           /\ stats'[c] = stats[c] + 1
           /\ \A d \in Counters \ {c} : stats'[d] = stats[d]
OBVIOUS

LEMMA InFlightFinite ==
    IsFiniteSet(InFlight) /\ Cardinality(InFlight) \in Nat
BY Shape, FS_Subset, FS_CardinalityType DEF InFlight

Waiting == {j \in JobIds : j > applied /\ hovers[j] # None}

LEMMA WaitingFinite ==
    ASSUME PassInv
    PROVE  IsFiniteSet(Waiting) /\ Cardinality(Waiting) \in Nat /\ Waiting \subseteq 1..JobCount
<1>1. JobCount \in Nat
  BY Shape DEF JobCount
<1>2. Waiting \subseteq 1..JobCount
  BY DEF Waiting, PassInv, AtWork
<1>3. IsFiniteSet(1..JobCount)
  BY <1>1, FS_Interval
<1> QED
  BY <1>2, <1>3, FS_Subset, FS_CardinalityType

LEMMA Untouched ==
    ASSUME PassInv, FlagType',
           UNCHANGED <<file, step, pc, job, next, refused, hovers, failures, applied, reqStreak,
                       langStreak, stats, hints, answered>>
    PROVE  PassInv'
<1>1. LoopType' /\ PoolType'
  BY DEF PassInv, TypeOK, LoopType, PoolType, Jobs
<1>2. TallyType'
  BY DEF PassInv, TypeOK, TallyType
<1>3. AtRest' /\ AtWork'
  BY DEF PassInv, AtRest, AtWork, AllStopped, NothingHeld, JobCount, InFlight
<1>4. Filed'
  BY DEF PassInv, Filed, FirstHit, Hit, Jobs
<1>5. EveryRequestEndsOnce' /\ EveryHoverEndsOnce'
  BY DEF PassInv, EveryRequestEndsOnce, EveryHoverEndsOnce, InFlight
<1> QED
  BY <1>1, <1>2, <1>3, <1>4, <1>5 DEF PassInv, TypeOK

LEMMA InitPass == Init => PassInv
<1> SUFFICES ASSUME Init PROVE PassInv
  OBVIOUS
<1>1. file \in 1..Len(JobKeys) + 1 /\ (file \in Files => file \in Files \ Unread)
      /\ (file \notin Files => step = "ended") /\ (file \in Files => step = "open")
  BY Shape, NextFileIsNext DEF Init
<1>2. LoopType
  BY <1>1 DEF LoopType, Steps
<1>3. FlagType
  <2>1. closed \in Seq(BOOLEAN)
    BY DEF Init
  <2>2. fellBack \in BOOLEAN /\ over \in BOOLEAN /\ disposed \in BOOLEAN
    BY DEF Init
  <2> QED
    BY <2>1, <2>2 DEF FlagType
<1>4. /\ pc = [w \in Workers |-> "stopped"] /\ job = [w \in Workers |-> 0] /\ next = 1
      /\ hovers = [j \in JobIds |-> None] /\ refused = {} /\ failures = {} /\ applied = 0
      /\ stats = ZeroStats /\ hints = [k \in Keys |-> None]
      /\ answered = [symbols |-> 0, hovers |-> 0, threw |-> 0]
      /\ reqStreak = 0 /\ langStreak = 0
  BY DEF Init, IdlePool
<1>5. PoolType
  BY <1>4 DEF PoolType
<1>6. TallyType
  BY <1>4 DEF TallyType, ZeroStats
<1>7. JobCount \in Nat
  BY Shape DEF JobCount
<1>8. AllStopped /\ NothingHeld /\ InFlight = {}
  BY <1>4 DEF AllStopped, NothingHeld, InFlight
<1>9. AtRest
  BY <1>1, <1>4, <1>7, <1>8 DEF AtRest, NothingHeld
<1>10. AtWork
  BY <1>4, <1>8 DEF AtWork
<1>11. Filed
  <2>1. \A f \in Files : \A j \in DOMAIN JobKeys[f] : hints[JobKeys[f][j]] = None
    BY <1>4, Shape
  <2>2. \A i \in JobIds : ~Hit(i)
    BY <1>4, Shape DEF Hit
  <2>3. step = "open" => Jobs \subseteq JobIds /\ file \in Files
    BY <1>1, Shape DEF Jobs
  <2> QED
    BY <1>1, <2>1, <2>2, <2>3 DEF Filed, Jobs
<1>12. EveryRequestEndsOnce
  BY <1>1, <1>4, <1>8, FS_EmptySet DEF EveryRequestEndsOnce, ZeroStats, Counters, Rejections
<1>13. EveryHoverEndsOnce
  <2>1. {j \in JobIds : j > applied /\ hovers[j] # None} = {}
    BY <1>4
  <2> QED
    BY <1>4, <2>1, FS_EmptySet DEF EveryHoverEndsOnce, ZeroStats, Counters, Rejections
<1> QED
  BY <1>2, <1>3, <1>5, <1>6, <1>9, <1>10, <1>11, <1>12, <1>13 DEF PassInv, TypeOK

LEMMA EnvironmentKeeps ==
    ASSUME PassInv, BudgetSpent \/ ServerExits
    PROVE  PassInv'
<1>1. FlagType'
  BY DEF PassInv, TypeOK, FlagType, BudgetSpent, ServerExits
<1>2. UNCHANGED <<file, step, pc, job, next, refused, hovers, failures, applied, reqStreak,
                  langStreak, stats, hints, answered>>
  BY DEF BudgetSpent, ServerExits
<1> QED
  BY <1>1, <1>2, Untouched

LEMMA OpenKeeps ==
    ASSUME PassInv, NEW ok \in BOOLEAN, Open(ok)
    PROVE  PassInv'
<1>1. step = "open" /\ step' \in {"close", "symbols"}
      /\ UNCHANGED <<file, pc, job, next, hovers, failures, applied, reqStreak, langStreak, hints,
                     answered>>
  BY DEF Open
<1>2. LoopType'
  BY <1>1 DEF PassInv, TypeOK, LoopType, Steps
<1>3. FlagType'
  <2>1. fellBack' \in BOOLEAN
    BY Zenon DEF Open
  <2> QED
    BY <2>1 DEF PassInv, TypeOK, FlagType, Open
<1>4. refused' \subseteq Workers \cup {0}
  BY DEF PassInv, TypeOK, PoolType, Open, RefusedIfDisposed
<1>5. PoolType'
  BY <1>1, <1>4 DEF PassInv, TypeOK, PoolType, Jobs
<1>6. AtRest'
  BY <1>1 DEF PassInv, AtRest, AllStopped, NothingHeld, JobCount
<1>7. AtWork'
  BY <1>1 DEF PassInv, AtWork, AllStopped, JobCount, InFlight
<1>8. Filed'
  BY <1>1 DEF PassInv, Filed, FirstHit, Hit, Jobs
<1>9. InFlight' = InFlight
  BY <1>1 DEF InFlight
<1>10. stats \in [Counters -> Nat]
  BY DEF PassInv, TypeOK, TallyType
<1>11. CASE step' = "close"
  <2>1. UNCHANGED stats
    BY <1>11 DEF Open
  <2>2. TallyType' /\ EveryRequestEndsOnce' /\ EveryHoverEndsOnce'
    BY <1>1, <1>9, <1>11, <2>1
       DEF PassInv, TypeOK, TallyType, EveryRequestEndsOnce, EveryHoverEndsOnce
  <2> QED
    BY <1>2, <1>3, <1>5, <1>6, <1>7, <1>8, <2>2 DEF PassInv, TypeOK
<1>12. CASE step' = "symbols"
  <2>1. stats' = [stats EXCEPT !["requestsIssued"] = @ + 1]
    BY <1>12 DEF Open, Issue
  <2>2. /\ stats' \in [Counters -> Nat]
        /\ stats'["requestsIssued"] = stats["requestsIssued"] + 1
        /\ \A d \in Counters \ {"requestsIssued"} : stats'[d] = stats[d]
    BY <1>10, <2>1, Counted DEF Counters
  <2>3. TallyType'
    BY <1>1, <2>2 DEF PassInv, TypeOK, TallyType
  <2>4. EveryRequestEndsOnce'
    BY <1>1, <1>9, <1>10, <1>12, <2>2, InFlightFinite
       DEF PassInv, TypeOK, TallyType, EveryRequestEndsOnce, Counters, Rejections
  <2>5. EveryHoverEndsOnce'
    BY <1>1, <2>2 DEF PassInv, EveryHoverEndsOnce, Counters, Rejections
  <2> QED
    BY <1>2, <1>3, <1>5, <1>6, <1>7, <1>8, <2>3, <2>4, <2>5 DEF PassInv, TypeOK
<1> QED
  BY <1>1, <1>11, <1>12

LEMMA SymbolsKeeps ==
    ASSUME PassInv, NEW outcome \in Outcomes, Symbols(outcome)
    PROVE  PassInv'
<1>1. step = "symbols" /\ step' \in {"close", "threw", "hover"}
      /\ UNCHANGED <<file, job, next, refused, hovers, failures, applied, langStreak, hints>>
  BY DEF Symbols
<1>2. LoopType'
  BY <1>1 DEF PassInv, TypeOK, LoopType, Steps
<1>3. FlagType'
  <2>1. fellBack' \in BOOLEAN
    BY Zenon DEF Symbols
  <2> QED
    BY <2>1 DEF PassInv, TypeOK, FlagType, Symbols
<1>4. AllStopped /\ next = 1 /\ applied = 0 /\ NothingHeld
  BY <1>1 DEF PassInv, AtRest
<1>5. /\ pc' \in [Workers -> {"starting", "ready", "waiting", "stopped"}]
      /\ \A w \in Workers : pc'[w] \in {"starting", "stopped"}
      /\ step' # "hover" => \A w \in Workers : pc'[w] = "stopped"
  BY DEF Symbols
<1>6. PoolType'
  BY <1>1, <1>4, <1>5 DEF PassInv, TypeOK, PoolType, AllStopped
<1>7. InFlight = {} /\ InFlight' = {}
  BY <1>4, <1>5 DEF InFlight, AllStopped
<1>8. AtRest'
  BY <1>1, <1>4, <1>5 DEF PassInv, AtRest, AllStopped, NothingHeld, JobCount
<1>9. AtWork'
  BY <1>1, <1>4, <1>7 DEF PassInv, AtWork, NothingHeld, JobCount
<1>10. Filed'
  BY <1>1 DEF PassInv, Filed, FirstHit, Hit, Jobs
<1>11. stats \in [Counters -> Nat] /\ answered \in [{"symbols", "hovers", "threw"} -> Nat]
       /\ reqStreak \in Nat
  BY DEF PassInv, TypeOK, TallyType
<1>12. reqStreak' \in Nat
  BY <1>11 DEF Symbols, StreakAfter
<1>13. CASE outcome \in Failures
  <2>1. PICK c \in {"requestsTimedOut", "requestsFailed"} : stats' = [stats EXCEPT ![c] = @ + 1]
    BY <1>13 DEF Symbols, StatsAfter, Failures
  <2>2. answered' = answered
    BY <1>11, <1>13 DEF Symbols
  <2>3. /\ stats' \in [Counters -> Nat]
        /\ stats'[c] = stats[c] + 1
        /\ \A d \in Counters \ {c} : stats'[d] = stats[d]
    BY <1>11, <2>1, Counted DEF Counters
  <2>4. EveryRequestEndsOnce'
    BY <1>1, <1>7, <1>11, <2>2, <2>3, FS_EmptySet
       DEF PassInv, EveryRequestEndsOnce, Counters, Rejections
  <2>5. EveryHoverEndsOnce'
    BY <1>1, <2>2, <2>3 DEF PassInv, EveryHoverEndsOnce, Counters, Rejections
  <2>6. TallyType'
    BY <1>1, <1>12, <2>2, <2>3 DEF PassInv, TypeOK, TallyType
  <2> QED
    BY <1>2, <1>3, <1>6, <1>8, <1>9, <1>10, <2>4, <2>5, <2>6 DEF PassInv, TypeOK
<1>14. CASE outcome \notin Failures
  <2>1. stats' = stats
    BY <1>14 DEF Symbols, StatsAfter, Failures
  <2>2. answered' = [answered EXCEPT !["symbols"] = @ + 1]
    BY <1>14 DEF Symbols
  <2>3. /\ answered' \in [{"symbols", "hovers", "threw"} -> Nat]
        /\ answered'["symbols"] = answered["symbols"] + 1
        /\ answered'["hovers"] = answered["hovers"] /\ answered'["threw"] = answered["threw"]
    BY <1>11, <2>2
  <2>4. EveryRequestEndsOnce'
    BY <1>1, <1>7, <1>11, <2>1, <2>3, FS_EmptySet
       DEF PassInv, EveryRequestEndsOnce, Counters, Rejections
  <2>5. EveryHoverEndsOnce'
    BY <1>1, <2>1, <2>3 DEF PassInv, EveryHoverEndsOnce
  <2>6. TallyType'
    BY <1>1, <1>12, <2>1, <2>3 DEF PassInv, TypeOK, TallyType
  <2> QED
    BY <1>2, <1>3, <1>6, <1>8, <1>9, <1>10, <2>4, <2>5, <2>6 DEF PassInv, TypeOK
<1> QED
  BY <1>13, <1>14

\* While a worker is at work nothing has been applied yet.
LEMMA NothingApplied ==
    ASSUME PassInv, NEW w \in Workers, pc[w] # "stopped"
    PROVE  step = "hover" /\ file \in Files /\ applied = 0
<1>1. ~AllStopped
  BY DEF AllStopped
<1>2. step = "hover"
  BY <1>1 DEF PassInv, AtRest
<1>3. applied = 0
  BY <1>1 DEF PassInv, AtWork, TypeOK, TallyType
<1> QED
  BY <1>2, <1>3 DEF PassInv, TypeOK, LoopType

LEMMA SkipKeeps ==
    ASSUME PassInv, NEW w \in Workers, pc[w] \in {"starting", "ready"},
           step = "hover", next <= Len(JobKeys[file]), next' = next + 1, FlagType',
           pc' = [pc EXCEPT ![w] = "ready"],
           UNCHANGED <<file, step, job, refused, hovers, failures, applied, reqStreak,
                       langStreak, stats, hints, answered>>
    PROVE  PassInv'
<1>1. pc \in [Workers -> {"starting", "ready", "waiting", "stopped"}] /\ next \in Nat \ {0}
  BY DEF PassInv, TypeOK, PoolType
<1>2. pc[w] # "stopped" /\ applied = 0 /\ file \in Files
  BY NothingApplied
<1>3. InFlight' = InFlight
  BY <1>1 DEF InFlight
<1>4. LoopType' /\ TallyType'
  <2>1. LoopType'
    BY DEF PassInv, TypeOK, LoopType
  <2>2. TallyType'
    BY DEF PassInv, TypeOK, TallyType
  <2> QED
    BY <2>1, <2>2
<1>5. PoolType'
  BY <1>1 DEF PassInv, TypeOK, PoolType, Jobs
<1>6. AtRest'
  BY DEF PassInv, AtRest, NothingHeld, JobCount
<1>7. AtWork'
  <2>1. \A v \in InFlight : job[v] \in Nat /\ job[v] < next
    <3>1. Jobs \subseteq Nat
      BY <1>2, Shape DEF Jobs
    <3>2. \A v \in InFlight : job[v] \in Jobs
      BY DEF PassInv, TypeOK, PoolType, InFlight
    <3> QED
      BY <3>1, <3>2 DEF PassInv, AtWork
  <2>2. \A j \in JobIds : hovers[j] # None => j \in 1..JobCount /\ j < next + 1
    BY <1>1, Shape DEF PassInv, AtWork
  <2>3. \A v \in InFlight : job[v] < next + 1
    BY <1>1, <2>1
  <2> QED
    BY <1>2, <1>3, <2>2, <2>3 DEF PassInv, AtWork, JobCount
<1>8. Filed'
  BY DEF PassInv, Filed, FirstHit, Hit, Jobs
<1>9. EveryRequestEndsOnce' /\ EveryHoverEndsOnce'
  BY <1>3 DEF PassInv, EveryRequestEndsOnce, EveryHoverEndsOnce
<1> QED
  BY <1>4, <1>5, <1>6, <1>7, <1>8, <1>9 DEF PassInv, TypeOK

\* The job at the head of the queue is nobody's and has no answer.
LEMMA AskKeeps ==
    ASSUME PassInv, NEW w \in Workers, pc[w] \in {"starting", "ready"},
           step = "hover", next <= Len(JobKeys[file]), next' = next + 1, FlagType',
           pc' = [pc EXCEPT ![w] = "waiting"], job' = [job EXCEPT ![w] = next],
           refused' \subseteq Workers \cup {0}, Issue,
           UNCHANGED <<file, step, hovers, failures, applied, reqStreak, langStreak, hints,
                       answered>>
    PROVE  PassInv'
<1>1. /\ pc \in [Workers -> {"starting", "ready", "waiting", "stopped"}] /\ next \in Nat \ {0}
      /\ job \in [Workers -> JobIds \cup {0}]
      /\ \A v \in Workers : pc[v] = "waiting" => job[v] \in Jobs
  BY DEF PassInv, TypeOK, PoolType
<1>2. pc[w] # "stopped" /\ applied = 0 /\ file \in Files
  BY NothingApplied
<1>3. next \in Jobs /\ next \in JobIds /\ JobCount = Len(JobKeys[file]) /\ Jobs \subseteq Nat
  BY <1>1, <1>2, Shape DEF Jobs, JobCount
<1>4. InFlight' = InFlight \cup {w} /\ w \notin InFlight
  BY <1>1 DEF InFlight
<1>5. Cardinality(InFlight') = Cardinality(InFlight) + 1 /\ Cardinality(InFlight) \in Nat
  BY <1>4, InFlightFinite, FS_AddElement
<1>6. \A v \in InFlight : job'[v] = job[v] /\ job[v] \in Nat /\ job[v] < next
                          /\ hovers[job[v]] = None
  BY <1>1, <1>3, <1>4 DEF InFlight, PassInv, AtWork
<1>7. job'[w] = next /\ hovers[next] = None
  BY <1>1, <1>3 DEF PassInv, AtWork
<1>8. LoopType'
  BY DEF PassInv, TypeOK, LoopType
<1>9. PoolType'
  <2>1. \A v \in Workers : IF pc'[v] = "waiting" THEN job'[v] \in Jobs' ELSE job'[v] = 0
    BY <1>1, <1>3 DEF PassInv, TypeOK, PoolType, Jobs
  <2> QED
    BY <1>1, <1>3, <2>1 DEF PassInv, TypeOK, PoolType
<1>10. AtRest'
  BY DEF PassInv, AtRest, NothingHeld, JobCount
<1>11. AtWork'
  <2>1. \A v \in InFlight' : job'[v] < next' /\ hovers'[job'[v]] = None
    BY <1>1, <1>4, <1>6, <1>7
  <2>2. \A u, v \in InFlight' : job'[u] = job'[v] => u = v
    BY <1>1, <1>4, <1>6, <1>7 DEF PassInv, AtWork
  <2>3. \A j \in JobIds : hovers'[j] # None => j \in 1..JobCount' /\ j < next'
    BY <1>1, Shape DEF PassInv, AtWork, JobCount
  <2> QED
    BY <1>2, <2>1, <2>2, <2>3 DEF AtWork
<1>12. Filed'
  BY DEF PassInv, Filed, FirstHit, Hit, Jobs
<1>13. stats \in [Counters -> Nat] /\ stats' = [stats EXCEPT !["requestsIssued"] = @ + 1]
  BY DEF PassInv, TypeOK, TallyType, Issue
<1>14. /\ stats' \in [Counters -> Nat]
       /\ stats'["requestsIssued"] = stats["requestsIssued"] + 1
       /\ \A d \in Counters \ {"requestsIssued"} : stats'[d] = stats[d]
  BY <1>13, Counted DEF Counters
<1>15. TallyType'
  BY <1>14 DEF PassInv, TypeOK, TallyType
<1>16. EveryRequestEndsOnce'
  <2>1. /\ stats["requestsIssued"] \in Nat /\ stats["requestsTimedOut"] \in Nat
        /\ stats["requestsFailed"] \in Nat
        /\ answered["symbols"] \in Nat /\ answered["hovers"] \in Nat /\ answered["threw"] \in Nat
    BY <1>13 DEF PassInv, TypeOK, TallyType, Counters
  <2>2. stats'["requestsTimedOut"] = stats["requestsTimedOut"]
        /\ stats'["requestsFailed"] = stats["requestsFailed"]
    BY <1>14 DEF Counters
  <2>3. stats["requestsIssued"] =
          stats["requestsTimedOut"] + stats["requestsFailed"]
          + answered["symbols"] + answered["hovers"] + answered["threw"] + Cardinality(InFlight)
    BY <1>5, <2>1 DEF PassInv, EveryRequestEndsOnce
  <2>4. stats'["requestsIssued"] =
          stats'["requestsTimedOut"] + stats'["requestsFailed"]
          + answered'["symbols"] + answered'["hovers"] + answered'["threw"]
          + Cardinality(InFlight')
    BY <1>5, <1>14, <2>1, <2>2, <2>3
  <2>5. step' # "symbols" /\ Cardinality(InFlight') \in Nat
    BY <1>5
  <2> QED
    BY <2>1, <2>2, <2>4, <2>5 DEF EveryRequestEndsOnce
<1>17. EveryHoverEndsOnce'
  BY <1>14 DEF PassInv, EveryHoverEndsOnce, Counters, Rejections
<1> QED
  BY <1>8, <1>9, <1>10, <1>11, <1>12, <1>15, <1>16, <1>17 DEF PassInv, TypeOK

LEMMA TakeKeeps ==
    ASSUME PassInv, NEW w \in Workers, Take(w)
    PROVE  PassInv'
<1>1. /\ step = "hover" /\ pc[w] \in {"starting", "ready"} /\ next <= Len(JobKeys[file])
      /\ next' = next + 1
      /\ UNCHANGED <<file, step, hovers, failures, applied, reqStreak, langStreak, hints,
                     answered>>
  BY DEF Take
<1>2. FlagType'
  BY DEF PassInv, TypeOK, FlagType, Take
<1>3. CASE SkipJob
  BY <1>1, <1>2, <1>3, SkipKeeps DEF Take
<1>4. CASE ~SkipJob
  <2>1. refused' \subseteq Workers \cup {0}
    BY <1>4 DEF PassInv, TypeOK, PoolType, Take, RefusedIfDisposed
  <2> QED
    BY <1>1, <1>2, <1>4, <2>1, AskKeeps DEF Take
<1> QED
  BY <1>3, <1>4

LEMMA StopKeeps ==
    ASSUME PassInv, NEW w \in Workers, Stop(w)
    PROVE  PassInv'
<1>1. /\ step = "hover" /\ pc[w] \in {"starting", "ready"}
      /\ pc' = [pc EXCEPT ![w] = "stopped"]
      /\ UNCHANGED <<file, step, job, next, refused, hovers, failures, applied, reqStreak,
                     langStreak, stats, hints, answered>>
  BY DEF Stop
<1>2. pc \in [Workers -> {"starting", "ready", "waiting", "stopped"}]
  BY DEF PassInv, TypeOK, PoolType
<1>3. InFlight' = InFlight
  BY <1>1, <1>2 DEF InFlight
<1>4. LoopType'
  BY <1>1 DEF PassInv, TypeOK, LoopType
<1>5. FlagType'
  BY DEF PassInv, TypeOK, FlagType, Stop
<1>6. PoolType'
  BY <1>1, <1>2 DEF PassInv, TypeOK, PoolType, Jobs
<1>7. TallyType'
  BY <1>1 DEF PassInv, TypeOK, TallyType
<1>8. AtRest'
  BY <1>1 DEF PassInv, AtRest, NothingHeld, JobCount
<1>9. AtWork'
  <2>1. pc[w] # "stopped"
    BY <1>1
  <2>2. applied = 0
    BY <2>1, NothingApplied
  <2> QED
    BY <1>1, <1>3, <2>2 DEF PassInv, AtWork, JobCount
<1>10. Filed'
  BY <1>1 DEF PassInv, Filed, FirstHit, Hit, Jobs
<1>11. EveryRequestEndsOnce' /\ EveryHoverEndsOnce'
  BY <1>1, <1>3 DEF PassInv, EveryRequestEndsOnce, EveryHoverEndsOnce
<1> QED
  BY <1>4, <1>5, <1>6, <1>7, <1>8, <1>9, <1>10, <1>11 DEF PassInv, TypeOK

\* A hover that ends frees its worker; what it leaves behind is counted once, below.
LEMMA SettleFrees ==
    ASSUME PassInv, NEW w \in Workers, pc[w] = "waiting",
           pc' = [pc EXCEPT ![w] = "ready"], job' = [job EXCEPT ![w] = 0],
           UNCHANGED <<file, step, next, refused, applied, hints>>
    PROVE  /\ step = "hover" /\ file \in Files /\ applied = 0
           /\ job[w] \in Jobs /\ job[w] \in JobIds /\ job[w] < next /\ hovers[job[w]] = None
           /\ LoopType'
           /\ pc' \in [Workers -> {"starting", "ready", "waiting", "stopped"}]
           /\ job' \in [Workers -> JobIds \cup {0}]
           /\ \A v \in Workers : IF pc'[v] = "waiting" THEN job'[v] \in Jobs' ELSE job'[v] = 0
           /\ InFlight' = InFlight \ {w} /\ w \in InFlight
           /\ Cardinality(InFlight') = Cardinality(InFlight) - 1 /\ Cardinality(InFlight) \in Nat
           /\ \A v \in InFlight' : job'[v] = job[v] /\ job[v] # job[w]
<1>1. /\ pc \in [Workers -> {"starting", "ready", "waiting", "stopped"}]
      /\ job \in [Workers -> JobIds \cup {0}]
      /\ \A v \in Workers : IF pc[v] = "waiting" THEN job[v] \in Jobs ELSE job[v] = 0
  BY DEF PassInv, TypeOK, PoolType
<1>2. step = "hover" /\ file \in Files /\ applied = 0
  BY NothingApplied
<1>3. InFlight' = InFlight \ {w} /\ w \in InFlight
  BY <1>1 DEF InFlight
<1>4. Cardinality(InFlight') = Cardinality(InFlight) - 1 /\ Cardinality(InFlight) \in Nat
  BY <1>3, InFlightFinite, FS_RemoveElement
<1>5. job[w] \in Jobs /\ job[w] \in JobIds
  BY <1>1, <1>2, Shape DEF Jobs
<1>6. job[w] < next /\ hovers[job[w]] = None
  BY <1>3 DEF PassInv, AtWork
<1>7. LoopType'
  BY DEF PassInv, TypeOK, LoopType
<1>8. \A v \in Workers : IF pc'[v] = "waiting" THEN job'[v] \in Jobs' ELSE job'[v] = 0
  BY <1>1 DEF Jobs
<1>9. \A v \in InFlight' : job'[v] = job[v] /\ job[v] # job[w]
  BY <1>1, <1>3 DEF PassInv, AtWork, InFlight
<1>10. pc' \in [Workers -> {"starting", "ready", "waiting", "stopped"}]
       /\ job' \in [Workers -> JobIds \cup {0}]
  BY <1>1
<1> QED
  BY <1>2, <1>3, <1>4, <1>5, <1>6, <1>7, <1>8, <1>9, <1>10

LEMMA SettleKeeps ==
    ASSUME PassInv, NEW w \in Workers, NEW outcome \in Outcomes, Settle(w, outcome)
    PROVE  PassInv'
<1>1. /\ pc[w] = "waiting" /\ pc' = [pc EXCEPT ![w] = "ready"] /\ job' = [job EXCEPT ![w] = 0]
      /\ UNCHANGED <<file, step, next, refused, applied, langStreak, hints>>
  BY DEF Settle
<1>2. /\ step = "hover" /\ file \in Files /\ applied = 0
      /\ job[w] \in Jobs /\ job[w] \in JobIds /\ job[w] < next /\ hovers[job[w]] = None
      /\ LoopType'
      /\ pc' \in [Workers -> {"starting", "ready", "waiting", "stopped"}]
      /\ job' \in [Workers -> JobIds \cup {0}]
      /\ \A v \in Workers : IF pc'[v] = "waiting" THEN job'[v] \in Jobs' ELSE job'[v] = 0
      /\ InFlight' = InFlight \ {w} /\ w \in InFlight
      /\ Cardinality(InFlight') = Cardinality(InFlight) - 1 /\ Cardinality(InFlight) \in Nat
      /\ \A v \in InFlight' : job'[v] = job[v] /\ job[v] # job[w]
  BY <1>1, SettleFrees
<1>3. FlagType'
  <2>1. fellBack' \in BOOLEAN
    <3>1. fellBack \in BOOLEAN
      BY DEF PassInv, TypeOK, FlagType
    <3>2. fellBack' = fellBack \/ fellBack' = (fellBack \/ Escalates(outcome))
      BY Zenon DEF Settle
    <3> QED
      BY <3>1, <3>2, Zenon
  <2> QED
    BY <2>1 DEF PassInv, TypeOK, FlagType, Settle
<1>4. /\ stats \in [Counters -> Nat] /\ answered \in [{"symbols", "hovers", "threw"} -> Nat]
      /\ reqStreak \in Nat /\ langStreak \in Nat /\ hints \in [Keys -> Targets \cup {None}]
      /\ hovers \in [JobIds -> Answers \cup {None}] /\ failures \subseteq JobIds
  BY DEF PassInv, TypeOK, TallyType, PoolType
<1>5. stats["requestsIssued"] =
        stats["requestsTimedOut"] + stats["requestsFailed"]
        + answered["symbols"] + answered["hovers"] + answered["threw"] + Cardinality(InFlight)
  <2>1. stats["requestsIssued"] \in Nat /\ stats["requestsTimedOut"] \in Nat
        /\ stats["requestsFailed"] \in Nat
        /\ answered["symbols"] \in Nat /\ answered["hovers"] \in Nat /\ answered["threw"] \in Nat
    BY <1>4 DEF Counters
  <2> QED
    BY <1>2, <2>1 DEF PassInv, EveryRequestEndsOnce
<1>6. Filed => Filed'
  \* Nothing is applied, so nothing of this file is a hit, and no hint moves.
  <2>1. \A j \in JobIds : ~Hit(j) /\ ~Hit(j)'
    BY <1>1, <1>2, Shape DEF Hit
  <2>2. Jobs \subseteq JobIds /\ Jobs' = Jobs
    BY <1>1, <1>2, Shape DEF Jobs
  <2> QED
    BY <1>1, <1>2, <2>1, <2>2 DEF Filed, FirstHit
<1>7. reqStreak' \in Nat
  BY <1>4 DEF Settle, StreakAfter
<1>8. CASE outcome \in Failures
  <2>1. outcome # "throw" /\ outcome \notin Answers
    BY <1>8, TargetsApart DEF Failures
  <2>2. UNCHANGED <<hovers, answered, failures>>
    BY <2>1 DEF Settle
  <2>3. PICK c \in {"requestsTimedOut", "requestsFailed"} : stats' = [stats EXCEPT ![c] = @ + 1]
    BY <1>8, <2>1 DEF Settle, StatsAfter, Failures
  <2>4. /\ stats' \in [Counters -> Nat]
        /\ stats'[c] = stats[c] + 1
        /\ \A d \in Counters \ {c} : stats'[d] = stats[d]
    BY <1>4, <2>3, Counted DEF Counters
  <2>5. PoolType'
    BY <1>1, <1>2, <2>2 DEF PassInv, TypeOK, PoolType
  <2>6. TallyType'
    BY <1>1, <1>7, <2>2, <2>4 DEF PassInv, TypeOK, TallyType
  <2>7. AtRest'
    BY <1>1, <1>2, <2>2 DEF PassInv, AtRest, JobCount
  <2>8. AtWork'
    BY <1>1, <1>2, <2>2 DEF PassInv, AtWork, JobCount
  <2>9. EveryRequestEndsOnce'
    <3>1. stats'["requestsIssued"] = stats["requestsIssued"]
          /\ stats'["requestsTimedOut"] + stats'["requestsFailed"]
               = stats["requestsTimedOut"] + stats["requestsFailed"] + 1
          /\ stats'["requestsTimedOut"] \in Nat /\ stats'["requestsFailed"] \in Nat
          /\ answered' = answered /\ step' # "symbols"
      BY <1>1, <1>2, <1>4, <2>2, <2>4 DEF Counters
    <3>2. answered["symbols"] \in Nat /\ answered["hovers"] \in Nat /\ answered["threw"] \in Nat
          /\ stats["requestsTimedOut"] \in Nat /\ stats["requestsFailed"] \in Nat
      BY <1>4 DEF Counters
    <3>3. stats'["requestsIssued"] =
            stats'["requestsTimedOut"] + stats'["requestsFailed"]
            + answered'["symbols"] + answered'["hovers"] + answered'["threw"]
            + Cardinality(InFlight')
      BY <1>2, <1>5, <3>1, <3>2
    <3>4. step' # "symbols" /\ Cardinality(InFlight') \in Nat
      BY <1>2, <3>1, Shape, FS_RemoveElement, InFlightFinite, FS_CardinalityType
    <3> QED
      BY <3>1, <3>2, <3>3, <3>4 DEF EveryRequestEndsOnce
  <2>10. EveryHoverEndsOnce'
    BY <1>1, <2>2, <2>4 DEF PassInv, EveryHoverEndsOnce, Counters, Rejections
  <2> QED
    BY <1>2, <1>3, <1>6, <2>5, <2>6, <2>7, <2>8, <2>9, <2>10 DEF PassInv, TypeOK
<1>9. CASE outcome = "throw"
  <2>1. /\ failures' = failures \cup {job[w]} /\ answered' = [answered EXCEPT !["threw"] = @ + 1]
        /\ UNCHANGED <<stats, reqStreak, hovers>>
    BY <1>9 DEF Settle
  <2>2. /\ answered' \in [{"symbols", "hovers", "threw"} -> Nat]
        /\ answered'["threw"] = answered["threw"] + 1
        /\ answered'["hovers"] = answered["hovers"] /\ answered'["symbols"] = answered["symbols"]
    BY <1>4, <2>1
  <2>3. PoolType'
    BY <1>1, <1>2, <2>1 DEF PassInv, TypeOK, PoolType
  <2>4. TallyType'
    BY <1>1, <2>1, <2>2 DEF PassInv, TypeOK, TallyType
  <2>5. AtRest'
    BY <1>1, <1>2, <2>1 DEF PassInv, AtRest, JobCount
  <2>6. AtWork'
    BY <1>1, <1>2, <2>1 DEF PassInv, AtWork, JobCount
  <2>7. EveryRequestEndsOnce'
    <3>1. answered["symbols"] \in Nat /\ answered["hovers"] \in Nat /\ answered["threw"] \in Nat
          /\ stats["requestsTimedOut"] \in Nat /\ stats["requestsFailed"] \in Nat
      BY <1>4 DEF Counters
    <3>2. stats' = stats /\ step' # "symbols"
      BY <1>1, <1>2, <2>1
    <3> QED
      BY <1>2, <1>5, <2>2, <3>1, <3>2 DEF EveryRequestEndsOnce
  <2>8. EveryHoverEndsOnce'
    BY <1>1, <2>1, <2>2 DEF PassInv, EveryHoverEndsOnce
  <2> QED
    BY <1>2, <1>3, <1>6, <2>3, <2>4, <2>5, <2>6, <2>7, <2>8 DEF PassInv, TypeOK
<1>10. CASE outcome \in Answers
  <2>1. outcome # "throw" /\ outcome \notin Failures /\ outcome # None
    BY <1>10, TargetsApart
  <2>2. /\ hovers' = [hovers EXCEPT ![job[w]] = outcome]
        /\ answered' = [answered EXCEPT !["hovers"] = @ + 1]
        /\ UNCHANGED failures
    BY <1>10, <2>1 DEF Settle
  <2>3. stats' = stats
    BY <2>1 DEF Settle, StatsAfter, Failures
  <2>4. /\ answered' \in [{"symbols", "hovers", "threw"} -> Nat]
        /\ answered'["hovers"] = answered["hovers"] + 1
        /\ answered'["threw"] = answered["threw"] /\ answered'["symbols"] = answered["symbols"]
    BY <1>4, <2>2
  <2>5. /\ hovers' \in [JobIds -> Answers \cup {None}] /\ hovers'[job[w]] = outcome
        /\ \A j \in JobIds : j # job[w] => hovers'[j] = hovers[j]
    BY <1>2, <1>4, <1>10, <2>2
  <2>6. PoolType'
    BY <1>1, <1>2, <2>2, <2>5 DEF PassInv, TypeOK, PoolType
  <2>7. TallyType'
    BY <1>1, <1>7, <2>3, <2>4 DEF PassInv, TypeOK, TallyType
  <2>8. AtRest'
    BY <1>1, <1>2 DEF PassInv, AtRest, JobCount
  <2>9. AtWork'
    <3>1. \A v \in InFlight' : job'[v] < next' /\ hovers'[job'[v]] = None
      <4>1. \A v \in InFlight' : v \in InFlight /\ job[v] \in JobIds
        BY <1>2, Shape DEF PassInv, TypeOK, PoolType, InFlight, Jobs
      <4> QED
        BY <1>1, <1>2, <2>5, <4>1 DEF PassInv, AtWork
    <3>2. \A u, v \in InFlight' : job'[u] = job'[v] => u = v
      BY <1>2 DEF PassInv, AtWork
    <3>3. \A j \in JobIds : hovers'[j] # None => j \in 1..JobCount' /\ j < next'
      <4>1. job[w] \in 1..JobCount /\ JobCount' = JobCount
        BY <1>1, <1>2, Shape DEF JobCount, Jobs
      <4> QED
        BY <1>1, <1>2, <2>5, <4>1 DEF PassInv, AtWork
    <3> QED
      BY <1>1, <1>2, <3>1, <3>2, <3>3 DEF AtWork
  <2>10. EveryRequestEndsOnce'
    <3>1. answered["symbols"] \in Nat /\ answered["hovers"] \in Nat /\ answered["threw"] \in Nat
          /\ stats["requestsTimedOut"] \in Nat /\ stats["requestsFailed"] \in Nat
      BY <1>4 DEF Counters
    <3>2. stats'["requestsIssued"] =
            stats'["requestsTimedOut"] + stats'["requestsFailed"]
            + answered'["symbols"] + answered'["hovers"] + answered'["threw"]
            + Cardinality(InFlight')
      BY <1>2, <1>5, <2>3, <2>4, <3>1
    <3>3. step' # "symbols" /\ Cardinality(InFlight') \in Nat
      BY <1>1, <1>2, InFlightFinite, FS_RemoveElement, FS_CardinalityType
    <3> QED
      BY <2>3, <2>4, <3>1, <3>2, <3>3 DEF EveryRequestEndsOnce
  <2>11. EveryHoverEndsOnce'
    <3>1. Waiting' = Waiting \cup {job[w]} /\ job[w] \notin Waiting
      <4>1. job[w] > applied
        <5>1. job[w] \in Nat \ {0} /\ applied = 0
          BY <1>2, Shape
        <5> QED
          BY <5>1
      <4> QED
        BY <1>1, <1>2, <2>1, <2>5, <4>1 DEF Waiting
    <3>2. Cardinality(Waiting') = Cardinality(Waiting) + 1 /\ Cardinality(Waiting) \in Nat
      BY <3>1, WaitingFinite, FS_AddElement
    <3>3. stats["hintsProduced"] + stats["unparseableHover"] + stats["ownerClassNotFound"]
            + stats["memberNotFound"] = answered["hovers"] - Cardinality(Waiting)
      BY DEF PassInv, EveryHoverEndsOnce, Waiting
    <3>4. answered["hovers"] \in Nat
      BY <1>4
    <3>5. answered'["hovers"] - Cardinality(Waiting') = answered["hovers"] - Cardinality(Waiting)
      BY <2>4, <3>2, <3>4
    <3> QED
      BY <2>3, <3>3, <3>5 DEF EveryHoverEndsOnce, Waiting
  <2> QED
    BY <1>2, <1>3, <1>6, <2>6, <2>7, <2>8, <2>9, <2>10, <2>11 DEF PassInv, TypeOK
<1> QED
  BY <1>8, <1>9, <1>10 DEF Outcomes

-----------------------------------------------------------------------------
\* One held answer is applied: what was waiting is counted as a hint or as a rejection.
LEMMA ApplyKeeps ==
    ASSUME PassInv, Apply
    PROVE  PassInv'
<1>0. PICK j, key, hover : j = applied + 1 /\ key = JobKeys[file][j] /\ hover = hovers[j]
  OBVIOUS
<1>1. /\ step = "hover" /\ AllStopped /\ applied < Len(JobKeys[file]) /\ applied' = j
      /\ j = applied + 1 /\ key = JobKeys[file][j] /\ hover = hovers[j]
      /\ stats' = StatsApplying(key, hover) /\ hints' = HintsApplying(key, hover)
      /\ UNCHANGED <<file, step, fellBack, over, disposed, pc, job, next, refused, hovers,
                     failures, reqStreak, langStreak, answered, closed>>
  BY <1>0 DEF Apply, PoolDrained, AllStopped
<1>2. /\ stats \in [Counters -> Nat] /\ answered \in [{"symbols", "hovers", "threw"} -> Nat]
      /\ hints \in [Keys -> Targets \cup {None}] /\ applied \in Nat
      /\ hovers \in [JobIds -> Answers \cup {None}]
  BY DEF PassInv, TypeOK, TallyType, PoolType
<1>3. file \in Files
  BY <1>1 DEF PassInv, TypeOK, LoopType
<1>4. /\ Len(JobKeys[file]) \in Nat /\ Jobs = 1..Len(JobKeys[file]) /\ Jobs \subseteq JobIds
      /\ \A i \in Jobs : JobKeys[file][i] \in Keys
      /\ JobCount = Len(JobKeys[file])
  BY <1>3, Shape DEF Jobs, JobCount
<1>5. j \in Jobs /\ j \in JobIds /\ key \in Keys /\ hover \in Answers \cup {None}
  BY <1>1, <1>2, <1>4
<1>6. LoopType' /\ FlagType' /\ PoolType'
  <2>1. LoopType' /\ PoolType'
    BY <1>1 DEF PassInv, TypeOK, LoopType, PoolType, Jobs
  <2>2. FlagType'
    BY <1>1 DEF PassInv, TypeOK, FlagType
  <2> QED
    BY <2>1, <2>2
<1>7. hints' \in [Keys -> Targets \cup {None}]
  BY <1>1, <1>2, <1>5 DEF HintsApplying
<1>8. AtRest'
  BY <1>1, <1>2, <1>3, <1>4 DEF PassInv, AtRest, JobCount, AllStopped
<1>9. AtWork'
  <2>1. AllStopped' /\ InFlight = {} /\ InFlight' = {}
    BY <1>1 DEF AllStopped, InFlight
  <2>2. JobCount' = JobCount
    BY <1>1 DEF JobCount
  <2> QED
    BY <1>1, <2>1, <2>2 DEF PassInv, AtWork
<1>10. EveryRequestEndsOnce <=> EveryRequestEndsOnce'
  <2>1. /\ stats'["requestsIssued"] = stats["requestsIssued"]
        /\ stats'["requestsTimedOut"] = stats["requestsTimedOut"]
        /\ stats'["requestsFailed"] = stats["requestsFailed"]
    BY <1>1, <1>2 DEF StatsApplying, Rejections, Counters
  <2>2. InFlight' = InFlight
    BY <1>1 DEF InFlight
  <2> QED
    BY <1>1, <2>1, <2>2 DEF EveryRequestEndsOnce
<1>11. Cardinality(Waiting) \in Nat
       /\ stats["hintsProduced"] + stats["unparseableHover"] + stats["ownerClassNotFound"]
            + stats["memberNotFound"] = answered["hovers"] - Cardinality(Waiting)
  BY WaitingFinite DEF PassInv, EveryHoverEndsOnce, Waiting
<1>12. Waiting' = Waiting \ {j}
  <2>1. \A i \in JobIds : i > applied' <=> i > applied /\ i # j
    BY <1>1, <1>2, Shape
  <2> QED
    BY <1>1, <2>1 DEF Waiting
<1>13. ASSUME stats' \in [Counters -> Nat],
              hover # None => stats'["hintsProduced"] + stats'["unparseableHover"]
                                + stats'["ownerClassNotFound"] + stats'["memberNotFound"]
                              = stats["hintsProduced"] + stats["unparseableHover"]
                                + stats["ownerClassNotFound"] + stats["memberNotFound"] + 1,
              hover = None => stats' = stats
       PROVE  TallyType' /\ EveryHoverEndsOnce'
  <2>1. TallyType'
    <3>1. applied' \in Nat /\ reqStreak' \in Nat /\ langStreak' \in Nat
      BY <1>1, <1>2 DEF PassInv, TypeOK, TallyType
    <3> QED
      BY <1>1, <1>2, <1>7, <1>13, <3>1 DEF TallyType
  <2>2. CASE hover = None
    <3>1. Waiting' = Waiting
      BY <1>1, <1>12, <2>2 DEF Waiting
    <3> QED
      BY <1>1, <1>11, <1>13, <2>1, <2>2, <3>1 DEF EveryHoverEndsOnce, Waiting
  <2>3. CASE hover # None
    <3>1. j \in Waiting
      BY <1>1, <1>2, <1>5, <2>3 DEF Waiting
    <3>2. Cardinality(Waiting') = Cardinality(Waiting) - 1
      BY <1>12, <3>1, WaitingFinite, FS_RemoveElement
    <3>3. answered["hovers"] \in Nat
      BY <1>2
    <3>4. answered'["hovers"] - Cardinality(Waiting') = answered["hovers"] - Cardinality(Waiting) + 1
      BY <1>1, <1>11, <3>2, <3>3
    <3>5. stats'["hintsProduced"] + stats'["unparseableHover"] + stats'["ownerClassNotFound"]
            + stats'["memberNotFound"] = answered'["hovers"] - Cardinality(Waiting')
      BY <1>11, <1>13, <2>3, <3>4
    <3> QED
      BY <2>1, <3>5 DEF EveryHoverEndsOnce, Waiting
  <2> QED
    BY <2>1, <2>2, <2>3
<1>14. TallyType' /\ EveryHoverEndsOnce'
  <2>1. CASE hover \in Rejections
    <3>1. stats' = [stats EXCEPT ![hover] = @ + 1] /\ hover # None /\ hover \in Counters
      BY <1>1, <2>1, TargetsApart DEF StatsApplying, Answers
    <3>2. /\ stats' \in [Counters -> Nat] /\ stats'[hover] = stats[hover] + 1
          /\ \A d \in Counters \ {hover} : stats'[d] = stats[d]
      BY <1>2, <3>1, Counted
    <3>3. /\ stats["hintsProduced"] \in Nat /\ stats["unparseableHover"] \in Nat
          /\ stats["ownerClassNotFound"] \in Nat /\ stats["memberNotFound"] \in Nat
      BY <1>2 DEF Counters, Rejections
    <3>4. stats'["hintsProduced"] + stats'["unparseableHover"]
            + stats'["ownerClassNotFound"] + stats'["memberNotFound"]
          = stats["hintsProduced"] + stats["unparseableHover"]
            + stats["ownerClassNotFound"] + stats["memberNotFound"] + 1
      BY <2>1, <3>2, <3>3 DEF Counters, Rejections
    <3> QED
      BY <1>13, <3>1, <3>2, <3>4
  <2>2. CASE hover \in Targets
    <3>1. stats' = [stats EXCEPT !["hintsProduced"] = @ + 1] /\ hover # None
      BY <1>1, <2>2, TargetsApart DEF StatsApplying, Answers
    <3>2. /\ stats' \in [Counters -> Nat] /\ stats'["hintsProduced"] = stats["hintsProduced"] + 1
          /\ \A d \in Counters \ {"hintsProduced"} : stats'[d] = stats[d]
      BY <1>2, <3>1, Counted DEF Counters
    <3>3. /\ stats["hintsProduced"] \in Nat /\ stats["unparseableHover"] \in Nat
          /\ stats["ownerClassNotFound"] \in Nat /\ stats["memberNotFound"] \in Nat
      BY <1>2 DEF Counters, Rejections
    <3>4. stats'["hintsProduced"] + stats'["unparseableHover"]
            + stats'["ownerClassNotFound"] + stats'["memberNotFound"]
          = stats["hintsProduced"] + stats["unparseableHover"]
            + stats["ownerClassNotFound"] + stats["memberNotFound"] + 1
      BY <3>2, <3>3 DEF Counters, Rejections
    <3> QED
      BY <1>13, <3>1, <3>2, <3>4
  <2>3. CASE hover = None
    <3>1. stats' = stats
      BY <1>1, <2>3, TargetsApart DEF StatsApplying, Answers
    <3> QED
      BY <1>2, <1>13, <2>3, <3>1
  <2> QED
    BY <1>5, <2>1, <2>2, <2>3 DEF Answers
<1>15. Filed'
  <2>1. \A i \in Jobs : Hit(i)' <=> Hit(i) \/ (i = j /\ hover \in Targets)
    BY <1>1, <1>2, <1>4, <1>5 DEF Hit
  <2>2. Jobs' = Jobs
    BY <1>1 DEF Jobs
  <2>3. ASSUME NEW f \in Files, f > file, NEW i \in DOMAIN JobKeys[f]
        PROVE  hints'[JobKeys[f][i]] = None
    <3>1. JobKeys[f][i] # key /\ JobKeys[f][i] \in Keys
      BY <1>1, <1>3, <1>4, <1>5, <2>3, KeysAssumption, Shape DEF Jobs
    <3>2. hints[JobKeys[f][i]] = None
      BY <2>3 DEF PassInv, Filed
    <3> QED
      BY <1>1, <1>2, <3>1, <3>2 DEF HintsApplying
  <2>4. ASSUME NEW i \in Jobs
        PROVE  \/ hints'[JobKeys[file][i]] = None /\ ~Hit(i)'
               \/ \E m \in Jobs : FirstHit(JobKeys[file][i], m)'
    <3> DEFINE k == JobKeys[file][i]
    <3>0. k \in Keys
      BY <1>4
    <3>1. \/ hints[k] = None /\ ~Hit(i)
          \/ \E m \in Jobs : FirstHit(k, m)
      BY <1>1 DEF PassInv, Filed
    <3>2. CASE \E m \in Jobs : FirstHit(k, m)
      <4>1. PICK m \in Jobs : FirstHit(k, m)
        BY <3>2
      <4>2. hints[k] = hovers[m] /\ hovers[m] \in Targets /\ m <= applied
        BY <4>1 DEF FirstHit, Hit
      <4>3. hints[k] # None
        BY <4>2, TargetsApart DEF Answers
      <4>4. hints'[k] = hints[k]
        BY <1>1, <1>2, <1>5, <3>0, <4>3 DEF HintsApplying
      <4>5. \A n \in Jobs : JobKeys[file][n] = k /\ Hit(n)' => m <= n
        BY <1>1, <1>2, <1>4, <2>1, <4>1, <4>2 DEF FirstHit
      <4>6. Hit(m)' /\ JobKeys[file][m] = k
        BY <2>1, <4>1 DEF FirstHit
      <4>7. FirstHit(k, m)'
        BY <1>1, <2>2, <4>2, <4>4, <4>5, <4>6 DEF FirstHit
      <4> QED
        BY <4>7
    <3>3. CASE hints[k] = None /\ ~(\E m \in Jobs : FirstHit(k, m))
      <4>1. \A n \in Jobs : JobKeys[file][n] = k => ~Hit(n)
        <5>1. ASSUME NEW n \in Jobs, JobKeys[file][n] = k, Hit(n)
              PROVE  FALSE
          <6>1. \E m \in Jobs : FirstHit(JobKeys[file][n], m)
            BY <1>1, <5>1 DEF PassInv, Filed
          <6> QED
            BY <3>3, <5>1, <6>1
        <5> QED
          BY <5>1
      <4>2. CASE hover \in Targets /\ key = k
        <5>1. hints'[k] = hovers[j]
          BY <1>1, <1>2, <1>5, <3>0, <3>3, <4>2 DEF HintsApplying
        <5>2. \A n \in Jobs : JobKeys[file][n] = k /\ Hit(n)' => j <= n
          BY <1>2, <1>4, <1>5, <2>1, <4>1
        <5>3. Hit(j)'
          BY <1>5, <2>1, <4>2
        <5>4. FirstHit(k, j)'
          BY <1>1, <1>5, <2>2, <4>2, <5>1, <5>2, <5>3 DEF FirstHit
        <5> QED
          BY <1>5, <5>4
      <4>3. CASE ~(hover \in Targets /\ key = k)
        <5>1. hints'[k] = None
          BY <1>1, <1>2, <1>5, <3>0, <3>3, <4>3 DEF HintsApplying
        <5>2. ~Hit(i)'
          BY <1>1, <2>1, <4>1, <4>3
        <5> QED
          BY <5>1, <5>2
      <4> QED
        BY <4>2, <4>3
    <3> QED
      BY <3>1, <3>2, <3>3
  <2>5. (/\ \A f \in Files : f > file => \A i \in DOMAIN JobKeys[f] : hints[JobKeys[f][i]] = None
         /\ \A i \in Jobs : \/ hints[JobKeys[file][i]] = None /\ ~Hit(i)
                            \/ \E m \in Jobs : FirstHit(JobKeys[file][i], m))'
    BY <1>1, <2>2, <2>3, <2>4
  <2> QED
    BY <2>5 DEF Filed
<1> QED
  BY <1>6, <1>8, <1>9, <1>10, <1>14, <1>15 DEF PassInv, TypeOK

LEMMA HoversDoneKeeps ==
    ASSUME PassInv, HoversDone
    PROVE  PassInv'
<1>1. /\ step = "hover" /\ AllStopped /\ applied = Len(JobKeys[file])
      /\ step' \in {"close", "threw"}
      /\ UNCHANGED <<file, fellBack, over, disposed, pc, job, next, refused, hovers, failures,
                     applied, reqStreak, langStreak, stats, hints, answered, closed>>
  BY DEF HoversDone, PoolDrained, AllStopped
<1>2. file \in Files \ Unread
  BY <1>1 DEF PassInv, TypeOK, LoopType
<1>3. LoopType'
  BY <1>1, <1>2 DEF PassInv, TypeOK, LoopType, Steps
<1>4. FlagType'
  BY <1>1 DEF PassInv, TypeOK, FlagType
<1>5. PoolType' /\ TallyType'
  BY <1>1 DEF PassInv, TypeOK, PoolType, TallyType, Jobs
<1>6. JobCount = Len(JobKeys[file]) /\ JobCount \in Nat
  BY <1>2, Shape DEF JobCount
<1>7. \A j \in JobIds : hovers[j] # None => j <= applied
  BY <1>1, <1>6, Shape DEF PassInv, AtWork
<1>8. AtRest'
  BY <1>1, <1>6, <1>7 DEF PassInv, AtRest, AllStopped, JobCount
<1>9. AtWork'
  BY <1>1 DEF PassInv, AtWork, AllStopped, InFlight, JobCount
<1>10. Filed'
  BY <1>1 DEF PassInv, Filed, FirstHit, Hit, Jobs
<1>11. EveryRequestEndsOnce' /\ EveryHoverEndsOnce'
  BY <1>1 DEF PassInv, EveryRequestEndsOnce, EveryHoverEndsOnce, InFlight
<1> QED
  BY <1>3, <1>4, <1>5, <1>8, <1>9, <1>10, <1>11 DEF PassInv, TypeOK

\* A closed file leaves nothing behind: no request, no held answer, and no hint of a later file.
LEMMA CloseKeeps ==
    ASSUME PassInv, Close
    PROVE  PassInv'
<1>1. /\ step = "close" /\ AllStopped /\ file \in Files \ Unread /\ file \in Nat
      /\ pc' = [w \in Workers |-> "stopped"] /\ job' = [w \in Workers |-> 0]
      /\ next' = 1 /\ refused' = {} /\ failures' = {} /\ applied' = 0 /\ reqStreak' = 0
      /\ hovers' = [j \in JobIds |-> None]
      /\ UNCHANGED <<disposed, hints, answered>>
  <2>1. step = "close"
    BY DEF Close
  <2>2. file \in Files \ Unread /\ file \in Nat
    BY <2>1, Shape DEF PassInv, TypeOK, LoopType
  <2> QED
    BY <2>1, <2>2 DEF Close, PassInv, AtRest
<1>2. /\ stats \in [Counters -> Nat] /\ answered \in [{"symbols", "hovers", "threw"} -> Nat]
      /\ langStreak \in Nat /\ hints \in [Keys -> Targets \cup {None}] /\ applied \in Nat
      /\ hovers \in [JobIds -> Answers \cup {None}]
  BY DEF PassInv, TypeOK, TallyType, PoolType
<1>3. \/ step' = "disabled" /\ file' = file
      \/ file' = NextFile(file + 1) /\ step' = (IF file' \in Files THEN "open" ELSE "ended")
  BY DEF Close
<1>4. file + 1 \in 1..Len(JobKeys) + 1 /\ file <= Len(JobKeys)
  BY <1>1, Shape
<1>6. LoopType' /\ file' >= file /\ (step' = "open" => file' > file) /\ file' \in Nat
      /\ step' \in {"open", "ended", "disabled"}
  <2>1. CASE step' = "disabled" /\ file' = file
    <3>1. file' \in 1..Len(JobKeys) + 1
      BY <1>1, <2>1 DEF PassInv, TypeOK, LoopType
    <3> QED
      BY <1>1, <2>1, <3>1 DEF LoopType, Steps
  <2>2. CASE file' = NextFile(file + 1) /\ step' = (IF file' \in Files THEN "open" ELSE "ended")
    <3>1. file' \in file + 1..Len(JobKeys) + 1 /\ (file' \in Files => file' \in Files \ Unread)
      BY <1>4, <2>2, NextFileIsNext
    <3>2. file' > file /\ file' \in 1..Len(JobKeys) + 1 /\ file' \in Nat
      BY <1>1, <3>1, Shape
    <3>3. step' \in {"open", "ended"} /\ (step' # "ended" => file' \in Files \ Unread)
      BY <2>2, <3>1
    <3> QED
      BY <1>1, <3>2, <3>3 DEF LoopType, Steps
  <2> QED
    BY <1>3, <2>1, <2>2
<1>7. FlagType'
  <2>1. fellBack \in BOOLEAN /\ over \in BOOLEAN /\ disposed \in BOOLEAN /\ closed \in Seq(BOOLEAN)
    BY DEF PassInv, TypeOK, FlagType
  <2>2. fellBack' \in BOOLEAN /\ over' \in BOOLEAN
    BY <2>1, Zenon DEF Close
  <2>3. closed' \in Seq(BOOLEAN)
    <3>1. closed' = Append(closed, fellBack)
      BY DEF Close
    <3> QED
      BY <2>1, <3>1
  <2> QED
    BY <1>1, <2>1, <2>2, <2>3 DEF FlagType
<1>8. PoolType'
  BY <1>1 DEF PoolType
<1>9. PICK c \in {"filesFellBack", "filesEnriched"} : stats' = [stats EXCEPT ![c] = @ + 1]
  BY DEF Close
<1>10. /\ stats' \in [Counters -> Nat]
       /\ \A d \in Counters \ {"filesFellBack", "filesEnriched"} : stats'[d] = stats[d]
  BY <1>2, <1>9, Counted DEF Counters
<1>11. TallyType'
  <2>1. langStreak' \in Nat
    BY <1>2 DEF Close, LangStreakAfter
  <2> QED
    BY <1>1, <1>2, <1>10, <2>1 DEF TallyType
<1>12. JobCount' \in Nat
  BY Shape DEF JobCount
<1>13. AllStopped' /\ NothingHeld' /\ InFlight' = {} /\ InFlight = {}
  BY <1>1 DEF AllStopped, NothingHeld, InFlight
<1>14. AtRest'
  BY <1>1, <1>6, <1>12, <1>13 DEF AtRest, NothingHeld
<1>15. AtWork'
  BY <1>1, <1>13 DEF AtWork, NothingHeld
<1>16. \A j \in JobIds : ~Hit(j)'
  BY <1>1, TargetsApart DEF Hit, Answers
<1>17. Filed'
  <2>1. ASSUME NEW f \in Files, f > file', NEW j \in DOMAIN JobKeys[f]
        PROVE  hints'[JobKeys[f][j]] = None
    <3>1. f > file
      BY <1>1, <1>6, <2>1, Shape
    <3> QED
      BY <1>1, <2>1, <3>1 DEF PassInv, Filed
  <2>2. ASSUME step' = "open", NEW i \in Jobs'
        PROVE  hints'[JobKeys[file'][i]] = None /\ ~Hit(i)'
    <3>1. file' \in Files /\ file' > file
      BY <1>6, <2>2 DEF LoopType
    <3>2. i \in DOMAIN JobKeys[file'] /\ i \in JobIds
      BY <2>2, <3>1, Shape DEF Jobs
    <3> QED
      BY <1>1, <1>16, <3>1, <3>2 DEF PassInv, Filed
  <2> QED
    BY <1>6, <2>1, <2>2 DEF Filed
<1>18. EveryRequestEndsOnce'
  <2>1. /\ stats'["requestsIssued"] = stats["requestsIssued"]
        /\ stats'["requestsTimedOut"] = stats["requestsTimedOut"]
        /\ stats'["requestsFailed"] = stats["requestsFailed"]
    BY <1>10 DEF Counters
  <2>2. step # "symbols" /\ step' # "symbols" /\ InFlight' = InFlight
    BY <1>1, <1>6, <1>13
  <2> QED
    BY <1>1, <2>1, <2>2 DEF PassInv, EveryRequestEndsOnce
<1>19. EveryHoverEndsOnce'
  <2>1. Waiting = {} /\ Waiting' = {}
    <3>1. \A j \in JobIds : hovers[j] # None => j <= applied
      BY <1>1 DEF PassInv, AtRest
    <3>2. Waiting = {}
      <4>1. applied \in Nat /\ JobIds \subseteq Nat
        BY <1>2, Shape
      <4>2. \A j \in JobIds : ~(j > applied /\ hovers[j] # None)
        BY <3>1, <4>1
      <4> QED
        BY <4>2 DEF Waiting
    <3> QED
      BY <1>13, <3>2 DEF Waiting, NothingHeld
  <2>2. /\ stats'["hintsProduced"] = stats["hintsProduced"]
        /\ \A r \in Rejections : stats'[r] = stats[r]
    BY <1>10 DEF Counters, Rejections
  <2>3. stats["hintsProduced"] + stats["unparseableHover"] + stats["ownerClassNotFound"]
          + stats["memberNotFound"] = answered["hovers"] - Cardinality(Waiting)
    BY DEF PassInv, EveryHoverEndsOnce, Waiting
  <2>4. stats'["hintsProduced"] + stats'["unparseableHover"] + stats'["ownerClassNotFound"]
          + stats'["memberNotFound"] = answered'["hovers"] - Cardinality(Waiting')
    BY <1>1, <2>1, <2>2, <2>3 DEF Rejections
  <2> QED
    BY <2>4 DEF EveryHoverEndsOnce, Waiting
<1> QED
  BY <1>6, <1>7, <1>8, <1>11, <1>14, <1>15, <1>17, <1>18, <1>19 DEF PassInv, TypeOK


-----------------------------------------------------------------------------
\* The inductive invariant of a language's pass: what is at rest, who works on what, which call
\* sites have their hint, and the two sums.
THEOREM PassInvHolds == Spec => []PassInv
<1>1. Init => PassInv
  BY InitPass
<1>2. ASSUME PassInv, [Next]_vars
      PROVE  PassInv'
  <2>1. CASE \E ok \in BOOLEAN : Open(ok)
    BY <1>2, <2>1, OpenKeeps
  <2>2. CASE \E o \in Outcomes : Symbols(o)
    BY <1>2, <2>2, SymbolsKeeps
  <2>3. CASE Apply
    BY <1>2, <2>3, ApplyKeeps
  <2>4. CASE HoversDone
    BY <1>2, <2>4, HoversDoneKeeps
  <2>5. CASE Close
    BY <1>2, <2>5, CloseKeeps
  <2>6. CASE \E w \in Workers : Worker(w)
    BY <1>2, <2>6, TakeKeeps, StopKeeps, SettleKeeps DEF Worker
  <2>7. CASE BudgetSpent \/ ServerExits
    BY <1>2, <2>7, EnvironmentKeeps
  <2>8. CASE UNCHANGED vars
    <3>1. FlagType'
      BY <1>2, <2>8 DEF PassInv, TypeOK, FlagType, vars
    <3> QED
      BY <1>2, <2>8, <3>1, Untouched DEF vars
  <2> QED
    BY <1>2, <2>1, <2>2, <2>3, <2>4, <2>5, <2>6, <2>7, <2>8 DEF Next, FileLoop
<1> QED
  BY <1>1, <1>2, PTL DEF Spec

\* Whatever order the workers' hovers settle in, every request is counted as issued once and ends
\* in exactly one way, every hover that came back becomes a hint or a rejection or is still held,
\* and none outlives its file.
THEOREM RequestsAccountedHolds == Spec => []RequestsAccounted
<1>1. ASSUME PassInv
      PROVE  RequestsAccounted
  <2>1. NoRequestOutlivesItsFile
    BY <1>1 DEF PassInv, AtRest, AllStopped, InFlight, NoRequestOutlivesItsFile
  <2> QED
    BY <1>1, <2>1 DEF PassInv, RequestsAccounted
<1> QED
  BY <1>1, PassInvHolds, PTL

\* When a file's answers are all applied, each of its call sites has the hint of its first job, in
\* job order, that was read to a member, and a call site with no such job has no hint.
THEOREM HintsInJobOrderHolds == Spec => []HintsInJobOrder
<1>1. ASSUME PassInv
      PROVE  HintsInJobOrder
  <2>1. SUFFICES ASSUME step = "close", applied > 0, NEW i \in Jobs
                 PROVE  LET hit == {j \in Jobs : JobKeys[file][j] = JobKeys[file][i]
                                                 /\ hovers[j] \in Targets}
                        IN  IF hit = {} THEN hints[JobKeys[file][i]] = None
                            ELSE \E j \in hit : /\ hints[JobKeys[file][i]] = hovers[j]
                                                /\ \A n \in hit : j <= n
    BY DEF HintsInJobOrder
  <2>2. file \in Files /\ applied \in Nat /\ applied = JobCount /\ JobCount = Len(JobKeys[file])
    BY <1>1, <2>1 DEF PassInv, TypeOK, LoopType, TallyType, AtRest, JobCount
  <2>3. Jobs = 1..applied
    BY <2>2, Shape DEF Jobs
  <2>4. \A j \in Jobs : Hit(j) <=> hovers[j] \in Targets
    BY <2>2, <2>3 DEF Hit
  <2>5. \/ hints[JobKeys[file][i]] = None /\ ~Hit(i)
        \/ \E j \in Jobs : FirstHit(JobKeys[file][i], j)
    BY <1>1, <2>1 DEF PassInv, Filed
  <2>6. CASE \E j \in Jobs : FirstHit(JobKeys[file][i], j)
    BY <2>4, <2>6 DEF FirstHit
  <2>7. CASE hints[JobKeys[file][i]] = None
    <3>1. \A j \in Jobs : JobKeys[file][j] = JobKeys[file][i] => ~Hit(j)
      <4>1. ASSUME NEW j \in Jobs, JobKeys[file][j] = JobKeys[file][i], Hit(j)
            PROVE  FALSE
        <5>1. PICK m \in Jobs : FirstHit(JobKeys[file][j], m)
          BY <1>1, <2>1, <4>1 DEF PassInv, Filed
        <5>2. hints[JobKeys[file][i]] \in Targets
          BY <4>1, <5>1 DEF FirstHit, Hit
        <5> QED
          BY <2>7, <5>2, TargetsApart DEF Answers
      <4> QED
        BY <4>1
    <3> QED
      BY <2>4, <2>7, <3>1
  <2> QED
    BY <2>5, <2>6, <2>7
<1> QED
  BY <1>1, PassInvHolds, PTL


-----------------------------------------------------------------------------
(* When a language is disabled *)

\* langStreak is the length of the run of fallbacks that ends the closed files, and the language
\* is disabled when, and only when, that run is long enough.
Streak ==
    /\ langStreak <= Len(closed)
    /\ \A i \in Len(closed) - langStreak + 1..Len(closed) : closed[i] = TRUE
    /\ langStreak < Len(closed) => closed[Len(closed) - langStreak] = FALSE
    /\ step = "disabled" <=> langStreak >= FilesToLanguage

LEMMA CloseKeepsStreak ==
    ASSUME TypeOK, Streak, Close
    PROVE  Streak'
<1>1. closed \in Seq(BOOLEAN) /\ langStreak \in Nat /\ fellBack \in BOOLEAN
  BY DEF TypeOK, FlagType, TallyType
<1>2. PICK n \in Nat : n = Len(closed)
  BY <1>1
<1>3. closed' = Append(closed, fellBack)
  BY DEF Close
<1>4. Len(closed') = n + 1 /\ closed'[n + 1] = fellBack /\ \A i \in 1..n : closed'[i] = closed[i]
  BY <1>1, <1>2, <1>3
<1>5. step' = "disabled" <=> langStreak' >= FilesToLanguage
  BY DEF Close
<1>6. CASE fellBack = TRUE
  <2>1. langStreak' = langStreak + 1
    BY <1>6 DEF Close, LangStreakAfter
  <2>2. ASSUME NEW i \in Len(closed') - langStreak' + 1..Len(closed')
        PROVE  closed'[i] = TRUE
    <3>1. i = n + 1 \/ i \in n - langStreak + 1..n
      BY <1>1, <1>2, <1>4, <2>1, <2>2
    <3>2. ASSUME i \in n - langStreak + 1..n
          PROVE  i \in 1..n
      BY <1>1, <1>2, <3>2 DEF Streak
    <3> QED
      BY <1>2, <1>4, <1>6, <3>1, <3>2 DEF Streak
  <2>3. ASSUME langStreak' < Len(closed')
        PROVE  closed'[Len(closed') - langStreak'] = FALSE
    <3>1. langStreak < n /\ Len(closed') - langStreak' = n - langStreak
      BY <1>1, <1>2, <1>4, <2>1, <2>3
    <3>2. n - langStreak \in 1..n
      BY <1>1, <1>2, <3>1
    <3> QED
      BY <1>2, <1>4, <3>1, <3>2 DEF Streak
  <2>4. langStreak' <= Len(closed')
    BY <1>1, <1>2, <1>4, <2>1 DEF Streak
  <2> QED
    BY <1>5, <2>2, <2>3, <2>4 DEF Streak
<1>7. CASE fellBack = FALSE
  <2>1. langStreak' = 0
    BY <1>7 DEF Close, LangStreakAfter
  <2>2. Len(closed') - langStreak' = n + 1 /\ langStreak' <= Len(closed')
    BY <1>2, <1>4, <2>1
  <2>3. Len(closed') - langStreak' + 1..Len(closed') = {}
    BY <1>2, <1>4, <2>1
  <2> QED
    BY <1>4, <1>5, <1>7, <2>2, <2>3 DEF Streak
<1> QED
  BY <1>1, <1>6, <1>7

LEMMA OthersKeepStreak ==
    ASSUME TypeOK, Streak, UNCHANGED <<langStreak, closed>>,
           step' = "disabled" <=> step = "disabled"
    PROVE  Streak'
BY DEF Streak

\* A language's server is given up on exactly when the last FilesToLanguage files closed all fell
\* back: a file enriched between two fallbacks starts the count anew, and no run of fallbacks is
\* passed over.
THEOREM DisabledAfterStraightFallbacksHolds == Spec => []DisabledAfterStraightFallbacks
<1>1. ASSUME Init
      PROVE  Streak
  BY <1>1, ThresholdAssumption DEF Init, Streak
<1>2. ASSUME TypeOK, Streak, [Next]_vars
      PROVE  Streak'
  <2>1. CASE Close
    BY <1>2, <2>1, CloseKeepsStreak
  <2>2. CASE \E ok \in BOOLEAN : Open(ok)
    BY <1>2, <2>2, OthersKeepStreak DEF Open
  <2>3. CASE \E o \in Outcomes : Symbols(o)
    BY <1>2, <2>3, OthersKeepStreak DEF Symbols
  <2>4. CASE Apply \/ HoversDone
    BY <1>2, <2>4, OthersKeepStreak DEF Apply, HoversDone
  <2>5. CASE \E w \in Workers : Worker(w)
    BY <1>2, <2>5, OthersKeepStreak DEF Worker, Take, Stop, Settle
  <2>6. CASE BudgetSpent \/ ServerExits
    BY <1>2, <2>6, OthersKeepStreak DEF BudgetSpent, ServerExits
  <2>7. CASE UNCHANGED vars
    BY <1>2, <2>7, OthersKeepStreak DEF vars
  <2> QED
    BY <1>2, <2>1, <2>2, <2>3, <2>4, <2>5, <2>6, <2>7 DEF Next, FileLoop
<1>3. ASSUME TypeOK, Streak
      PROVE  DisabledAfterStraightFallbacks
  <2>1. langStreak \in Nat /\ Len(closed) \in Nat /\ FilesToLanguage \in Nat \ {0}
    BY <1>3, ThresholdAssumption DEF TypeOK, TallyType, FlagType
  <2>2. CASE langStreak >= FilesToLanguage
    <3>1. Len(closed) >= FilesToLanguage
      BY <1>3, <2>1, <2>2 DEF Streak
    <3>2. \A i \in Len(closed) - FilesToLanguage + 1..Len(closed) :
             i \in Len(closed) - langStreak + 1..Len(closed)
      BY <2>1, <2>2
    <3>3. step = "disabled"
      BY <1>3, <2>2 DEF Streak
    <3>4. \A i \in Len(closed) - FilesToLanguage + 1..Len(closed) : closed[i]
      BY <1>3, <3>2 DEF Streak
    <3> QED
      BY <3>1, <3>3, <3>4 DEF DisabledAfterStraightFallbacks
  <2>3. CASE ~(langStreak >= FilesToLanguage)
    <3>1. step # "disabled"
      BY <1>3, <2>3 DEF Streak
    <3>2. ASSUME Len(closed) >= FilesToLanguage
          PROVE  /\ closed[Len(closed) - langStreak] = FALSE
                 /\ Len(closed) - langStreak \in Len(closed) - FilesToLanguage + 1..Len(closed)
      <4>1. langStreak < Len(closed)
        BY <2>1, <2>3, <3>2
      <4>2. Len(closed) - langStreak \in Len(closed) - FilesToLanguage + 1..Len(closed)
        BY <2>1, <2>3
      <4> QED
        BY <1>3, <4>1, <4>2 DEF Streak
    <3> QED
      BY <3>1, <3>2 DEF DisabledAfterStraightFallbacks
  <2> QED
    BY <2>2, <2>3
<1>4. PassInv => TypeOK
  BY DEF PassInv
<1> QED
  BY <1>1, <1>2, <1>3, <1>4, PassInvHolds, PTL DEF Spec
===============================================================================
