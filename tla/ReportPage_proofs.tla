------------------------- MODULE ReportPage_proofs ---------------------------
(***************************************************************************)
(* Proofs about the stages of MatchStages, for all documents, similarity   *)
(* tables and rename maps: they pair one to one, each Symbol stands in     *)
(* exactly one verdict, the ids base Symbols are compared under stay       *)
(* apart, an absence is only reported against a document that read the     *)
(* file, and no pair is passed over that nothing better stood against.     *)
(* Then, that DiffReport, which walks the final stage, implements them,    *)
(* that it accounts for each dependency of either document, and that the   *)
(* report lists what the gates count.                                      *)
(***************************************************************************)
EXTENDS ReportPage, FiniteSetTheorems, TLAPS

-----------------------------------------------------------------------------
(* The inductive invariant *)

PairsTyped == pairs \subseteq [base : input.base, head : input.head, rationale : Rationales]
OneToOne == \A p, q \in pairs : p.base = q.base \/ p.head = q.head => p = q
CandidatesFree == \A c \in candidates : c.base \in RemainingBase /\ c.head \in RemainingHead
GroupsTyped == group \in (Kinds \X Logics) \cup {NoGroup} /\ grouped \subseteq Kinds \X Logics

\* What each stage finds: no pair before the first, groups and candidates only where they are used.
StageShape ==
    /\ stage \in Stages
    /\ stage = "id" => pairs = {}
    /\ group # NoGroup => stage = "logic"
    /\ candidates # {} => stage \in {"logic", "name"}
    /\ stage # "done" => entries = {} /\ counted = {}

\* After the first stage, Symbols of one id are a pair.
SameIdsPaired ==
    stage # "id" => \A b \in input.base, h \in input.head :
                        Id(b) = Id(h) => \E p \in pairs : p.base = b /\ p.head = h

Reported ==
    stage = "done" => /\ entries = {e \in Verdicts : e.status \notin OnlyCounted}
                      /\ counted = {e \in Verdicts : e.status \in OnlyCounted}

IInv ==
    /\ input \in Inputs
    /\ PairsTyped /\ OneToOne /\ CandidatesFree /\ GroupsTyped
    /\ StageShape /\ SameIdsPaired /\ Reported

-----------------------------------------------------------------------------
(* Lemmas about one set of documents *)

\* What assertDiffable and the rename map give.
LEMMA InputFacts ==
    ASSUME InputsAssumption, OrderAssumption, input \in Inputs
    PROVE  /\ \A b, c \in input.base : Id(b) = Id(c) => b = c
           /\ \A h, k \in input.head : Id(h) = Id(k) => h = k
           /\ \A s \in input.base \cup input.head : s.file \in Nat /\ s.name \in Nat
           /\ \A r, q \in input.renames : r[1] = q[1] => r[2] = q[2]
<1>1. input.base \subseteq Symbols /\ input.head \subseteq Symbols
  BY DEF InputsAssumption
<1>2. \A s \in Symbols : s.file \in Nat /\ s.name \in Nat
  BY DEF Symbols, OrderAssumption
<1>3. \A r, q \in input.renames : r[1] = q[1] => r = q
  BY DEF InputsAssumption
<1> QED
  BY <1>1, <1>2, <1>3 DEF InputsAssumption, Distinct

\* A Symbol a stage leaves is one no pair holds, and conversely.
LEMMA RemainderFacts ==
    ASSUME InputsAssumption, OrderAssumption, input \in Inputs, PairsTyped
    PROVE  /\ \A b \in input.base : b \in RemainingBase <=> \A p \in pairs : p.base # b
           /\ \A h \in input.head : h \in RemainingHead <=> \A p \in pairs : p.head # h
<1>1. \A p \in pairs : p.base \in input.base /\ p.head \in input.head
  BY DEF PairsTyped
<1> QED
  BY <1>1, InputFacts DEF RemainingBase, RemainingHead

\* The comparison of ids is antisymmetric.
LEMMA IdLessAntisymmetric ==
    ASSUME NEW s, NEW t, s.file \in Nat, t.file \in Nat, s.name \in Nat, t.name \in Nat,
           IdLess(s, t), IdLess(t, s)
    PROVE  FALSE
BY DEF IdLess

\* Of several claimants of a head Symbol, one wins.
LEMMA OneWinner ==
    ASSUME InputsAssumption, OrderAssumption, input \in Inputs,
           NEW h, NEW b \in Winners(h), NEW c \in Winners(h)
    PROVE  b = c
<1>1. b \in input.base /\ c \in input.base
  BY DEF Winners, Claimants, RemainingBase
<1>2. b # c => IdLess(b, c) /\ IdLess(c, b)
  BY DEF Winners
<1>3. b.file \in Nat /\ b.name \in Nat /\ c.file \in Nat /\ c.name \in Nat
  BY <1>1, InputFacts
<1> QED
  BY <1>2, <1>3, IdLessAntisymmetric

\* Pairing some of the remainder, no Symbol of it twice, keeps the pairs one to one.
LEMMA StagePairs ==
    ASSUME InputsAssumption, OrderAssumption, input \in Inputs, PairsTyped, OneToOne,
           NEW r \in Rationales, NEW M, M \subseteq RemainingBase \X RemainingHead,
           IsMatching(M), input' = input,
           pairs' = pairs \cup {Pair(p[1], p[2], r) : p \in M}
    PROVE  PairsTyped' /\ OneToOne'
<1> DEFINE New == {Pair(p[1], p[2], r) : p \in M}
<1>1. \A p \in M : p[1] \in RemainingBase /\ p[2] \in RemainingHead
  OBVIOUS
<1>2. New \subseteq [base : input.base, head : input.head, rationale : Rationales]
  BY <1>1 DEF Pair, RemainingBase, RemainingHead
<1>3. PairsTyped'
  BY <1>2 DEF PairsTyped
<1>4. \A n \in New, p \in pairs : n.base # p.base /\ n.head # p.head
  <2> SUFFICES ASSUME NEW m \in M, NEW p \in pairs
               PROVE  m[1] # p.base /\ m[2] # p.head
    BY DEF Pair
  <2>1. m[1] \in input.base /\ m[2] \in input.head
    BY <1>1 DEF RemainingBase, RemainingHead
  <2> QED
    BY <1>1, <2>1, RemainderFacts
<1>5. \A n, k \in New : n.base = k.base \/ n.head = k.head => n = k
  <2> SUFFICES ASSUME NEW m \in M, NEW l \in M, m[1] = l[1] \/ m[2] = l[2]
               PROVE  m = l
    BY DEF Pair
  <2> QED
    BY DEF IsMatching
<1>6. OneToOne'
  BY <1>4, <1>5 DEF OneToOne
<1> QED
  BY <1>3, <1>6

-----------------------------------------------------------------------------
(* The invariant holds *)

LEMMA InitInv == ASSUME Init PROVE IInv
BY DEF Init, IInv, PairsTyped, OneToOne, CandidatesFree, GroupsTyped, StageShape, Stages,
       SameIdsPaired, Reported, NoGroup

\* A step that leaves the documents alone and only adds pairs keeps equal ids paired.
LEMMA SameIdsStay ==
    ASSUME SameIdsPaired, stage # "id", input' = input, pairs \subseteq pairs'
    PROVE  SameIdsPaired'
BY DEF SameIdsPaired

\* Stage 1 pairs at most one head Symbol with a base Symbol, and all equal ids.
LEMMA MatchByIdInv ==
    ASSUME InputsAssumption, OrderAssumption, IInv, MatchById
    PROVE  IInv'
<1> USE DEF IInv
<1> DEFINE M == {q \in input.base \X input.head : SameId(q[1], q[2])}
<1>1. pairs = {} /\ candidates = {} /\ group = NoGroup
  BY DEF MatchById, StageShape
<1>2. RemainingBase = input.base /\ RemainingHead = input.head
  BY <1>1 DEF RemainingBase, RemainingHead
<1>3. pairs' = pairs \cup {Pair(p[1], p[2], "id-match") : p \in M}
  BY <1>1 DEF MatchById
<1>4. IsMatching(M)
  <2> SUFFICES ASSUME NEW p \in M, NEW q \in M, p[1] = q[1] \/ p[2] = q[2]
               PROVE  p = q
    BY DEF IsMatching
  <2>1. p[1] \in input.base /\ q[1] \in input.base /\ p[2] \in input.head /\ q[2] \in input.head
    OBVIOUS
  <2>2. Id(p[1]) = Id(p[2]) /\ Id(q[1]) = Id(q[2])
    BY DEF SameId
  <2>3. p[1] = q[1] /\ p[2] = q[2]
    BY <2>1, <2>2, InputFacts
  <2> QED
    BY <2>3
<1>5. PairsTyped' /\ OneToOne'
  <2>1. "id-match" \in Rationales
    BY DEF Rationales
  <2>2. M \subseteq RemainingBase \X RemainingHead
    BY <1>2
  <2>3. input' = input
    BY DEF MatchById
  <2> QED
    BY <1>3, <1>4, <2>1, <2>2, <2>3, StagePairs
<1>6. SameIdsPaired'
  <2> SUFFICES ASSUME NEW b \in input.base, NEW h \in input.head, Id(b) = Id(h)
               PROVE  \E p \in pairs' : p.base = b /\ p.head = h
    BY DEF SameIdsPaired, MatchById
  <2>1. <<b, h>> \in M
    BY DEF SameId
  <2>2. Pair(b, h, "id-match") \in pairs'
    BY <1>3, <2>1
  <2> QED
    BY <2>2 DEF Pair
<1>7. CandidatesFree' /\ GroupsTyped' /\ StageShape' /\ Reported' /\ input' \in Inputs
  BY <1>1 DEF MatchById, CandidatesFree, GroupsTyped, StageShape, Reported, Stages
<1> QED
  BY <1>5, <1>6, <1>7

\* Stage 2: a claimed head Symbol has one winner, and git gives a file one new name.
LEMMA MatchByRenameInv ==
    ASSUME InputsAssumption, OrderAssumption, IInv, MatchByRename
    PROVE  IInv'
<1> USE DEF IInv
<1> DEFINE M == {q \in RemainingBase \X RemainingHead : q[1] \in Winners(q[2])}
<1>1. pairs' = pairs \cup {Pair(p[1], p[2], "git-rename") : p \in M} /\ input' = input
  BY DEF MatchByRename
<1>2. candidates = {} /\ group = NoGroup
  BY DEF MatchByRename, StageShape
<1>3. IsMatching(M)
  <2> SUFFICES ASSUME NEW p \in M, NEW q \in M, p[1] = q[1] \/ p[2] = q[2]
               PROVE  p = q
    BY DEF IsMatching
  <2>1. p[1] \in Winners(p[2]) /\ q[1] \in Winners(q[2])
    OBVIOUS
  <2>2. p[2] \in input.head /\ q[2] \in input.head
    BY DEF RemainingHead
  <2>3. CASE p[2] = q[2]
    BY <2>1, <2>3, OneWinner
  <2>4. CASE p[1] = q[1]
    <3>1. /\ <<p[1].file, p[2].file>> \in input.renames /\ p[1].name = p[2].name
          /\ <<p[1].file, q[2].file>> \in input.renames /\ p[1].name = q[2].name
      BY <2>1, <2>4 DEF Winners, Claimants
    <3>2. p[2].file = q[2].file
      BY <3>1, InputFacts
    <3>3. Id(p[2]) = Id(q[2])
      BY <3>1, <3>2 DEF Id
    <3> QED
      BY <2>2, <2>4, <3>3, InputFacts
  <2> QED
    BY <2>3, <2>4
<1>4. PairsTyped' /\ OneToOne'
  <2>1. "git-rename" \in Rationales
    BY DEF Rationales
  <2> QED
    BY <1>1, <1>3, <2>1, StagePairs
<1>5. SameIdsPaired'
  BY <1>1, SameIdsStay DEF MatchByRename
<1>6. CandidatesFree' /\ GroupsTyped' /\ StageShape' /\ Reported' /\ input' \in Inputs
  BY <1>2 DEF MatchByRename, CandidatesFree, GroupsTyped, StageShape, Reported, Stages
<1> QED
  BY <1>4, <1>5, <1>6

\* One more pair of Symbols that are both left, while the stage goes on.
LEMMA OnePairMore ==
    ASSUME InputsAssumption, OrderAssumption, IInv,
           NEW b \in RemainingBase, NEW h \in RemainingHead, NEW r \in Rationales,
           input' = input, stage # "id", pairs' = pairs \cup {Pair(b, h, r)}
    PROVE  PairsTyped' /\ OneToOne' /\ SameIdsPaired'
<1> DEFINE M == {<<b, h>>}
<1>1. pairs' = pairs \cup {Pair(p[1], p[2], r) : p \in M}
  OBVIOUS
<1>2. IsMatching(M) /\ M \subseteq RemainingBase \X RemainingHead
  BY DEF IsMatching
<1>3. PairsTyped' /\ OneToOne'
  BY <1>1, <1>2, StagePairs DEF IInv
<1> QED
  BY <1>3, SameIdsStay DEF IInv

\* The best candidate's Symbols are both left, and so are those of every candidate it leaves.
LEMMA AcceptBestInv ==
    ASSUME InputsAssumption, OrderAssumption, IInv, stage # "id", input' = input,
           NEW r \in Rationales, AcceptBest(r)
    PROVE  PairsTyped' /\ OneToOne' /\ SameIdsPaired' /\ CandidatesFree'
<1>1. PICK p \in candidates : /\ pairs' = pairs \cup {Pair(p.base, p.head, r)}
                              /\ candidates' = Undecided(p)
  BY DEF AcceptBest
<1>2. p.base \in RemainingBase /\ p.head \in RemainingHead
  BY DEF IInv, CandidatesFree
<1>3. PairsTyped' /\ OneToOne' /\ SameIdsPaired'
  BY <1>1, <1>2, OnePairMore
<1>4. CandidatesFree'
  <2> SUFFICES ASSUME NEW c \in candidates'
               PROVE  c.base \in RemainingBase' /\ c.head \in RemainingHead'
    BY DEF CandidatesFree
  <2>1. c \in candidates /\ c.base # p.base /\ c.head # p.head
    BY <1>1 DEF Undecided
  <2>2. c.base \in RemainingBase /\ c.head \in RemainingHead
    BY <2>1 DEF IInv, CandidatesFree
  <2>3. /\ c.base \in input.base /\ p.base \in input.base
        /\ c.head \in input.head /\ p.head \in input.head
    BY <1>2, <2>2 DEF RemainingBase, RemainingHead
  <2>4. Id(c.base) # Id(p.base) /\ Id(c.head) # Id(p.head)
    BY <2>1, <2>3, InputFacts DEF IInv
  <2> QED
    BY <1>1, <2>2, <2>4 DEF RemainingBase, RemainingHead, Pair
<1> QED
  BY <1>3, <1>4

\* Stage 3, group by group and round by round.
LEMMA LogicInv ==
    ASSUME InputsAssumption, OrderAssumption, IInv, NEW g \in Kinds \X Logics,
           OpenGroup(g) \/ PairLone(g) \/ ScoreGroup(g) \/ LeaveGroup(g)
    PROVE  IInv'
<1> USE DEF IInv
<1>1. CASE OpenGroup(g)
  BY <1>1 DEF OpenGroup, PairsTyped, OneToOne, CandidatesFree, GroupsTyped, StageShape,
              SameIdsPaired, Reported, RemainingBase, RemainingHead
<1>2. CASE PairLone(g)
  <2>1. stage = "logic" /\ candidates = {}
    BY <1>2 DEF PairLone, RoundBegins, StageShape
  <2>2a. PICK b \in FreeBase(g) : \E h \in ClosestTo(b, FreeHead(g)) :
             pairs' = pairs \cup {Pair(b, h, "logic-fingerprint")}
    BY <1>2 DEF PairLone
  <2>2. PICK h \in ClosestTo(b, FreeHead(g)) :
             pairs' = pairs \cup {Pair(b, h, "logic-fingerprint")}
    BY <2>2a
  <2>3. b \in RemainingBase /\ h \in RemainingHead
    BY DEF FreeBase, FreeHead, ClosestTo
  <2>4. "logic-fingerprint" \in Rationales
    BY DEF Rationales
  <2>5. PairsTyped' /\ OneToOne' /\ SameIdsPaired'
    BY <1>2, <2>1, <2>2, <2>3, <2>4, OnePairMore DEF PairLone
  <2>6. CandidatesFree' /\ GroupsTyped' /\ StageShape' /\ Reported' /\ input' \in Inputs
    BY <1>2, <2>1 DEF PairLone, RoundBegins, CloseGroup, CandidatesFree, GroupsTyped,
                      StageShape, Reported
  <2> QED
    BY <2>5, <2>6
<1>3. CASE ScoreGroup(g)
  <2>1. stage = "logic"
    BY <1>3 DEF ScoreGroup, RoundBegins, StageShape
  <2>2. \A c \in CandidatesIn(g) : c.base \in RemainingBase /\ c.head \in RemainingHead
    BY DEF CandidatesIn, FreeBase, FreeHead, Candidate
  <2>3. CandidatesFree'
    BY <1>3, <2>2 DEF ScoreGroup, CandidatesFree, RemainingBase, RemainingHead
  <2>4. PairsTyped' /\ OneToOne' /\ GroupsTyped' /\ StageShape' /\ SameIdsPaired' /\ Reported'
    BY <1>3, <2>1 DEF ScoreGroup, PairsTyped, OneToOne, GroupsTyped, StageShape,
                      SameIdsPaired, Reported
  <2> QED
    BY <1>3, <2>3, <2>4 DEF ScoreGroup
<1>4. CASE LeaveGroup(g)
  BY <1>4 DEF LeaveGroup, RoundBegins, CloseGroup, PairsTyped, OneToOne, CandidatesFree,
              GroupsTyped, StageShape, SameIdsPaired, Reported, RemainingBase, RemainingHead
<1> QED
  BY <1>1, <1>2, <1>3, <1>4

\* A round of stage 3 accepts in score order.
LEMMA AcceptByLogicInv ==
    ASSUME InputsAssumption, OrderAssumption, IInv, AcceptByLogic
    PROVE  IInv'
<1>1. stage = "logic" /\ AcceptBest("logic-fingerprint+name-disambiguation") /\ input' = input
  BY DEF AcceptByLogic
<1>2. "logic-fingerprint+name-disambiguation" \in Rationales
  BY DEF Rationales
<1>3. PairsTyped' /\ OneToOne' /\ SameIdsPaired' /\ CandidatesFree'
  BY <1>1, <1>2, AcceptBestInv
<1>4. GroupsTyped' /\ StageShape' /\ Reported' /\ input' \in Inputs
  BY <1>1 DEF IInv, AcceptByLogic, GroupsTyped, StageShape, Reported
<1> QED
  BY <1>3, <1>4 DEF IInv

\* ScoreNames scores what is collected, of the remainders.
LEMMA ScoredIffCandidate ==
    ASSUME ScoreNames
    PROVE  /\ \A b \in RemainingBase, h \in RemainingHead :
                 Compared(h) /\ b \in BasesSharingAToken(h) /\ Collected(b, h) =>
                     Candidate(b, h, Composite(b, h)) \in candidates'
           /\ \A c \in candidates' :
                 /\ c.base \in RemainingBase /\ c.head \in RemainingHead
                 /\ c.score = Composite(c.base, c.head)
<1>1. candidates' = UNION {CandidatesOf(h) : h \in {k \in RemainingHead : Compared(k)}}
  BY DEF ScoreNames
<1>2. ASSUME NEW b \in RemainingBase, NEW h \in RemainingHead,
             Compared(h), b \in BasesSharingAToken(h), Collected(b, h)
      PROVE  Candidate(b, h, Composite(b, h)) \in candidates'
  <2>1. Candidate(b, h, Composite(b, h)) \in CandidatesOf(h)
    BY <1>2 DEF CandidatesOf
  <2> QED
    BY <1>1, <1>2, <2>1
<1>3. \A h : BasesSharingAToken(h) \subseteq RemainingBase
  BY DEF BasesSharingAToken, Reached, Bucket
<1>4. ASSUME NEW c \in candidates'
      PROVE  /\ c.base \in RemainingBase /\ c.head \in RemainingHead
             /\ c.score = Composite(c.base, c.head)
  <2>1. PICK h \in RemainingHead : c \in CandidatesOf(h)
    BY <1>1
  <2>2. PICK b \in BasesSharingAToken(h) : c = Candidate(b, h, Composite(b, h))
    BY <2>1 DEF CandidatesOf
  <2>3. c.base = b /\ c.head = h /\ c.score = Composite(b, h)
    BY <2>2 DEF Candidate
  <2> QED
    BY <1>3, <2>3
<1> QED
  BY <1>2, <1>4

\* Stage 4 scores what is left, then accepts in score order.
LEMMA NameInv ==
    ASSUME InputsAssumption, OrderAssumption, IInv, ScoreNames \/ AcceptByName
    PROVE  IInv'
<1> USE DEF IInv
<1>1. CASE ScoreNames
  <2>1. CandidatesFree'
    BY <1>1, ScoredIffCandidate DEF ScoreNames, CandidatesFree, RemainingBase, RemainingHead
  <2>2. PairsTyped' /\ OneToOne' /\ GroupsTyped' /\ StageShape' /\ SameIdsPaired' /\ Reported'
    BY <1>1 DEF ScoreNames, PairsTyped, OneToOne, GroupsTyped, StageShape, Stages,
                SameIdsPaired, Reported
  <2> QED
    BY <1>1, <2>1, <2>2 DEF ScoreNames
<1>2. CASE AcceptByName
  <2>1. stage = "name" /\ AcceptBest("name-signature") /\ input' = input
    BY <1>2 DEF AcceptByName
  <2>2. "name-signature" \in Rationales
    BY DEF Rationales
  <2>3. PairsTyped' /\ OneToOne' /\ SameIdsPaired' /\ CandidatesFree'
    BY <2>1, <2>2, AcceptBestInv
  <2>4. GroupsTyped' /\ StageShape' /\ Reported' /\ input' \in Inputs
    BY <1>2, <2>1 DEF AcceptByName, GroupsTyped, StageShape, Reported
  <2> QED
    BY <2>3, <2>4
<1> QED
  BY <1>1, <1>2

\* Stage 5 pairs by a matching of dropped Symbols that are left.
LEMMA MatchDroppedInv ==
    ASSUME InputsAssumption, OrderAssumption, IInv, MatchDropped
    PROVE  IInv'
<1> USE DEF IInv
<1> DEFINE E == IdentifiedIn(DroppedOf(RemainingBase), DroppedOf(RemainingHead))
<1>1. PICK M \in MaximumMatchings(E) :
           pairs' = pairs \cup {Pair(p[1], p[2], "dropped-weak-match") : p \in M}
  BY DEF MatchDropped
<1>2. M \subseteq E /\ IsMatching(M)
  BY DEF MaximumMatchings
<1>3. M \subseteq RemainingBase \X RemainingHead
  BY <1>2 DEF IdentifiedIn, DroppedOf
<1>4. "dropped-weak-match" \in Rationales
  BY DEF Rationales
<1>5. stage = "name" /\ candidates = {} /\ input' = input
  BY DEF MatchDropped
<1>6. PairsTyped' /\ OneToOne'
  BY <1>1, <1>2, <1>3, <1>4, <1>5, StagePairs
<1>7. SameIdsPaired'
  BY <1>1, <1>5, SameIdsStay
<1>8. CandidatesFree' /\ GroupsTyped' /\ StageShape' /\ Reported'
  BY <1>5 DEF MatchDropped, CandidatesFree, GroupsTyped, StageShape, Stages, Reported
<1> QED
  BY <1>5, <1>6, <1>7, <1>8

\* The report leaves the pairs alone.
LEMMA ReportInv ==
    ASSUME IInv, Report
    PROVE  IInv'
<1>1. Verdicts' = Verdicts
  BY DEF Report, Verdicts, PairEntries, RemainingBase, RemainingHead, LeftoverHead, LeftoverBase,
         NamesInBase, NamesInHead, Survivor
<1> QED
  BY <1>1 DEF IInv, Report, PairsTyped, OneToOne, CandidatesFree, GroupsTyped, StageShape, Stages,
              SameIdsPaired, Reported, RemainingBase, RemainingHead

\* Stuttering.
LEMMA StutterInv ==
    ASSUME IInv, UNCHANGED vars
    PROVE  IInv'
<1>1. Verdicts' = Verdicts
  BY DEF vars, Verdicts, PairEntries, RemainingBase, RemainingHead, LeftoverHead, LeftoverBase,
         NamesInBase, NamesInHead, Survivor
<1> QED
  BY <1>1 DEF IInv, vars, PairsTyped, OneToOne, CandidatesFree, GroupsTyped, StageShape,
              SameIdsPaired, Reported, RemainingBase, RemainingHead

\* Every step keeps the invariant.
LEMMA NextInv ==
    ASSUME InputsAssumption, OrderAssumption, IInv, [Next]_vars
    PROVE  IInv'
<1>1. CASE MatchById
  BY <1>1, MatchByIdInv
<1>2. CASE MatchByRename
  BY <1>2, MatchByRenameInv
<1>3. ASSUME NEW g \in Kinds \X Logics,
             OpenGroup(g) \/ PairLone(g) \/ ScoreGroup(g) \/ LeaveGroup(g)
      PROVE  IInv'
  BY <1>3, LogicInv
<1>4. CASE AcceptByLogic
  BY <1>4, AcceptByLogicInv
<1>5. CASE ScoreNames \/ AcceptByName
  BY <1>5, NameInv
<1>6. CASE MatchDropped
  BY <1>6, MatchDroppedInv
<1>7. CASE Report
  BY <1>7, ReportInv
<1>8. CASE UNCHANGED vars
  BY <1>8, StutterInv
<1> QED
  BY <1>1, <1>2, <1>3, <1>4, <1>5, <1>6, <1>7, <1>8 DEF Next

\* The invariant, of every behaviour.
LEMMA Invariance == Spec => []IInv
<1>1. Init => IInv
  BY InitInv
<1>2. IInv /\ [Next]_vars => IInv'
  BY NextInv, InputsAssumption, OrderAssumption
<1> QED
  BY <1>1, <1>2, PTL DEF Spec

-----------------------------------------------------------------------------
(* The verdicts of a report *)

\* Which Symbols each kind of verdict stands for.
LEMMA VerdictShape ==
    /\ \A st, x, y, d : Entry(st, x, y, d).before = x /\ Entry(st, x, y, d).after = y
    /\ \A h : LeftoverHead(h).before = {} /\ LeftoverHead(h).after = {h}
    /\ \A b : LeftoverBase(b).before = {b} /\ LeftoverBase(b).after = {}
<1>1. \A st, x, y, d : Entry(st, x, y, d).before = x /\ Entry(st, x, y, d).after = y
  BY DEF Entry
<1>2. ASSUME NEW h
      PROVE  LeftoverHead(h).before = {} /\ LeftoverHead(h).after = {h}
  <2>1. \/ LeftoverHead(h) = Entry("dropped-added", {}, {h}, {})
        \/ LeftoverHead(h) = Entry("unknown", {}, {h}, {})
        \/ LeftoverHead(h) = Entry("added", {}, {h}, {})
    BY DEF LeftoverHead
  <2> QED
    BY <1>1, <2>1
<1>3. ASSUME NEW b
      PROVE  LeftoverBase(b).before = {b} /\ LeftoverBase(b).after = {}
  <2> DEFINE D == {Id(h) : h \in Survivor(b)}
  <2>1. \/ LeftoverBase(b) = Entry("dropped-removed", {b}, {}, {})
        \/ LeftoverBase(b) = Entry("unknown", {b}, {}, {})
        \/ LeftoverBase(b) = Entry("removed", {b}, {}, D)
    BY DEF LeftoverBase
  <2> HIDE DEF D
  <2> QED
    BY <1>1, <2>1
<1> QED
  BY <1>1, <1>2, <1>3

\* A base Symbol stands in exactly one verdict, and so does a head Symbol.
LEMMA OneVerdict ==
    ASSUME InputsAssumption, OrderAssumption, IInv
    PROVE  /\ \A b \in input.base : \E v : {e \in Verdicts : b \in e.before} = {v}
           /\ \A h \in input.head : \E v : {e \in Verdicts : h \in e.after} = {v}
<1> USE DEF IInv
<1> DEFINE P(p) == Entry(Status(p.base, p.head), {p.base}, {p.head}, {})
<1>1. \A e : e \in Verdicts <=> \/ \E p \in pairs : e = P(p)
                                \/ \E h \in RemainingHead : e = LeftoverHead(h)
                                \/ \E b \in RemainingBase : e = LeftoverBase(b)
  BY DEF Verdicts, PairEntries
<1>2. \A p \in pairs : P(p).before = {p.base} /\ P(p).after = {p.head}
  BY VerdictShape
<1> HIDE DEF P
<1>3. ASSUME NEW b \in input.base
      PROVE  \E v : {e \in Verdicts : b \in e.before} = {v}
  <2>1. CASE b \in RemainingBase
    <3>1. \A p \in pairs : p.base # b
      BY <2>1, RemainderFacts
    <3>2. {e \in Verdicts : b \in e.before} = {LeftoverBase(b)}
      BY <1>1, <1>2, <2>1, <3>1, VerdictShape
    <3> QED
      BY <3>2
  <2>2. CASE b \notin RemainingBase
    <3>1. PICK p \in pairs : p.base = b
      BY <2>2, RemainderFacts
    <3>2. \A q \in pairs : q.base = b => q = p
      BY <3>1 DEF OneToOne
    <3>3. {e \in Verdicts : b \in e.before} = {P(p)}
      BY <1>1, <1>2, <2>2, <3>1, <3>2, VerdictShape
    <3> QED
      BY <3>3
  <2> QED
    BY <2>1, <2>2
<1>4. ASSUME NEW h \in input.head
      PROVE  \E v : {e \in Verdicts : h \in e.after} = {v}
  <2>1. CASE h \in RemainingHead
    <3>1. \A p \in pairs : p.head # h
      BY <2>1, RemainderFacts
    <3>2. {e \in Verdicts : h \in e.after} = {LeftoverHead(h)}
      BY <1>1, <1>2, <2>1, <3>1, VerdictShape
    <3> QED
      BY <3>2
  <2>2. CASE h \notin RemainingHead
    <3>1. PICK p \in pairs : p.head = h
      BY <2>2, RemainderFacts
    <3>2. \A q \in pairs : q.head = h => q = p
      BY <3>1 DEF OneToOne
    <3>3. {e \in Verdicts : h \in e.after} = {P(p)}
      BY <1>1, <1>2, <2>2, <3>1, <3>2, VerdictShape
    <3> QED
      BY <3>3
  <2> QED
    BY <2>1, <2>2
<1> QED
  BY <1>3, <1>4

\* A report holds the verdicts, each once: in its entries or behind its counters.
LEMMA ReportHolds ==
    ASSUME IInv, stage = "done"
    PROVE  entries \cup counted = Verdicts /\ entries \subseteq Verdicts
BY DEF IInv, Reported

\* A pair is never called added or removed; a leftover is, only if its file was not lost.
LEMMA StatusShape ==
    /\ \A b, h : Status(b, h) \notin {"added", "removed"}
    /\ \A h : /\ LeftoverHead(h).status # "removed"
              /\ LeftoverHead(h).status = "added" => NamesInBase(h.file) \cap input.lostByBase = {}
    /\ \A b : /\ LeftoverBase(b).status # "added"
              /\ LeftoverBase(b).status = "removed" => NamesInHead(b.file) \cap input.lostByHead = {}
<1>1. \A st, x, y, d : Entry(st, x, y, d).status = st
  BY DEF Entry
<1>2. \A b, h : Status(b, h) \notin {"added", "removed"}
  BY DEF Status
<1>3. ASSUME NEW h
      PROVE  /\ LeftoverHead(h).status # "removed"
             /\ LeftoverHead(h).status = "added" => NamesInBase(h.file) \cap input.lostByBase = {}
  <2>1. \/ LeftoverHead(h) = Entry("dropped-added", {}, {h}, {})
        \/ LeftoverHead(h) = Entry("unknown", {}, {h}, {})
        \/ /\ LeftoverHead(h) = Entry("added", {}, {h}, {})
           /\ NamesInBase(h.file) \cap input.lostByBase = {}
    BY DEF LeftoverHead
  <2> QED
    BY <1>1, <2>1
<1>4. ASSUME NEW b
      PROVE  /\ LeftoverBase(b).status # "added"
             /\ LeftoverBase(b).status = "removed" => NamesInHead(b.file) \cap input.lostByHead = {}
  <2> DEFINE D == {Id(h) : h \in Survivor(b)}
  <2>1. \/ LeftoverBase(b) = Entry("dropped-removed", {b}, {}, {})
        \/ LeftoverBase(b) = Entry("unknown", {b}, {}, {})
        \/ /\ LeftoverBase(b) = Entry("removed", {b}, {}, D)
           /\ NamesInHead(b.file) \cap input.lostByHead = {}
    BY DEF LeftoverBase
  <2> HIDE DEF D
  <2> QED
    BY <1>1, <2>1
<1> QED
  BY <1>2, <1>3, <1>4

\* What a verdict can be, and what it then says.
LEMMA VerdictCases ==
    ASSUME NEW e \in Verdicts
    PROVE  \/ \E p \in pairs :
                 /\ e.before = {p.base} /\ e.after = {p.head}
                 /\ e.status \notin {"added", "removed"}
           \/ \E h \in RemainingHead :
                 /\ e.before = {} /\ e.after = {h}
                 /\ e.status # "removed"
                 /\ e.status = "added" => NamesInBase(h.file) \cap input.lostByBase = {}
           \/ \E b \in RemainingBase :
                 /\ e.before = {b} /\ e.after = {}
                 /\ e.status # "added"
                 /\ e.status = "removed" => NamesInHead(b.file) \cap input.lostByHead = {}
<1>1. CASE \E p \in pairs : e = Entry(Status(p.base, p.head), {p.base}, {p.head}, {})
  <2>1. PICK p \in pairs : e = Entry(Status(p.base, p.head), {p.base}, {p.head}, {})
    BY <1>1
  <2>2. e.status = Status(p.base, p.head)
    BY <2>1 DEF Entry
  <2>3. Status(p.base, p.head) \notin {"added", "removed"}
    BY StatusShape
  <2>4. e.before = {p.base} /\ e.after = {p.head}
    BY <2>1 DEF Entry
  <2> QED
    BY <2>2, <2>3, <2>4
<1>2. CASE \E h \in RemainingHead : e = LeftoverHead(h)
  <2>1. PICK h \in RemainingHead : e = LeftoverHead(h)
    BY <1>2
  <2>2. LeftoverHead(h).before = {} /\ LeftoverHead(h).after = {h}
    BY VerdictShape
  <2>3. /\ LeftoverHead(h).status # "removed"
        /\ LeftoverHead(h).status = "added" => NamesInBase(h.file) \cap input.lostByBase = {}
    BY StatusShape
  <2> QED
    BY <2>1, <2>2, <2>3
<1>3. CASE \E b \in RemainingBase : e = LeftoverBase(b)
  <2>1. PICK b \in RemainingBase : e = LeftoverBase(b)
    BY <1>3
  <2>2. LeftoverBase(b).before = {b} /\ LeftoverBase(b).after = {}
    BY VerdictShape
  <2>3. /\ LeftoverBase(b).status # "added"
        /\ LeftoverBase(b).status = "removed" => NamesInHead(b.file) \cap input.lostByHead = {}
    BY StatusShape
  <2> QED
    BY <2>1, <2>2, <2>3
<1> QED
  BY <1>1, <1>2, <1>3 DEF Verdicts, PairEntries

-----------------------------------------------------------------------------
(* Theorems *)

\* Type correctness: whatever the documents, pairs and candidates are of their Symbols and a
\* scored pair still to decide is of two Symbols nothing has claimed.
THEOREM TypeCorrect == Spec => []TypeOK
<1>1. IInv => TypeOK
  <2> SUFFICES ASSUME IInv PROVE TypeOK
    OBVIOUS
  <2>1. \A e \in Verdicts : e.before \subseteq input.base /\ e.after \subseteq input.head
    <3>1. \A p \in pairs : p.base \in input.base /\ p.head \in input.head
      BY DEF IInv, PairsTyped
    <3>2. RemainingBase \subseteq input.base /\ RemainingHead \subseteq input.head
      BY DEF RemainingBase, RemainingHead
    <3> QED
      BY <3>1, <3>2, VerdictCases
  <2>2. \A e \in entries \cup counted : e.before \subseteq input.base /\ e.after \subseteq input.head
    BY <2>1, ReportHolds DEF IInv, StageShape
  <2> QED
    BY <2>2 DEF TypeOK, IInv, PairsTyped, CandidatesFree, GroupsTyped, StageShape
<1> QED
  BY <1>1, Invariance, PTL

\* The census of buildDiff, for every pair of documents: each Symbol of either stands in
\* exactly one verdict of the finished diff.
THEOREM EachSymbolOnceHolds == Spec => []EachSymbolOnce
<1>1. IInv => EachSymbolOnce
  <2> SUFFICES ASSUME IInv, stage = "done"
               PROVE  /\ \A b \in input.base : Cardinality({e \in Verdicts : b \in e.before}) = 1
                      /\ \A h \in input.head : Cardinality({e \in Verdicts : h \in e.after}) = 1
    BY ReportHolds DEF EachSymbolOnce
  <2>1. \A v : Cardinality({v}) = 1
    BY FS_Singleton
  <2> QED
    BY <2>1, OneVerdict, InputsAssumption, OrderAssumption
<1> QED
  BY <1>1, Invariance, PTL

\* The ids diffDependencies reads base endpoints under are distinct for distinct base Symbols,
\* for every pair of documents and rename map: no base Symbol is paired with a head Symbol
\* whose id another base Symbol keeps.
THEOREM EndpointsStayApartHolds == Spec => []EndpointsStayApart
<1>1. IInv => EndpointsStayApart
  <2> SUFFICES ASSUME IInv, stage = "done", NEW b \in input.base, NEW c \in input.base, b # c,
                      NEW i \in ComparedUnder(b) \cap ComparedUnder(c)
               PROVE  FALSE
    BY DEF EndpointsStayApart
  <2> USE InputsAssumption, OrderAssumption
  <2>1. ASSUME NEW s \in input.base, NEW j \in ComparedUnder(s)
        PROVE  \/ j = Id(s) /\ \A p \in pairs : p.base = s => Id(p.head) = Id(s)
               \/ \E p \in pairs : p.base = s /\ j = Id(p.head)
    <3>1. \A p \in pairs : Entry(Status(p.base, p.head), {p.base}, {p.head}, {}) \in Verdicts
      BY DEF Verdicts, PairEntries
    <3>2. CASE HeadIds(s) = {}
      <4>1. j = Id(s)
        BY <2>1, <3>2 DEF ComparedUnder
      <4>2. ASSUME NEW p \in pairs, p.base = s
            PROVE  Id(p.head) = Id(s)
        <5> DEFINE e == Entry(Status(p.base, p.head), {p.base}, {p.head}, {})
        <5>1. e \in Verdicts /\ s \in e.before /\ p.head \in e.after
          <6>1. e.before = {p.base} /\ e.after = {p.head}
            BY DEF Entry
          <6> QED
            BY <3>1, <4>2, <6>1
        <5>2. e \notin entries
          BY <3>2, <5>1 DEF HeadIds
        <5>3. e.status \in OnlyCounted
          BY <5>1, <5>2 DEF IInv, Reported
        <5>4. e.status = Status(p.base, p.head)
          BY DEF Entry
        <5>5. Status(p.base, p.head) \in OnlyCounted => Id(p.base) = Id(p.head)
          BY DEF Status, OnlyCounted
        <5> QED
          BY <4>2, <5>3, <5>4, <5>5
      <4> QED
        BY <4>1, <4>2
    <3>3. CASE HeadIds(s) # {}
      <4>1. PICK e \in entries : s \in e.before /\ \E h \in e.after : j = Id(h)
        BY <2>1, <3>3 DEF ComparedUnder, HeadIds
      <4>2. e \in Verdicts
        BY ReportHolds
      <4>3. \E p \in pairs : e.before = {p.base} /\ e.after = {p.head}
        BY <4>1, <4>2, VerdictCases
      <4> QED
        BY <4>1, <4>3
    <3> QED
      BY <3>2, <3>3
  <2>2. \A s \in input.base, t \in input.base, p \in pairs :
            p.base = s /\ Id(p.head) = Id(t) => t = s \/ \E q \in pairs : q.base = t /\ q = p
    <3> SUFFICES ASSUME NEW s \in input.base, NEW t \in input.base, NEW p \in pairs,
                        p.base = s, Id(p.head) = Id(t)
                 PROVE  t = s \/ \E q \in pairs : q.base = t /\ q = p
      OBVIOUS
    <3>1. p.head \in input.head
      BY DEF IInv, PairsTyped
    <3>2. PICK q \in pairs : q.base = t /\ q.head = p.head
      BY <3>1 DEF IInv, SameIdsPaired
    <3> QED
      BY <3>2 DEF IInv, OneToOne
  <2>3. \A p, q \in pairs : p.base # q.base => Id(p.head) # Id(q.head)
    <3>1. \A p \in pairs : p.head \in input.head
      BY DEF IInv, PairsTyped
    <3> QED
      BY <3>1, InputFacts DEF IInv, OneToOne
  <2>4. Id(b) # Id(c)
    BY InputFacts DEF IInv
  <2> QED
    BY <2>1, <2>2, <2>3, <2>4
<1> QED
  BY <1>1, Invariance, PTL

\* For every pair of documents, rename map and set of skipped files: what the report calls
\* added or removed is absent from a document that read its file under every name git gives it.
THEOREM AbsenceIsEvidenceHolds == Spec => []AbsenceIsEvidence
<1>1. IInv => AbsenceIsEvidence
  <2> SUFFICES ASSUME IInv, NEW e \in entries
               PROVE  /\ e.status = "removed" => \A b \in e.before, f \in input.lostByHead :
                             f # b.file /\ <<b.file, f>> \notin input.renames
                      /\ e.status = "added" => \A h \in e.after, f \in input.lostByBase :
                             f # h.file /\ <<f, h.file>> \notin input.renames
    BY DEF AbsenceIsEvidence
  <2>1. e \in Verdicts
    BY ReportHolds DEF IInv, StageShape
  <2>2. \A h, f : <<f, h.file>> \in input.renames \/ f = h.file => f \in NamesInBase(h.file)
    <3> SUFFICES ASSUME NEW h, NEW f, <<f, h.file>> \in input.renames
                 PROVE  f \in NamesInBase(h.file)
      BY DEF NamesInBase
    <3>1. <<f, h.file>>[1] = f /\ <<f, h.file>>[2] = h.file
      OBVIOUS
    <3> QED
      BY <3>1 DEF NamesInBase
  <2>3. \A b, f : <<b.file, f>> \in input.renames \/ f = b.file => f \in NamesInHead(b.file)
    <3> SUFFICES ASSUME NEW b, NEW f, <<b.file, f>> \in input.renames
                 PROVE  f \in NamesInHead(b.file)
      BY DEF NamesInHead
    <3>1. <<b.file, f>>[1] = b.file /\ <<b.file, f>>[2] = f
      OBVIOUS
    <3> QED
      BY <3>1 DEF NamesInHead
  <2>4. ASSUME e.status = "removed", NEW b \in e.before, NEW f \in input.lostByHead
        PROVE  f # b.file /\ <<b.file, f>> \notin input.renames
    <3>1. NamesInHead(b.file) \cap input.lostByHead = {}
      BY <2>1, <2>4, VerdictCases
    <3> QED
      BY <2>3, <2>4, <3>1
  <2>5. ASSUME e.status = "added", NEW h \in e.after, NEW f \in input.lostByBase
        PROVE  f # h.file /\ <<f, h.file>> \notin input.renames
    <3>1. NamesInBase(h.file) \cap input.lostByBase = {}
      BY <2>1, <2>5, VerdictCases
    <3> QED
      BY <2>2, <2>5, <3>1
  <2> QED
    BY <2>4, <2>5
<1> QED
  BY <1>1, Invariance, PTL


-----------------------------------------------------------------------------
(* What the logic and the name stage leave *)

\* A group that is done has nothing left to pair.
Exhausted(g) ==
    FreeBase(g) # {} /\ FreeHead(g) # {} =>
        CandidatesIn(g) = {} /\ (Evidenceless(g) \/ Cardinality(FreeBase(g)) > 1)

\* What is scored in a round is of the group under way, which is none of those done.
GroupUnderWay ==
    /\ stage \in {"id", "git-rename"} => grouped = {}
    /\ group # NoGroup => group \notin grouped
    /\ stage = "logic" => \A c \in candidates : /\ group # NoGroup
                                                /\ Admissible(c.base, group)
                                                /\ Admissible(c.head, group)

ByName == PairedBy({"name-signature"})
Earlier == PairedBy(Rationales \ {"name-signature", "dropped-weak-match"})

\* Pairs of the last two stages are made in them.
StagedPairs ==
    /\ stage \in {"id", "git-rename", "logic"} => ByName = {}
    /\ stage \notin {"report", "done"} => pairs = ByName \cup Earlier

GroupsExhausted ==
    stage = "logic" \/ (stage = "name" /\ ByName = {}) => \A g \in grouped : Exhausted(g)

\* A pair the name stage passed over was so for one that scores at least as high.
PassedFor(b, h) ==
    \E p \in ByName : (p.base = b \/ p.head = h) /\ Composite(p.base, p.head) >= Composite(b, h)

Untouched(b, h) == \A p \in Earlier : p.base # b /\ p.head # h

NamesWeighed ==
    stage = "name" =>
        /\ \A c \in candidates : c.score = Composite(c.base, c.head)
        /\ \A b \in input.base, h \in input.head :
               Comparable(b, h) /\ Untouched(b, h) =>
                   Candidate(b, h, Composite(b, h)) \in candidates \/ PassedFor(b, h)

NamesSettled ==
    stage \in {"report", "done"} =>
        \A b \in input.base, h \in input.head :
            Comparable(b, h) /\ Untouched(b, h) => PassedFor(b, h)

LeftInv == GroupUnderWay /\ StagedPairs /\ GroupsExhausted /\ NamesWeighed /\ NamesSettled


\* A pair more takes its Symbols from the remainder and no other.
LEMMA OneLess ==
    ASSUME InputsAssumption, OrderAssumption, IInv, input' = input,
           NEW b \in RemainingBase, NEW h \in RemainingHead, NEW r \in Rationales,
           pairs' = pairs \cup {Pair(b, h, r)}
    PROVE  RemainingBase' = RemainingBase \ {b} /\ RemainingHead' = RemainingHead \ {h}
<1>1. b \in input.base /\ h \in input.head
  BY DEF RemainingBase, RemainingHead
<1>2. \A c \in input.base : Id(b) # Id(c) <=> b # c
  BY <1>1, InputFacts DEF IInv
<1>3. \A c \in input.head : Id(h) # Id(c) <=> h # c
  BY <1>1, InputFacts DEF IInv
<1>4. PICK n : n = Pair(b, h, r)
  OBVIOUS
<1>5. n.base = b /\ n.head = h /\ pairs' = pairs \cup {n}
  BY <1>4 DEF Pair
<1>6. RemainingBase' = RemainingBase \ {b}
  <2>1. \A c \in input.base : (\A q \in pairs' : Id(q.base) # Id(c)) <=>
                                 (\A q \in pairs : Id(q.base) # Id(c)) /\ c # b
    BY <1>2, <1>5
  <2> QED
    BY <2>1 DEF RemainingBase
<1>7. RemainingHead' = RemainingHead \ {h}
  <2>1. \A c \in input.head : (\A q \in pairs' : Id(q.head) # Id(c)) <=>
                                 (\A q \in pairs : Id(q.head) # Id(c)) /\ c # h
    BY <1>3, <1>5
  <2> QED
    BY <2>1 DEF RemainingHead
<1> QED
  BY <1>6, <1>7

\* A pair of one group leaves the others as they were.
LEMMA OtherGroups ==
    ASSUME InputsAssumption, OrderAssumption, IInv, input' = input, NEW g, NEW k, k # g,
           NEW b \in RemainingBase, NEW h \in RemainingHead, NEW r \in Rationales,
           Admissible(b, g), Admissible(h, g),
           pairs' = pairs \cup {Pair(b, h, r)}
    PROVE  Exhausted(k) => Exhausted(k)'
<1>1. RemainingBase' = RemainingBase \ {b} /\ RemainingHead' = RemainingHead \ {h}
  BY OneLess
<1>2. ~Admissible(b, k) /\ ~Admissible(h, k)
  BY DEF Admissible
<1>3. FreeBase(k)' = FreeBase(k)
  BY <1>1, <1>2 DEF FreeBase
<1>4. FreeHead(k)' = FreeHead(k)
  BY <1>1, <1>2 DEF FreeHead
<1>5. CandidatesIn(k)' = CandidatesIn(k)
  BY <1>3, <1>4 DEF CandidatesIn
<1> QED
  BY <1>3, <1>4, <1>5 DEF Exhausted

\* A step that leaves the pairs and the documents leaves what is said of them.
LEMMA SamePairs ==
    ASSUME UNCHANGED <<input, pairs>>
    PROVE  /\ \A g : Exhausted(g)' <=> Exhausted(g)
           /\ ByName' = ByName /\ Earlier' = Earlier
           /\ \A b, h : /\ PassedFor(b, h)' <=> PassedFor(b, h)
                        /\ Untouched(b, h)' <=> Untouched(b, h)
<1>1. \A g : FreeBase(g)' = FreeBase(g) /\ FreeHead(g)' = FreeHead(g)
  BY DEF FreeBase, FreeHead, RemainingBase, RemainingHead
<1>2. \A g : CandidatesIn(g)' = CandidatesIn(g)
  BY <1>1 DEF CandidatesIn
<1>3. \A g : Exhausted(g)' <=> Exhausted(g)
  BY <1>1, <1>2 DEF Exhausted
<1>4. ByName' = ByName /\ Earlier' = Earlier
  BY DEF ByName, Earlier, PairedBy
<1> QED
  BY <1>3, <1>4 DEF PassedFor, Untouched

\* Pairs of the first three stages are told apart from those of the last two by their rationale.
LEMMA PairsByStage ==
    ASSUME PairsTyped, NEW M, NEW r \in Rationales,
           pairs' = pairs \cup {Pair(p[1], p[2], r) : p \in M}
    PROVE  /\ r \notin {"name-signature", "dropped-weak-match"} =>
                ByName' = ByName /\ Earlier \subseteq Earlier'
                /\ (pairs = ByName \cup Earlier => pairs' = ByName' \cup Earlier')
           /\ r = "dropped-weak-match" => ByName' = ByName /\ Earlier' = Earlier
           /\ r = "name-signature" => /\ ByName' = ByName \cup {Pair(p[1], p[2], r) : p \in M}
                                      /\ Earlier' = Earlier
                                      /\ (pairs = ByName \cup Earlier => pairs' = ByName' \cup Earlier')
<1>1. \A p \in M : Pair(p[1], p[2], r).rationale = r
  BY DEF Pair
<1>2. \A p \in pairs : p.rationale \in Rationales
  BY DEF PairsTyped
<1> QED
  BY <1>1, <1>2 DEF ByName, Earlier, PairedBy, Rationales

LEMMA OneByStage ==
    ASSUME PairsTyped, NEW b, NEW h, NEW r \in Rationales, pairs' = pairs \cup {Pair(b, h, r)}
    PROVE  /\ r \notin {"name-signature", "dropped-weak-match"} =>
                ByName' = ByName /\ Earlier \subseteq Earlier'
                /\ (pairs = ByName \cup Earlier => pairs' = ByName' \cup Earlier')
           /\ r = "name-signature" => /\ ByName' = ByName \cup {Pair(b, h, r)}
                                      /\ Earlier' = Earlier
                                      /\ (pairs = ByName \cup Earlier => pairs' = ByName' \cup Earlier')
<1>1. PICK n : n = Pair(b, h, r)
  OBVIOUS
<1>2. n.rationale = r /\ pairs' = pairs \cup {n}
  BY <1>1 DEF Pair
<1>3. \A p \in pairs : p.rationale \in Rationales
  BY DEF PairsTyped
<1>4. ASSUME r \notin {"name-signature", "dropped-weak-match"}
      PROVE  /\ ByName' = ByName /\ Earlier \subseteq Earlier'
             /\ (pairs = ByName \cup Earlier => pairs' = ByName' \cup Earlier')
  BY <1>2, <1>3, <1>4 DEF ByName, Earlier, PairedBy, Rationales
<1>5. ASSUME r = "name-signature"
      PROVE  /\ ByName' = ByName \cup {n} /\ Earlier' = Earlier
             /\ (pairs = ByName \cup Earlier => pairs' = ByName' \cup Earlier')
  BY <1>2, <1>3, <1>5 DEF ByName, Earlier, PairedBy, Rationales
<1> QED
  BY <1>1, <1>4, <1>5

LEMMA InitLeft == ASSUME Init PROVE LeftInv
BY DEF Init, LeftInv, GroupUnderWay, StagedPairs, GroupsExhausted, NamesWeighed, NamesSettled,
       ByName, Earlier, PairedBy, NoGroup

LEMMA FirstStagesLeft ==
    ASSUME IInv, LeftInv, MatchById \/ MatchByRename
    PROVE  LeftInv'
<1>1. PICK r \in {"id-match", "git-rename"}, M \in SUBSET (input.base \X input.head) :
        pairs' = pairs \cup {Pair(p[1], p[2], r) : p \in M}
  <2>1. CASE MatchById
    <3>1. pairs = {}
      BY <2>1 DEF MatchById, IInv, StageShape
    <3>2. PICK M \in SUBSET (input.base \X input.head) : M = {q \in input.base \X input.head : SameId(q[1], q[2])}
      OBVIOUS
    <3>3. pairs' = {Pair(p[1], p[2], "id-match") : p \in M}
      BY <2>1, <3>2 DEF MatchById
    <3> QED
      BY <3>1, <3>3
  <2>2. CASE MatchByRename
    <3>1. PICK M \in SUBSET (input.base \X input.head) :
            M = {q \in RemainingBase \X RemainingHead : q[1] \in Winners(q[2])}
      BY DEF RemainingBase, RemainingHead
    <3>2. pairs' = pairs \cup {Pair(p[1], p[2], "git-rename") : p \in M}
      BY <2>2, <3>1 DEF MatchByRename
    <3> QED
      BY <3>2
  <2> QED
    BY <2>1, <2>2
<1>2. /\ stage \in {"id", "git-rename"} /\ stage' \in {"git-rename", "logic"}
      /\ UNCHANGED <<input, group, grouped, candidates>>
  BY DEF MatchById, MatchByRename
<1>3. grouped = {} /\ group = NoGroup /\ candidates = {}
  BY <1>2 DEF LeftInv, GroupUnderWay, IInv, StageShape
<1>4. r \in Rationales /\ r \notin {"name-signature", "dropped-weak-match"}
  BY DEF Rationales
<1>5. ByName' = ByName /\ (pairs = ByName \cup Earlier => pairs' = ByName' \cup Earlier')
  BY <1>1, <1>4, PairsByStage DEF IInv
<1>6. ByName = {} /\ pairs = ByName \cup Earlier
  BY <1>2 DEF LeftInv, StagedPairs
<1> QED
  BY <1>2, <1>3, <1>5, <1>6
     DEF LeftInv, GroupUnderWay, StagedPairs, GroupsExhausted, NamesWeighed, NamesSettled

\* A group is opened, scored or left.
LEMMA GroupLeft ==
    ASSUME IInv, LeftInv, NEW g \in Kinds \X Logics, InputsAssumption, OrderAssumption,
           OpenGroup(g) \/ ScoreGroup(g) \/ LeaveGroup(g)
    PROVE  LeftInv'
<1>1. UNCHANGED <<input, pairs, stage>>
  BY DEF OpenGroup, ScoreGroup, LeaveGroup
<1>2. stage = "logic"
  BY DEF OpenGroup, ScoreGroup, LeaveGroup, RoundBegins, IInv, StageShape
<1>3. /\ \A k : Exhausted(k)' <=> Exhausted(k)
      /\ ByName' = ByName /\ Earlier' = Earlier
  BY <1>1, SamePairs
<1>4. StagedPairs' /\ NamesWeighed' /\ NamesSettled'
  BY <1>1, <1>2, <1>3 DEF LeftInv, StagedPairs, NamesWeighed, NamesSettled
<1>5. CASE OpenGroup(g)
  <2>1. candidates = {} /\ g \notin grouped
    BY <1>5, <1>2 DEF OpenGroup, LeftInv, GroupUnderWay
  <2>2. GroupUnderWay'
    BY <1>1, <1>2, <1>5, <2>1 DEF OpenGroup, GroupUnderWay
  <2>3. GroupsExhausted'
    BY <1>1, <1>2, <1>3, <1>5 DEF OpenGroup, LeftInv, GroupsExhausted
  <2> QED
    BY <1>4, <2>2, <2>3 DEF LeftInv
<1>6. CASE ScoreGroup(g)
  <2>1. \A c \in CandidatesIn(g) : Admissible(c.base, g) /\ Admissible(c.head, g)
    BY DEF CandidatesIn, FreeBase, FreeHead, Candidate
  <2>2. group = g /\ g # NoGroup /\ candidates' = CandidatesIn(g) /\ UNCHANGED <<group, grouped>>
    BY <1>6 DEF ScoreGroup, RoundBegins
  <2>3. GroupUnderWay'
    BY <1>1, <1>2, <2>1, <2>2 DEF LeftInv, GroupUnderWay
  <2>4. GroupsExhausted'
    BY <1>1, <1>2, <1>3, <2>2 DEF LeftInv, GroupsExhausted
  <2> QED
    BY <1>4, <2>3, <2>4 DEF LeftInv
<1>7. CASE LeaveGroup(g)
  <2>1. /\ group = g /\ candidates = {} /\ candidates' = candidates
        /\ grouped' = grouped \cup {g} /\ group' = NoGroup
    BY <1>7 DEF LeaveGroup, RoundBegins, CloseGroup
  <2>2. Exhausted(g)
    <3>1. IsFiniteSet(FreeBase(g))
      <4>1. IsFiniteSet(input.base)
        BY DEF IInv, InputsAssumption
      <4> QED
        BY <4>1, FS_Subset DEF FreeBase, RemainingBase
    <3>2. FreeBase(g) # {} => Cardinality(FreeBase(g)) # 0 /\ Cardinality(FreeBase(g)) \in Nat
      BY <3>1, FS_EmptySet, FS_CardinalityType
    <3>3. CASE Alone(g)
      BY <1>7, <3>3 DEF LeaveGroup, Exhausted
    <3>4. CASE ~Alone(g)
      BY <1>7, <3>2, <3>4 DEF LeaveGroup, Exhausted, Alone
    <3> QED
      BY <3>3, <3>4
  <2>3. GroupUnderWay'
    BY <1>1, <1>2, <2>1 DEF GroupUnderWay
  <2>4. GroupsExhausted'
    BY <1>1, <1>2, <1>3, <2>1, <2>2 DEF LeftInv, GroupsExhausted
  <2> QED
    BY <1>4, <2>3, <2>4 DEF LeftInv
<1> QED
  BY <1>5, <1>6, <1>7

\* The lone base Symbol of a group leaves none behind.
LEMMA PairLoneLeft ==
    ASSUME IInv, LeftInv, NEW g \in Kinds \X Logics, InputsAssumption, OrderAssumption, PairLone(g)
    PROVE  LeftInv'
<1>1. /\ group = g /\ g # NoGroup /\ candidates = {} /\ Alone(g)
      /\ grouped' = grouped \cup {g} /\ group' = NoGroup
      /\ UNCHANGED <<input, stage, candidates>>
  BY DEF PairLone, RoundBegins, CloseGroup
<1>2. stage = "logic" /\ g \notin grouped
  BY <1>1 DEF IInv, StageShape, LeftInv, GroupUnderWay
<1>3. PICK b \in FreeBase(g) : \E h \in ClosestTo(b, FreeHead(g)) :
          pairs' = pairs \cup {Pair(b, h, "logic-fingerprint")}
  BY DEF PairLone
<1>4. PICK h \in FreeHead(g) : pairs' = pairs \cup {Pair(b, h, "logic-fingerprint")}
  BY <1>3 DEF ClosestTo
<1>5. /\ b \in RemainingBase /\ h \in RemainingHead
      /\ Admissible(b, g) /\ Admissible(h, g)
  BY DEF FreeBase, FreeHead
<1>6. "logic-fingerprint" \in Rationales
  BY DEF Rationales
<1>7. \A k : k # g /\ Exhausted(k) => Exhausted(k)'
  BY <1>1, <1>4, <1>5, <1>6, OtherGroups
<1>8. Exhausted(g)'
  <2>1. IsFiniteSet(FreeBase(g)) /\ Cardinality(FreeBase(g)) = 1
    <3>1. IsFiniteSet(input.base)
      BY DEF IInv, InputsAssumption
    <3> QED
      BY <1>1, <3>1, FS_Subset DEF FreeBase, RemainingBase, Alone
  <2>2. FreeBase(g) = {b}
    <3>1. PICK x : FreeBase(g) = {x}
      BY <2>1, FS_Singleton
    <3> QED
      BY <3>1
  <2>3. RemainingBase' = RemainingBase \ {b}
    BY <1>1, <1>4, <1>5, <1>6, OneLess
  <2>4. FreeBase(g)' = {}
    BY <2>2, <2>3 DEF FreeBase
  <2> QED
    BY <2>4 DEF Exhausted
<1>9. GroupsExhausted'
  BY <1>1, <1>2, <1>7, <1>8 DEF LeftInv, GroupsExhausted
<1>10. GroupUnderWay'
  BY <1>1, <1>2 DEF GroupUnderWay
<1>11. ByName' = ByName /\ (pairs = ByName \cup Earlier => pairs' = ByName' \cup Earlier')
  BY <1>4, <1>6, OneByStage DEF IInv
<1>12. StagedPairs'
  BY <1>1, <1>2, <1>11 DEF LeftInv, StagedPairs
<1> QED
  BY <1>1, <1>2, <1>9, <1>10, <1>12 DEF LeftInv, NamesWeighed, NamesSettled

\* A round's pair is of the group under way, and the groups that are done keep what they have.
LEMMA AcceptByLogicLeft ==
    ASSUME IInv, LeftInv, InputsAssumption, OrderAssumption, AcceptByLogic
    PROVE  LeftInv'
<1>1. stage = "logic" /\ UNCHANGED <<input, stage, group, grouped>>
  BY DEF AcceptByLogic
<1>2. PICK p \in candidates :
        /\ pairs' = pairs \cup {Pair(p.base, p.head, "logic-fingerprint+name-disambiguation")}
        /\ candidates' = Undecided(p)
  BY DEF AcceptByLogic, AcceptBest
<1>3. /\ p.base \in RemainingBase /\ p.head \in RemainingHead
      /\ group # NoGroup /\ group \notin grouped
      /\ Admissible(p.base, group) /\ Admissible(p.head, group)
  BY <1>1 DEF IInv, CandidatesFree, LeftInv, GroupUnderWay
<1>4. "logic-fingerprint+name-disambiguation" \in Rationales
  BY DEF Rationales
<1>5. \A k : k # group /\ Exhausted(k) => Exhausted(k)'
  BY <1>1, <1>2, <1>3, <1>4, OtherGroups
<1>6. GroupsExhausted'
  BY <1>1, <1>3, <1>5 DEF LeftInv, GroupsExhausted
<1>7. GroupUnderWay'
  BY <1>1, <1>2 DEF LeftInv, GroupUnderWay, Undecided
<1>8. ByName' = ByName /\ (pairs = ByName \cup Earlier => pairs' = ByName' \cup Earlier')
  BY <1>2, <1>4, OneByStage DEF IInv
<1>9. StagedPairs'
  BY <1>1, <1>8 DEF LeftInv, StagedPairs
<1> QED
  BY <1>1, <1>6, <1>7, <1>9 DEF LeftInv, NamesWeighed, NamesSettled

\* Scores and thresholds are numbers.
LEMMA ScoresAreNumbers ==
    ASSUME InputsAssumption, ScoreAssumption, IInv, NEW b \in input.base, NEW h \in input.head
    PROVE  /\ b.name \in Names /\ h.name \in Names
           /\ \E m, s \in 0..Scale : m = MemberScore[b.name, h.name] /\ s = SignatureScore[b.sig, h.sig]
           /\ \E t \in NAME_DISAMBIGUATION_THRESHOLD..Scale : t = Threshold[h.name]
<1>1. b \in Symbols /\ h \in Symbols
  BY DEF IInv, InputsAssumption
<1>2. b.name \in Names /\ h.name \in Names /\ b.sig \in Signatures /\ h.sig \in Signatures
  BY <1>1 DEF Symbols
<1>3. <<b.name, h.name>> \in Names \X Names /\ <<b.sig, h.sig>> \in Signatures \X Signatures
  BY <1>2
<1>4. MemberScore \in [Names \X Names -> 0..Scale] /\ SignatureScore \in [Signatures \X Signatures -> 0..Scale]
  BY DEF ScoreAssumption
<1>5. MemberScore[b.name, h.name] \in 0..Scale
  BY <1>3, <1>4
<1>6. SignatureScore[b.sig, h.sig] \in 0..Scale
  BY <1>3, <1>4
<1>7. Threshold[h.name] \in {NAME_DISAMBIGUATION_THRESHOLD, TWO_TOKEN_THRESHOLD, Scale}
  BY <1>2 DEF ScoreAssumption
<1>8. {NAME_DISAMBIGUATION_THRESHOLD, TWO_TOKEN_THRESHOLD, Scale} \subseteq NAME_DISAMBIGUATION_THRESHOLD..Scale
  <2>1. Parts \in Nat /\ Parts > 0
    BY DEF ScoreAssumption
  <2> QED
    BY <2>1 DEF NAME_DISAMBIGUATION_THRESHOLD, TWO_TOKEN_THRESHOLD, Scale
<1>9. \E t \in NAME_DISAMBIGUATION_THRESHOLD..Scale : t = Threshold[h.name]
  BY <1>7, <1>8
<1> QED
  BY <1>2, <1>5, <1>6, <1>9

\* A pair that scores enough shares a token and is above the floor: the shortcuts leave none out.
LEMMA ShortcutsLeaveNoneOut ==
    ASSUME InputsAssumption, ScoreAssumption, IInv, NEW b \in RemainingBase, NEW h \in RemainingHead
    PROVE  Comparable(b, h) <=> Compared(h) /\ b \in BasesSharingAToken(h) /\ Collected(b, h)
<1>1. b \in input.base /\ h \in input.head
  BY DEF RemainingBase, RemainingHead
<1>2. b.name \in Names /\ h.name \in Names
  BY <1>1, ScoresAreNumbers
<1>3. PICK m \in 0..Scale, s \in 0..Scale :
        m = MemberScore[b.name, h.name] /\ s = SignatureScore[b.sig, h.sig]
  BY <1>1, ScoresAreNumbers
<1>4. PICK t \in NAME_DISAMBIGUATION_THRESHOLD..Scale : t = Threshold[h.name]
  BY <1>1, ScoresAreNumbers
<1>5. 5 * m + 3 * s + 2 * Scale >= 10 * t => 5 * m >= 10 * t - 5 * Scale /\ m > 0
  <2>1. Parts \in Nat /\ Parts > 0
    BY DEF ScoreAssumption
  <2> QED
    BY <2>1 DEF NAME_DISAMBIGUATION_THRESHOLD, Scale
<1>6. Composite(b, h) >= 10 * Threshold[h.name] => AboveFloor(b, h) /\ MemberScore[b.name, h.name] > 0
  BY <1>3, <1>4, <1>5 DEF Composite, AboveFloor
<1>7. BasesSharingAToken(h) \subseteq Bucket(h.kind)
  BY DEF BasesSharingAToken, Reached
<1>8. ASSUME Comparable(b, h)
      PROVE  b \in BasesSharingAToken(h)
  <2>1. b \in Bucket(h.kind)
    BY <1>8 DEF Comparable, Bucket
  <2>2. PICK token : token \in IndexedUnder[b.name] \cap IndexedUnder[h.name]
    BY <1>2, <1>6, <1>8 DEF Comparable, ScoreAssumption
  <2>3. <<token, b>> \in Reached(h)
    BY <2>1, <2>2 DEF Reached
  <2>4. b \in {p[2] : p \in Reached(h)}
    BY <2>3
  <2> QED
    BY <2>1, <2>4 DEF BasesSharingAToken
<1>9. b \in BasesSharingAToken(h) => Compared(b) /\ b.kind = h.kind
  BY <1>7 DEF Bucket
<1> QED
  BY <1>6, <1>8, <1>9 DEF Comparable, Collected

\* What the name stage begins with is every comparable pair no earlier stage touched.
LEMMA ScoreNamesLeft ==
    ASSUME IInv, LeftInv, InputsAssumption, OrderAssumption, ScoreAssumption, ScoreNames
    PROVE  LeftInv'
<1>1. /\ stage = "logic" /\ stage' = "name" /\ group = NoGroup
      /\ UNCHANGED <<input, pairs, group, grouped>>
      /\ \A c \in candidates' : c.score = Composite(c.base, c.head)
  BY ScoredIffCandidate DEF ScoreNames
<1>2. /\ \A k : Exhausted(k)' <=> Exhausted(k)
      /\ ByName' = ByName /\ Earlier' = Earlier
      /\ \A b, h : Untouched(b, h)' <=> Untouched(b, h)
  BY <1>1, SamePairs
<1>3. ByName = {} /\ pairs = ByName \cup Earlier
  BY <1>1 DEF LeftInv, StagedPairs
<1>4. ASSUME NEW b \in input.base, NEW h \in input.head, Comparable(b, h), Untouched(b, h)
      PROVE  Candidate(b, h, Composite(b, h)) \in candidates'
  <2>1. b \in RemainingBase /\ h \in RemainingHead
    BY <1>3, <1>4, RemainderFacts DEF Untouched, IInv
  <2>2. Compared(h) /\ b \in BasesSharingAToken(h) /\ Collected(b, h)
    BY <1>4, <2>1, ShortcutsLeaveNoneOut
  <2> QED
    BY <2>1, <2>2, ScoredIffCandidate
<1>5. NamesWeighed'
  BY <1>1, <1>2, <1>4 DEF NamesWeighed
<1>6. GroupsExhausted' /\ StagedPairs' /\ GroupUnderWay' /\ NamesSettled'
  BY <1>1, <1>2, <1>3 DEF LeftInv, GroupsExhausted, StagedPairs, GroupUnderWay, NamesSettled
<1> QED
  BY <1>5, <1>6 DEF LeftInv

\* A score is a number.
LEMMA CompositeIsNat ==
    ASSUME InputsAssumption, ScoreAssumption, IInv, NEW b \in input.base, NEW h \in input.head
    PROVE  Composite(b, h) \in Nat
<1>1. PICK m \in 0..Scale, s \in 0..Scale :
        m = MemberScore[b.name, h.name] /\ s = SignatureScore[b.sig, h.sig]
  BY ScoresAreNumbers
<1>2. 5 * m + 3 * s + 2 * Scale \in Nat
  <2>1. Parts \in Nat
    BY DEF ScoreAssumption
  <2> QED
    BY <2>1 DEF Scale
<1> QED
  BY <1>1, <1>2 DEF Composite

\* The best candidate scores at least as high as every one it takes a Symbol from.
LEMMA AcceptByNameLeft ==
    ASSUME IInv, LeftInv, InputsAssumption, OrderAssumption, ScoreAssumption, AcceptByName
    PROVE  LeftInv'
<1>1. stage = "name" /\ UNCHANGED <<input, stage, group, grouped>>
  BY DEF AcceptByName
<1>2. PICK p \in candidates : /\ \A q \in candidates \ {p} : Before(p, q)
                              /\ pairs' = pairs \cup {Pair(p.base, p.head, "name-signature")}
                              /\ candidates' = Undecided(p)
  BY DEF AcceptByName, AcceptBest
<1>3. "name-signature" \in Rationales
  BY DEF Rationales
<1>4. /\ ByName' = ByName \cup {Pair(p.base, p.head, "name-signature")} /\ Earlier' = Earlier
      /\ (pairs = ByName \cup Earlier => pairs' = ByName' \cup Earlier')
  BY <1>2, <1>3, OneByStage DEF IInv
<1>5. StagedPairs' /\ GroupsExhausted' /\ GroupUnderWay' /\ NamesSettled'
  BY <1>1, <1>4 DEF LeftInv, StagedPairs, GroupsExhausted, GroupUnderWay, NamesSettled
<1>6. /\ \A c \in candidates : c.score = Composite(c.base, c.head)
      /\ \A c \in candidates : c.base \in input.base /\ c.head \in input.head
  BY <1>1 DEF LeftInv, NamesWeighed, IInv, CandidatesFree, RemainingBase, RemainingHead
<1>7. ASSUME NEW b \in input.base, NEW h \in input.head, Comparable(b, h), Untouched(b, h)'
      PROVE  Candidate(b, h, Composite(b, h)) \in candidates' \/ PassedFor(b, h)'
  <2>1. Untouched(b, h)
    BY <1>4, <1>7 DEF Untouched
  <2>2. Candidate(b, h, Composite(b, h)) \in candidates \/ PassedFor(b, h)
    BY <1>1, <1>7, <2>1 DEF LeftInv, NamesWeighed
  <2>3. CASE PassedFor(b, h)
    BY <1>4, <2>3 DEF PassedFor
  <2>4. CASE Candidate(b, h, Composite(b, h)) \in candidates
    <3>1. PICK q : q = Candidate(b, h, Composite(b, h))
      OBVIOUS
    <3>2. q \in candidates /\ q.base = b /\ q.head = h /\ q.score = Composite(b, h)
      BY <2>4, <3>1 DEF Candidate
    <3>3. CASE q.base # p.base /\ q.head # p.head
      BY <1>2, <3>1, <3>2, <3>3 DEF Undecided
    <3>4. CASE q.base = p.base \/ q.head = p.head
      <4>1. p.score >= q.score
        <5>1. p.score \in Nat /\ q.score \in Nat
          BY <1>6, <3>2, CompositeIsNat
        <5>2. q = p \/ Before(p, q)
          BY <1>2, <3>2
        <5> QED
          BY <5>1, <5>2 DEF Before
      <4>2. Composite(p.base, p.head) >= Composite(b, h)
        BY <1>6, <3>2, <4>1
      <4>3. PICK n \in ByName' : n.base = p.base /\ n.head = p.head
        <5>1. PICK n : n = Pair(p.base, p.head, "name-signature")
          OBVIOUS
        <5>2. n \in ByName' /\ n.base = p.base /\ n.head = p.head
          BY <1>4, <5>1 DEF Pair
        <5> QED
          BY <5>2
      <4> QED
        BY <3>2, <3>4, <4>2, <4>3 DEF PassedFor
    <3> QED
      BY <3>3, <3>4
  <2> QED
    BY <2>2, <2>3, <2>4
<1>8. NamesWeighed'
  BY <1>1, <1>2, <1>6, <1>7 DEF NamesWeighed, Undecided
<1> QED
  BY <1>5, <1>8 DEF LeftInv

LEMMA MatchDroppedLeft ==
    ASSUME IInv, LeftInv, MatchDropped
    PROVE  LeftInv'
<1>1. stage = "name" /\ candidates = {} /\ stage' = "report" /\ UNCHANGED <<input, group, grouped>>
  BY DEF MatchDropped
<1>2. PICK M : pairs' = pairs \cup {Pair(p[1], p[2], "dropped-weak-match") : p \in M}
  BY DEF MatchDropped
<1>3. ByName' = ByName /\ Earlier' = Earlier
  BY <1>2, PairsByStage DEF IInv, Rationales
<1>4. \A b, h : (PassedFor(b, h) => PassedFor(b, h)') /\ (Untouched(b, h)' => Untouched(b, h))
  BY <1>3 DEF PassedFor, Untouched
<1>5. NamesSettled'
  BY <1>1, <1>4 DEF LeftInv, NamesWeighed, NamesSettled
<1> QED
  BY <1>1, <1>5 DEF LeftInv, StagedPairs, GroupsExhausted, GroupUnderWay, NamesWeighed

\* The report and a stutter leave the pairs as they are.
LEMMA QuietLeft ==
    ASSUME IInv, LeftInv, Report \/ UNCHANGED vars
    PROVE  LeftInv'
<1>1. UNCHANGED <<input, pairs, group, grouped, candidates>>
  BY DEF Report, vars
<1>2. /\ \A k : Exhausted(k)' <=> Exhausted(k)
      /\ ByName' = ByName /\ Earlier' = Earlier
      /\ \A b, h : /\ PassedFor(b, h)' <=> PassedFor(b, h)
                   /\ Untouched(b, h)' <=> Untouched(b, h)
  BY <1>1, SamePairs
<1>3. stage' = stage \/ (stage = "report" /\ stage' = "done")
  BY DEF Report, vars
<1>4. GroupUnderWay'
  BY <1>1, <1>3 DEF LeftInv, GroupUnderWay
<1>5. StagedPairs'
  BY <1>1, <1>2, <1>3 DEF LeftInv, StagedPairs
<1>6. GroupsExhausted'
  BY <1>1, <1>2, <1>3 DEF LeftInv, GroupsExhausted
<1>7. NamesWeighed'
  BY <1>1, <1>2, <1>3 DEF LeftInv, NamesWeighed
<1>8. NamesSettled'
  BY <1>1, <1>2, <1>3 DEF LeftInv, NamesSettled
<1> QED
  BY <1>4, <1>5, <1>6, <1>7, <1>8 DEF LeftInv

LEMMA LeftInvHolds == Spec => []LeftInv
<1>1. Init => LeftInv
  BY InitLeft
<1>2. IInv /\ LeftInv /\ [Next]_vars => LeftInv'
  BY FirstStagesLeft, GroupLeft, PairLoneLeft, AcceptByLogicLeft, ScoreNamesLeft, AcceptByNameLeft,
     MatchDroppedLeft, QuietLeft, InputsAssumption, OrderAssumption, ScoreAssumption DEF Next
<1> QED
  BY <1>1, <1>2, Invariance, PTL DEF Spec

\* No pair is passed over: where the logic stage leaves a body on both sides it names nothing or
\* several base Symbols compete for it and no name is close, and a comparable pair the name stage
\* leaves was left for one that scores at least as high (match/logic-fingerprint.ts, pairing.ts).
THEOREM NothingPassedOverHolds == Spec => []NothingPassedOver
<1>1. LeftInv => NoBetterPairLeft
  BY DEF LeftInv, NamesSettled, NoBetterPairLeft, ByName, Earlier, Untouched, PassedFor
<1>2. LeftInv /\ TypeOK => LoneBodyFollowed
  BY DEF LeftInv, GroupsExhausted, Exhausted, LoneBodyFollowed, ByName
<1> QED
  BY <1>1, <1>2, TypeCorrect, LeftInvHolds, PTL DEF NothingPassedOver


-----------------------------------------------------------------------------
(* The walk of the last stage *)

\* The pairs that share p's Symbol of one side.
Sharing(I, p, d) == {q \in I \ {p} : q[d] = p[d]}
Side == {1, 2}

\* Each key identifies a Symbol's counterpart, if any.
SoleByKey(I) ==
    /\ \A p \in I : p[3] \in {"name", "file"}
    /\ \A p, q \in I : p[3] = q[3] /\ (p[1] = q[1] \/ p[2] = q[2]) => p = q

\* A set of pairs with all those they share a Symbol with.
Closed(I, W) == \A x \in W, d \in Side : Sharing(I, x, d) \subseteq W

Onward(I, x) == Sharing(I, x, 1) # {} /\ Sharing(I, x, 2) # {}

\* The pairs of a walk, but for two ways out: of where it starts and of where it stands.
Followed(I, cur, s, so, p, po) ==
    \A x \in cur, d \in Side :
        ~(x = s /\ d = so) /\ ~(x = p /\ d = po) =>
            \A y \in Sharing(I, x, d) : y \in cur /\ ~(y = s /\ d = so) /\ ~(y = p /\ d = po)

\* A walk that started at s and stands on p. What was walked before is closed, and the way out of
\* s leads nowhere unless every pair the walks before left has one on either side.
OnWay(I, W, cur, s, so, p, po) ==
    /\ W \subseteq I /\ cur \subseteq W /\ s \in cur /\ p \in cur
    /\ so \in Side /\ po \in Side
    /\ Closed(I, W \ cur)
    /\ Followed(I, cur, s, so, p, po)
    /\ p = s => cur = {s} /\ so # po
    /\ Sharing(I, s, so) = {} \/ \A x \in I \ (W \ cur) : Onward(I, x)

\* On each side a pair shares its Symbol with one other at most, which is of the other key.
LEMMA OneNeighbour ==
    ASSUME NEW I, SoleByKey(I), NEW p \in I, NEW d \in Side,
           NEW q \in Sharing(I, p, d)
    PROVE  /\ q \in I /\ q # p /\ q[3] # p[3] /\ p \in Sharing(I, q, d)
           /\ \A r \in Sharing(I, p, d) : r = q
<1>1. \A r \in Sharing(I, p, d) : r \in I /\ r # p /\ r[d] = p[d] /\ r[3] \in {"name", "file"}
  BY DEF Sharing, SoleByKey
<1>2. \A r \in Sharing(I, p, d) : r[3] # p[3]
  BY <1>1 DEF SoleByKey, Side
<1>3. p \in Sharing(I, q, d)
  BY <1>1 DEF Sharing
<1>4. p[3] \in {"name", "file"}
  BY DEF SoleByKey
<1>5. \A r \in Sharing(I, p, d) : r[3] = q[3] /\ r[d] = q[d]
  BY <1>1, <1>2, <1>4
<1>6. \A r \in Sharing(I, p, d) : r = q
  BY <1>1, <1>5 DEF SoleByKey, Side
<1> QED
  BY <1>1, <1>2, <1>3, <1>6

LEMMA WalkStarts ==
    ASSUME NEW I, NEW W \in SUBSET I, Closed(I, W), NEW p \in I \ W,
           NEW so \in Side, NEW po \in Side, so # po,
           Sharing(I, p, so) = {} \/ \A x \in I \ W : Onward(I, x)
    PROVE  OnWay(I, W \cup {p}, {p}, p, so, p, po)
<1>1. (W \cup {p}) \ {p} = W
  OBVIOUS
<1>2. Followed(I, {p}, p, so, p, po)
  BY DEF Followed, Side
<1> QED
  BY <1>1, <1>2 DEF OnWay

\* A step of the walk leads on by the one way that is open.
LEMMA WalkGoesOn ==
    ASSUME NEW I, SoleByKey(I), NEW W, NEW cur, NEW s, NEW so, NEW p, NEW po,
           OnWay(I, W, cur, s, so, p, po),
           NEW d \in Side, NEW q \in Sharing(I, p, d), q \notin W
    PROVE  \E to, qo \in Side : OnWay(I, W \cup {q}, cur \cup {q}, s, to, q, qo)
<1>1. p \in I /\ p \in cur /\ s \in cur /\ cur \subseteq W /\ q \in I /\ so \in Side /\ po \in Side
  BY DEF OnWay, Sharing
<1>2. PICK to \in Side : /\ Followed(I, cur, s, to, p, d)
                         /\ p = s => cur = {s} /\ to # d
                         /\ Sharing(I, s, to) = {} \/ \A x \in I \ (W \ cur) : Onward(I, x)
  <2>1. CASE d = po
    BY <2>1, <1>1 DEF OnWay
  <2>2. CASE d # po /\ p # s
    <3>1. q \in cur
      BY <1>1, <2>2 DEF OnWay, Followed
    <3> QED
      BY <1>1, <3>1
  <2>3. CASE d # po /\ p = s
    <3>1. cur = {s} /\ so # po /\ so = d
      BY <1>1, <2>3 DEF OnWay, Side
    <3>2. Followed(I, cur, s, po, p, d)
      BY <1>1, <2>3, <3>1 DEF Followed, Side
    <3>3. Sharing(I, s, so) # {}
      BY <2>3, <3>1
    <3>4. \A x \in I \ (W \ cur) : Onward(I, x)
      BY <3>3 DEF OnWay
    <3> QED
      BY <1>1, <2>3, <3>1, <3>2, <3>4
  <2> QED
    BY <2>1, <2>2, <2>3
<1>3. PICK qo \in Side : qo # d
  BY DEF Side
<1>4. (W \cup {q}) \ (cur \cup {q}) = W \ cur
  BY <1>1
<1>5. q \notin cur /\ q # s /\ q # p
  BY <1>1
<1>6. \A y \in Sharing(I, p, d) : y = q
  BY <1>1, OneNeighbour
<1>7. p \in Sharing(I, q, d) /\ \A y \in Sharing(I, q, d) : y = p
  <2>1. p \in Sharing(I, q, d)
    BY <1>1, OneNeighbour
  <2> QED
    BY <1>1, <2>1, OneNeighbour
<1>8. Followed(I, cur \cup {q}, s, to, q, qo)
  <2> SUFFICES ASSUME NEW x \in cur \cup {q}, NEW e \in Side,
                      ~(x = s /\ e = to), ~(x = q /\ e = qo), NEW y \in Sharing(I, x, e)
               PROVE  y \in cur \cup {q} /\ ~(y = s /\ e = to) /\ ~(y = q /\ e = qo)
    BY DEF Followed
  <2>1. CASE x = q
    <3>1. e = d /\ y = p
      BY <1>3, <1>7, <2>1 DEF Side
    <3>2. p = s => to # d
      BY <1>2
    <3> QED
      BY <1>1, <1>5, <3>1, <3>2
  <2>2. CASE x = p /\ e = d
    BY <1>3, <1>5, <1>6, <2>2
  <2>3. CASE x \in cur /\ ~(x = p /\ e = d)
    <3>1. y \in cur /\ ~(y = s /\ e = to)
      BY <1>2, <2>3 DEF Followed
    <3> QED
      BY <1>5, <3>1
  <2> QED
    BY <2>1, <2>2, <2>3
<1>9. \A x \in I \ ((W \cup {q}) \ (cur \cup {q})) : x \in I \ (W \ cur)
  BY <1>4
<1> QED
  BY <1>1, <1>2, <1>3, <1>4, <1>5, <1>8, <1>9 DEF OnWay

\* A walk that cannot go on has closed what it walked: it went to the end of its path, or came
\* round to where it started.
LEMMA WalkCloses ==
    ASSUME NEW I, SoleByKey(I), NEW W, NEW cur, NEW s, NEW so, NEW p, NEW po,
           OnWay(I, W, cur, s, so, p, po),
           \A d \in Side : Sharing(I, p, d) \subseteq W
    PROVE  Closed(I, W)
<1>1. /\ p \in I /\ p \in cur /\ s \in cur /\ s \in I /\ cur \subseteq W /\ W \subseteq I
      /\ so \in Side /\ po \in Side
  BY DEF OnWay
<1>2. Sharing(I, s, so) \subseteq W
  <2>1. CASE p = s \/ Sharing(I, s, so) = {}
    BY <1>1, <2>1
  <2>2. CASE p # s /\ \A x \in I \ (W \ cur) : Onward(I, x)
    <3>1. Onward(I, p)
      BY <1>1, <2>2
    <3>2. PICK y \in Sharing(I, p, po) : TRUE
      BY <1>1, <3>1 DEF Onward, Side
    <3>3. p \in Sharing(I, y, po) /\ y \in I /\ y # p /\ y \in W
      BY <1>1, <3>2, OneNeighbour
    <3>4. y \in cur
      <4>1. SUFFICES ASSUME y \in W \ cur PROVE FALSE
        BY <3>3
      <4>2. p \in W \ cur
        BY <1>1, <3>3, <4>1 DEF OnWay, Closed
      <4> QED
        BY <1>1, <4>2
    <3>5. y = s /\ po = so
      <4>1. SUFFICES ASSUME ~(y = s /\ po = so) PROVE FALSE
        OBVIOUS
      <4>2. ~(p = p /\ po = po)
        BY <1>1, <3>3, <3>4, <4>1 DEF OnWay, Followed
      <4> QED
        BY <4>2
    <3>6. \A z \in Sharing(I, s, so) : z = p
      BY <1>1, <3>3, <3>5, OneNeighbour
    <3> QED
      BY <1>1, <3>6
  <2> QED
    BY <2>1, <2>2 DEF OnWay
<1>3. ASSUME NEW x \in W, NEW d \in Side
      PROVE  Sharing(I, x, d) \subseteq W
  <2>1. CASE x \in W \ cur
    BY <2>1 DEF OnWay, Closed
  <2>2. CASE x \in cur /\ ~(x = s /\ d = so) /\ ~(x = p /\ d = po)
    BY <1>1, <2>2 DEF OnWay, Followed
  <2> QED
    BY <1>2, <2>1, <2>2
<1> QED
  BY <1>3 DEF Closed

\* The pairs a walk takes are those of its first one's key.
Alternating(cur, s, p, M, takes) ==
    /\ \A x \in cur : x \in M <=> x[3] = s[3]
    /\ takes <=> p[3] # s[3]

\* Each pair a walk left out shares a Symbol with one it took just before, and with which no other
\* was left out; the pair it stands on has been counted so for none yet.
Answered(W, M, p) ==
    \E f \in [W \ M -> M] :
        /\ \A x \in W \ M : (f[x][1] = x[1] \/ f[x][2] = x[2]) /\ f[x] # p
        /\ \A x, y \in W \ M : f[x] = f[y] => x = y

\* A pair that is taken shares no Symbol with one taken before: with none of its walk's, which
\* are of its key, and with none of another's, which are closed.
LEMMA TakenApart ==
    ASSUME NEW I, SoleByKey(I), NEW W, NEW cur, NEW s, NEW so, NEW p, NEW po,
           OnWay(I, W, cur, s, so, p, po),
           NEW M \in SUBSET W, IsMatching(M),
           NEW q \in cur, q[3] = s[3], \A x \in cur \ {q} : x \in M <=> x[3] = s[3]
    PROVE  IsMatching(M \cup {q})
<1> SUFFICES ASSUME NEW m \in M, m # q, m[1] = q[1] \/ m[2] = q[2] PROVE FALSE
  BY DEF IsMatching
<1>1. m \in I /\ q \in I /\ m \in W /\ q \in W
  BY DEF OnWay
<1>2. CASE m \in cur
  <2>1. m[3] = q[3]
    BY <1>2
  <2> QED
    BY <1>1, <2>1 DEF SoleByKey
<1>3. CASE m \in W \ cur
  <2>1. PICK d \in Side : q[d] = m[d]
    BY DEF Side
  <2>2. q \in Sharing(I, m, d)
    BY <1>1, <2>1 DEF Sharing
  <2>3. q \in W \ cur
    BY <1>3, <2>2 DEF OnWay, Closed
  <2> QED
    BY <2>3
<1> QED
  BY <1>1, <1>2, <1>3

\* One more pair left out is answered for by the pair the walk stood on.
LEMMA LeftOutAnswered ==
    ASSUME NEW W, NEW M \in SUBSET W, NEW p \in M, NEW q, q \notin W, Answered(W, M, p),
           p[1] = q[1] \/ p[2] = q[2]
    PROVE  Answered(W \cup {q}, M, q)
<1>1. PICK f \in [W \ M -> M] :
        /\ \A x \in W \ M : (f[x][1] = x[1] \/ f[x][2] = x[2]) /\ f[x] # p
        /\ \A x, y \in W \ M : f[x] = f[y] => x = y
  BY DEF Answered
<1>2. PICK g : g = [x \in (W \cup {q}) \ M |-> IF x = q THEN p ELSE f[x]]
  OBVIOUS
<1>3. g \in [(W \cup {q}) \ M -> M]
  BY <1>1, <1>2
<1>4. \A x \in (W \cup {q}) \ M : (x = q /\ g[x] = p) \/ (x \in W \ M /\ x # q /\ g[x] = f[x])
  BY <1>2
<1>5. \A x \in (W \cup {q}) \ M : (g[x][1] = x[1] \/ g[x][2] = x[2]) /\ g[x] # q
  <2> SUFFICES ASSUME NEW x \in (W \cup {q}) \ M
               PROVE  (g[x][1] = x[1] \/ g[x][2] = x[2]) /\ g[x] # q
    OBVIOUS
  <2>1. g[x] \in M
    BY <1>3
  <2>2. g[x][1] = x[1] \/ g[x][2] = x[2]
    BY <1>1, <1>4
  <2> QED
    BY <2>1, <2>2
<1>6. \A x, y \in (W \cup {q}) \ M : g[x] = g[y] => x = y
  BY <1>1, <1>4
<1> QED
  BY <1>3, <1>5, <1>6 DEF Answered

\* One more pair taken answers for nothing yet.
LEMMA TakenAnswered ==
    ASSUME NEW W, NEW M \in SUBSET W, NEW p, NEW q, q \notin W, Answered(W, M, p)
    PROVE  Answered(W \cup {q}, M \cup {q}, q)
<1>1. PICK f \in [W \ M -> M] :
        /\ \A x \in W \ M : (f[x][1] = x[1] \/ f[x][2] = x[2]) /\ f[x] # p
        /\ \A x, y \in W \ M : f[x] = f[y] => x = y
  BY DEF Answered
<1>2. (W \cup {q}) \ (M \cup {q}) = W \ M
  OBVIOUS
<1>3. f \in [W \ M -> M \cup {q}] /\ \A x \in W \ M : f[x] # q
  BY <1>1
<1> QED
  BY <1>1, <1>2, <1>3 DEF Answered

\* When all are walked, no set of pairs that share no Symbol is larger: each of its pairs is taken, or
\* answered for by a taken one that is not in it. A pair both keys identify counts once.
LEMMA WalkedIsMaximum ==
    ASSUME NEW I, NEW M \in SUBSET I, IsMatching(M), NEW p, Answered(I, M, p),
           NEW K, K = {<<q[1], q[2]>> : q \in M}, IsFiniteSet(K),
           NEW L \in SUBSET {<<q[1], q[2]>> : q \in I}, IsMatching(L)
    PROVE  Cardinality(L) <= Cardinality(K)
<1>1. PICK f \in [I \ M -> M] :
        /\ \A x \in I \ M : f[x][1] = x[1] \/ f[x][2] = x[2]
        /\ \A x, y \in I \ M : f[x] = f[y] => x = y
  BY DEF Answered
<1>2. PICK u : u = [x \in I |-> IF x \in M THEN x ELSE f[x]]
  OBVIOUS
<1>3. \A x \in I : u[x] \in M /\ ((x \in M /\ u[x] = x) \/ (x \in I \ M /\ u[x] = f[x]))
  BY <1>1, <1>2
<1>4. PICK t : t = [x \in L |-> CHOOSE q \in I : <<q[1], q[2]>> = x]
  OBVIOUS
<1>5. \A x \in L : t[x] \in I /\ <<t[x][1], t[x][2]>> = x
  BY <1>4
<1>6. \A x \in L : t[x][1] = x[1] /\ t[x][2] = x[2]
  <2> SUFFICES ASSUME NEW x \in L PROVE t[x][1] = x[1] /\ t[x][2] = x[2]
    OBVIOUS
  <2>1. PICK v : v = t[x]
    OBVIOUS
  <2>2. x = <<v[1], v[2]>>
    BY <1>5, <2>1
  <2> QED
    BY <2>1, <2>2
<1>7. PICK g : g = [x \in L |-> <<u[t[x]][1], u[t[x]][2]>>]
  OBVIOUS
<1>8. g \in [L -> K]
  BY <1>3, <1>5, <1>7
<1>9. ASSUME NEW x \in L, NEW y \in L, g[x] = g[y]
      PROVE  x = y
  <2>1. PICK a \in I, b \in I : a = t[x] /\ b = t[y]
    BY <1>5
  <2>2. /\ a[1] = x[1] /\ a[2] = x[2] /\ b[1] = y[1] /\ b[2] = y[2]
        /\ x = <<a[1], a[2]>> /\ y = <<b[1], b[2]>>
    BY <1>5, <1>6, <2>1
  <2>3. <<u[a][1], u[a][2]>> = <<u[b][1], u[b][2]>>
    BY <1>7, <1>9, <2>1
  <2>4. u[a] = u[b]
    BY <1>3, <2>3 DEF IsMatching
  <2>5. a[1] = b[1] \/ a[2] = b[2]
    <3>1. CASE a \in M /\ b \in M
      BY <1>3, <2>4, <3>1
    <3>2. CASE a \notin M /\ b \notin M
      BY <1>1, <1>3, <2>4, <3>2
    <3>3. CASE a \in M /\ b \notin M
      BY <1>1, <1>3, <2>4, <3>3
    <3>4. CASE a \notin M /\ b \in M
      BY <1>1, <1>3, <2>4, <3>4
    <3> QED
      BY <3>1, <3>2, <3>3, <3>4
  <2> QED
    BY <2>2, <2>5 DEF IsMatching
<1>10. g \in Injection(L, K)
  BY <1>8, <1>9 DEF Injection, IsInjective
<1> QED
  BY <1>10, FS_Injection

\* The pairs the keys identify, with the key that does.
WeakPairs == Weak!Identified

WalkInv ==
    /\ walked \subseteq WeakPairs /\ matching \subseteq walked /\ IsMatching(matching)
    /\ Answered(walked, matching, at)
    /\ \/ at = <<>> /\ take = TRUE /\ Closed(WeakPairs, walked)
       \/ \E cur \in SUBSET walked, s \in walked, so, po \in Side :
              /\ OnWay(WeakPairs, walked, cur, s, so, at, po)
              /\ Alternating(cur, s, at, matching, take = TRUE)
    /\ take \in BOOLEAN

LEMMA WeakShape ==
    /\ WeakPairs \subseteq RemainingBase \X RemainingHead \X {"name", "file"}
    /\ \A p \in WeakPairs :
          /\ p[1] \in DroppedOf(RemainingBase) /\ p[2] \in DroppedOf(RemainingHead)
          /\ Key(p[1], p[3]) = Key(p[2], p[3])
          /\ \A t \in DroppedOf(RemainingBase) \ {p[1]} : Key(t, p[3]) # Key(p[1], p[3])
          /\ \A t \in DroppedOf(RemainingHead) \ {p[2]} : Key(t, p[3]) # Key(p[2], p[3])
<1>1. DroppedOf(RemainingBase) \subseteq RemainingBase /\ DroppedOf(RemainingHead) \subseteq RemainingHead
  BY DEF DroppedOf
<1>2. PICK B, H : B = DroppedOf(RemainingBase) /\ H = DroppedOf(RemainingHead)
  OBVIOUS
<1>3. PICK k : k = [by \in {"name", "file"} |-> [s \in B \cup H |-> Key(s, by)]]
  OBVIOUS
<1>4. ASSUME NEW by \in {"name", "file"}, NEW p \in Weak!PairsIdentifiedBy(by)
      PROVE  /\ p \in B \X H \X {by}
             /\ k[by][p[1]] = k[by][p[2]]
             /\ \A t \in B \ {p[1]} : k[by][t] # k[by][p[1]]
             /\ \A t \in H \ {p[2]} : k[by][t] # k[by][p[2]]
  BY <1>2, <1>3, <1>4 DEF Weak!PairsIdentifiedBy, Weak!SoleCarrier
<1>5. \A by \in {"name", "file"}, s \in B \cup H : k[by][s] = Key(s, by)
  BY <1>3
<1>6. ASSUME NEW p \in WeakPairs
      PROVE  \E by \in {"name", "file"} : p \in Weak!PairsIdentifiedBy(by)
  BY <1>6 DEF WeakPairs, Weak!Identified
<1>7. ASSUME NEW p \in WeakPairs
      PROVE  /\ p \in B \X H \X {"name", "file"}
             /\ Key(p[1], p[3]) = Key(p[2], p[3])
             /\ \A t \in B \ {p[1]} : Key(t, p[3]) # Key(p[1], p[3])
             /\ \A t \in H \ {p[2]} : Key(t, p[3]) # Key(p[2], p[3])
  <2>1. PICK by \in {"name", "file"} : p \in Weak!PairsIdentifiedBy(by)
    BY <1>6, <1>7
  <2>2. p \in B \X H \X {by} /\ p[3] = by /\ p[1] \in B /\ p[2] \in H
    BY <1>4, <2>1
  <2>3. /\ k[by][p[1]] = Key(p[1], by) /\ k[by][p[2]] = Key(p[2], by)
        /\ \A t \in B : k[by][t] = Key(t, by)
        /\ \A t \in H : k[by][t] = Key(t, by)
    BY <1>5, <2>2
  <2>4. /\ k[by][p[1]] = k[by][p[2]]
        /\ \A t \in B \ {p[1]} : k[by][t] # k[by][p[1]]
        /\ \A t \in H \ {p[2]} : k[by][t] # k[by][p[2]]
    BY <1>4, <2>1
  <2> QED
    BY <2>2, <2>3, <2>4
<1>8. WeakPairs \subseteq RemainingBase \X RemainingHead \X {"name", "file"}
  BY <1>1, <1>2, <1>7
<1> QED
  BY <1>2, <1>7, <1>8

LEMMA WeakSole == SoleByKey(WeakPairs) /\ <<>> \notin WeakPairs
<1>1. \A p \in WeakPairs : /\ p \in RemainingBase \X RemainingHead \X {"name", "file"}
                           /\ p[3] \in {"name", "file"} /\ p = <<p[1], p[2], p[3]>>
  BY WeakShape
<1>2. ASSUME NEW p \in WeakPairs, NEW q \in WeakPairs, p[3] = q[3], p[1] = q[1] \/ p[2] = q[2]
      PROVE  p = q
  <2>1. /\ p[1] \in DroppedOf(RemainingBase) /\ p[2] \in DroppedOf(RemainingHead)
        /\ q[1] \in DroppedOf(RemainingBase) /\ q[2] \in DroppedOf(RemainingHead)
        /\ Key(p[1], p[3]) = Key(p[2], p[3]) /\ Key(q[1], p[3]) = Key(q[2], p[3])
    BY <1>2, WeakShape
  <2>2. p[1] = q[1]
    BY <1>2, <2>1, WeakShape
  <2>3. p[2] = q[2]
    BY <1>2, <2>1, WeakShape
  <2> QED
    BY <1>1, <1>2, <2>2, <2>3
<1>3. <<>> \notin WeakPairs
  BY <1>1
<1> QED
  BY <1>1, <1>2, <1>3 DEF SoleByKey

\* The instance's Cardinality is the one of the library's theorems.
LEMMA WeakCardinality == \A S : Weak!Cardinality(S) = Cardinality(S)
BY DEF Weak!Cardinality, Weak!IsFiniteSet, Cardinality, IsFiniteSet

\* The code's adjacency lists, and its count of them.
LEMMA WeakEnds ==
    ASSUME NEW p \in WeakPairs
    PROVE  /\ Weak!Adjacent(p) = Sharing(WeakPairs, p, 1) \cup Sharing(WeakPairs, p, 2)
           /\ Weak!IsEnd(p) => Sharing(WeakPairs, p, 1) = {} \/ Sharing(WeakPairs, p, 2) = {}
           /\ ~Weak!IsEnd(p) => Onward(WeakPairs, p)
<1>1. PICK S, T : S = Sharing(WeakPairs, p, 1) /\ T = Sharing(WeakPairs, p, 2)
  OBVIOUS
<1>2. Weak!AtBase(p) = S /\ Weak!AtHead(p) = T
  BY <1>1 DEF Weak!AtBase, Weak!AtHead, Sharing, WeakPairs
<1>3. \A d \in Side : \A q \in Sharing(WeakPairs, p, d) : Sharing(WeakPairs, p, d) = {q}
  <2> SUFFICES ASSUME NEW d \in Side, NEW q \in Sharing(WeakPairs, p, d)
               PROVE  Sharing(WeakPairs, p, d) \subseteq {q}
    OBVIOUS
  <2>1. \A r \in Sharing(WeakPairs, p, d) : r = q
    BY WeakSole, OneNeighbour
  <2> QED
    BY <2>1
<1>4. (\A q \in S : S = {q}) /\ (\A q \in T : T = {q})
  BY <1>1, <1>3 DEF Side
<1>5. (S = {} /\ Cardinality(S) = 0) \/ (S # {} /\ Cardinality(S) = 1)
  BY <1>4, FS_EmptySet, FS_Singleton
<1>6. (T = {} /\ Cardinality(T) = 0) \/ (T # {} /\ Cardinality(T) = 1)
  BY <1>4, FS_EmptySet, FS_Singleton
<1>7. Weak!IsEnd(p) <=> S = {} \/ T = {}
  <2>1. PICK m \in {0, 1}, n \in {0, 1} : /\ m = Cardinality(S) /\ n = Cardinality(T)
                                          /\ m = 0 <=> S = {}
                                          /\ n = 0 <=> T = {}
    BY <1>5, <1>6
  <2>2. m + n <= 1 <=> m = 0 \/ n = 0
    OBVIOUS
  <2>3. Weak!IsEnd(p) <=> m + n <= 1
    BY <1>2, <2>1, WeakCardinality DEF Weak!IsEnd
  <2> QED
    BY <2>1, <2>2, <2>3
<1>8. Weak!Adjacent(p) = S \cup T
  BY <1>2 DEF Weak!Adjacent
<1> QED
  BY <1>1, <1>7, <1>8 DEF Onward

LEMMA WeakSame == UNCHANGED vars => WeakPairs' = WeakPairs
BY DEF vars, WeakPairs, Weak!Identified, Weak!PairsIdentifiedBy, Weak!SoleCarrier, DroppedOf,
       RemainingBase, RemainingHead

\* q, which comes next, is on a walk from s, and is taken if it has s's key; if it is left out, the
\* pair before it answers for it.
OnWalk(q, cur, s, so, po) ==
    /\ q \in WeakPairs \ walked
    /\ OnWay(WeakPairs, walked \cup {q}, cur, s, so, q, po)
    /\ \A x \in cur \ {q} : x \in matching <=> x[3] = s[3]
    /\ take = TRUE <=> q[3] = s[3]
    /\ take = FALSE => at \in matching /\ (at[1] = q[1] \/ at[2] = q[2])

\* A pair passed while the invariant holds, by a walk it is on.
LEMMA PassKeeps ==
    ASSUME WalkInv, UNCHANGED vars, NEW q, Weak!Pass(q),
           NEW cur, NEW s, NEW so, NEW po, OnWalk(q, cur, s, so, po)
    PROVE  WalkInv'
<1>0. /\ q \in WeakPairs \ walked
      /\ OnWay(WeakPairs, walked \cup {q}, cur, s, so, q, po)
      /\ \A x \in cur \ {q} : x \in matching <=> x[3] = s[3]
      /\ take = TRUE <=> q[3] = s[3]
      /\ take = FALSE => at \in matching /\ (at[1] = q[1] \/ at[2] = q[2])
  BY DEF OnWalk
<1>1. /\ walked' = walked \cup {q} /\ at' = q
      /\ take = TRUE => matching' = matching \cup {q} /\ take' = FALSE
      /\ take = FALSE => matching' = matching /\ take' = TRUE
  BY DEF Weak!Pass, WalkInv
<1>2. WeakPairs' = WeakPairs
  BY WeakSame
<1>3. /\ walked \subseteq WeakPairs /\ matching \subseteq walked /\ IsMatching(matching)
      /\ Answered(walked, matching, at) /\ take \in BOOLEAN
  BY DEF WalkInv
<1>4. /\ cur \subseteq walked' /\ s \in walked' /\ so \in Side /\ po \in Side
      /\ OnWay(WeakPairs, walked', cur, s, so, q, po) /\ q \in cur
  BY <1>0, <1>1 DEF OnWay
<1>5. /\ matching' \subseteq walked' /\ IsMatching(matching') /\ Answered(walked', matching', q)
      /\ Alternating(cur, s, q, matching', take' = TRUE)
      /\ take' \in BOOLEAN
  <2>1. CASE take = TRUE
    <3>1. IsMatching(matching \cup {q})
      <4>1. matching \subseteq walked'
        BY <1>1, <1>3
      <4> QED
        BY <1>0, <1>3, <1>4, <2>1, <4>1, WeakSole, TakenApart
    <3>2. Answered(walked \cup {q}, matching \cup {q}, q)
      BY <1>0, <1>3, TakenAnswered
    <3>3. Alternating(cur, s, q, matching', take' = TRUE)
      BY <1>0, <1>1, <2>1 DEF Alternating
    <3> QED
      BY <1>1, <1>3, <2>1, <3>1, <3>2, <3>3
  <2>2. CASE take = FALSE
    <3>1. Answered(walked \cup {q}, matching, q)
      BY <1>0, <1>3, <2>2, LeftOutAnswered
    <3>2. Alternating(cur, s, q, matching', take' = TRUE)
      BY <1>0, <1>1, <1>3, <2>2 DEF Alternating
    <3> QED
      BY <1>1, <1>3, <2>2, <3>1, <3>2
  <2> QED
    BY <1>3, <2>1, <2>2
<1>6. walked' \subseteq WeakPairs'
  BY <1>0, <1>1, <1>2, <1>3
<1>7. \E c \in SUBSET walked', r \in walked', ro, qo \in Side :
          /\ OnWay(WeakPairs', walked', c, r, ro, at', qo)
          /\ Alternating(c, r, at', matching', take' = TRUE)
  BY <1>1, <1>2, <1>4, <1>5
<1> QED
  BY <1>1, <1>5, <1>6, <1>7 DEF WalkInv

\* Where the walk stands, if it is under way.
LEMMA WalkUnderWay ==
    ASSUME WalkInv
    PROVE  IF at = <<>> THEN take = TRUE /\ Closed(WeakPairs, walked)
           ELSE \E cur \in SUBSET walked, s \in walked, so, po \in Side :
                    /\ OnWay(WeakPairs, walked, cur, s, so, at, po)
                    /\ Alternating(cur, s, at, matching, take = TRUE)
<1>1. ASSUME NEW cur, NEW s, NEW so, NEW po, OnWay(WeakPairs, walked, cur, s, so, at, po)
      PROVE  at # <<>>
  BY <1>1, WeakSole DEF OnWay
<1> QED
  BY <1>1 DEF WalkInv

LEMMA StartKeeps ==
    ASSUME WalkInv, UNCHANGED vars, NEW q \in WeakPairs,
           Weak!StartAtEnd(q) \/ Weak!StartOnCycle(q)
    PROVE  WalkInv'
<1>1. /\ at = <<>> /\ q \in WeakPairs \ walked /\ Weak!Pass(q)
      /\ Weak!IsEnd(q) \/ \A x \in WeakPairs \ walked : ~Weak!IsEnd(x)
  BY DEF Weak!StartAtEnd, Weak!StartOnCycle, Weak!NoPair, WeakPairs
<1>2. take = TRUE /\ Closed(WeakPairs, walked) /\ walked \in SUBSET WeakPairs
  BY <1>1, WalkUnderWay DEF WalkInv
<1>3. PICK so \in Side : \/ Sharing(WeakPairs, q, so) = {}
                         \/ \A x \in WeakPairs \ walked : Onward(WeakPairs, x)
  BY <1>1, WeakEnds DEF Side
<1>4. PICK po \in Side : so # po
  BY DEF Side
<1>5. OnWay(WeakPairs, walked \cup {q}, {q}, q, so, q, po)
  BY <1>1, <1>2, <1>3, <1>4, WalkStarts
<1>6. OnWalk(q, {q}, q, so, po)
  BY <1>1, <1>2, <1>5 DEF OnWalk
<1> QED
  BY <1>1, <1>6, PassKeeps

LEMMA WalkOnKeeps ==
    ASSUME WalkInv, UNCHANGED vars, NEW q \in WeakPairs, Weak!Walk(q)
    PROVE  WalkInv'
<1>1. at # <<>> /\ q \in Weak!Adjacent(at) \ walked /\ Weak!Pass(q)
  BY DEF Weak!Walk, Weak!NoPair
<1>2. PICK cur \in SUBSET walked, s \in walked, so \in Side, po \in Side :
          /\ OnWay(WeakPairs, walked, cur, s, so, at, po)
          /\ Alternating(cur, s, at, matching, take = TRUE)
  BY <1>1, WalkUnderWay
<1>3. at \in WeakPairs /\ at \in cur /\ s \in WeakPairs
  BY <1>2 DEF OnWay
<1>4. PICK d \in Side : q \in Sharing(WeakPairs, at, d)
  BY <1>1, <1>3, WeakEnds DEF Side
<1>5. PICK to \in Side, qo \in Side : OnWay(WeakPairs, walked \cup {q}, cur \cup {q}, s, to, q, qo)
  BY <1>1, <1>2, <1>4, WeakSole, WalkGoesOn
<1>6. q[3] # at[3] /\ q[d] = at[d]
  <2>1. q[3] # at[3]
    BY <1>3, <1>4, WeakSole, OneNeighbour
  <2> QED
    BY <1>4, <2>1 DEF Sharing
<1>7. \A x \in {q, at, s} : x[3] \in {"name", "file"}
  BY <1>3, WeakSole DEF SoleByKey
<1>8. take = TRUE <=> q[3] = s[3]
  <2>1. take = TRUE <=> at[3] # s[3]
    BY <1>2 DEF Alternating
  <2>2. at[3] # s[3] <=> q[3] = s[3]
    BY <1>6, <1>7
  <2> QED
    BY <2>1, <2>2
<1>9. take = FALSE => at \in matching /\ (at[1] = q[1] \/ at[2] = q[2])
  <2>1. take = FALSE => at[3] = s[3]
    BY <1>2 DEF Alternating
  <2>2. take = FALSE => at \in matching
    BY <1>2, <1>3, <2>1 DEF Alternating
  <2>3. at[1] = q[1] \/ at[2] = q[2]
    BY <1>6 DEF Side
  <2> QED
    BY <2>2, <2>3
<1>10. OnWalk(q, cur \cup {q}, s, to, qo)
  <2>1. \A x \in (cur \cup {q}) \ {q} : x \in matching <=> x[3] = s[3]
    BY <1>2 DEF Alternating
  <2> QED
    BY <1>1, <1>5, <1>8, <1>9, <2>1 DEF OnWalk
<1> QED
  BY <1>1, <1>10, PassKeeps

LEMMA EndWalkKeeps ==
    ASSUME WalkInv, UNCHANGED vars, Weak!EndWalk
    PROVE  WalkInv'
<1>1. /\ at # <<>> /\ Weak!Adjacent(at) \subseteq walked
      /\ at' = <<>> /\ take' = TRUE /\ walked' = walked /\ matching' = matching
  BY DEF Weak!EndWalk, Weak!NoPair
<1>2. PICK cur \in SUBSET walked, s \in walked, so \in Side, po \in Side :
          OnWay(WeakPairs, walked, cur, s, so, at, po)
  BY <1>1, WalkUnderWay
<1>3. \A d \in Side : Sharing(WeakPairs, at, d) \subseteq walked
  <2>1. at \in WeakPairs
    BY <1>2 DEF OnWay
  <2> QED
    BY <1>1, <2>1, WeakEnds DEF Side
<1>4. Closed(WeakPairs, walked)
  BY <1>2, <1>3, WeakSole, WalkCloses
<1>5. Answered(walked, matching, <<>>)
  <2>1. <<>> \notin matching
    BY WeakSole DEF WalkInv
  <2>2. Answered(walked, matching, at)
    BY DEF WalkInv
  <2> QED
    BY <2>1, <2>2 DEF Answered
<1>6. WeakPairs' = WeakPairs
  BY WeakSame
<1> QED
  BY <1>1, <1>4, <1>5, <1>6 DEF WalkInv

\* Where the walk is: not begun, under way, or its pairs are kept.
DropInv ==
    \/ walked = {} /\ at = <<>> /\ take = TRUE /\ matching = {}
    \/ Walking /\ WalkInv
    \/ stage \in {"report", "done"}

LEMMA FreshWalk ==
    ASSUME walked = {}, at = <<>>, take = TRUE, matching = {}
    PROVE  WalkInv
<1>1. PICK f : f = [x \in {} |-> x]
  OBVIOUS
<1>2. f \in [walked \ matching -> matching]
  BY <1>1
<1>3. Answered(walked, matching, at)
  BY <1>2 DEF Answered
<1>4. IsMatching(matching) /\ Closed(WeakPairs, walked)
  BY DEF IsMatching, Closed
<1> QED
  BY <1>3, <1>4 DEF WalkInv

\* What the keys identify is what MatchStages says they do.
LEMMA SameIdentified ==
    IdentifiedIn(DroppedOf(RemainingBase), DroppedOf(RemainingHead))
        = {<<q[1], q[2]>> : q \in WeakPairs}
<1>1. PICK B, H : B = DroppedOf(RemainingBase) /\ H = DroppedOf(RemainingHead)
  OBVIOUS
<1>2. ASSUME NEW q \in WeakPairs
      PROVE  <<q[1], q[2]>> \in IdentifiedIn(B, H)
  <2>1. q[3] \in {"name", "file"}
    BY <1>2, WeakSole DEF SoleByKey
  <2>2. /\ q[1] \in B /\ q[2] \in H /\ Key(q[1], q[3]) = Key(q[2], q[3])
        /\ \A t \in B \ {q[1]} : Key(t, q[3]) # Key(q[1], q[3])
        /\ \A t \in H \ {q[2]} : Key(t, q[3]) # Key(q[2], q[3])
    BY <1>1, <1>2, WeakShape
  <2> QED
    BY <2>1, <2>2 DEF IdentifiedIn, SoleCarrier
<1>3. ASSUME NEW x \in IdentifiedIn(B, H)
      PROVE  \E q \in WeakPairs : x = <<q[1], q[2]>>
  <2>1. PICK by \in {"name", "file"} :
            /\ Key(x[1], by) = Key(x[2], by)
            /\ SoleCarrier(x[1], B, by) /\ SoleCarrier(x[2], H, by)
    BY <1>3 DEF IdentifiedIn
  <2>2. x \in B \X H
    BY <1>3 DEF IdentifiedIn
  <2>3. PICK k : k = [b \in {"name", "file"} |-> [s \in B \cup H |-> Key(s, b)]]
    OBVIOUS
  <2>4. /\ \A s \in B \cup H : k[by][s] = Key(s, by)
        /\ x[1] \in B /\ x[2] \in H
    BY <2>2, <2>3
  <2>5. /\ k[by][x[1]] = k[by][x[2]]
        /\ \A t \in B \ {x[1]} : k[by][t] # k[by][x[1]]
        /\ \A t \in H \ {x[2]} : k[by][t] # k[by][x[2]]
    BY <2>1, <2>4 DEF SoleCarrier
  <2>6. <<x[1], x[2], by>> \in Weak!PairsIdentifiedBy(by)
    BY <1>1, <2>3, <2>4, <2>5 DEF Weak!PairsIdentifiedBy, Weak!SoleCarrier
  <2>7. <<x[1], x[2], by>> \in WeakPairs
    BY <2>6 DEF WeakPairs, Weak!Identified
  <2> QED
    BY <2>2, <2>7
<1> QED
  BY <1>1, <1>2, <1>3

\* The pairs a finished walk keeps are a maximum set of those the keys identify.
LEMMA WalkEndsMaximum ==
    ASSUME InputsAssumption, IInv, WalkInv, Weak!Done
    PROVE  {<<p[1], p[2]>> : p \in matching}
               \in MaximumMatchings(IdentifiedIn(DroppedOf(RemainingBase), DroppedOf(RemainingHead)))
<1>1. at = <<>> /\ walked = WeakPairs
  BY DEF Weak!Done, Weak!NoPair, WeakPairs, WalkInv
<1>2. /\ matching \in SUBSET WeakPairs /\ IsMatching(matching)
      /\ Answered(WeakPairs, matching, <<>>)
  BY <1>1 DEF WalkInv
<1>3. PICK M, E : M = {<<p[1], p[2]>> : p \in matching} /\ E = {<<q[1], q[2]>> : q \in WeakPairs}
  OBVIOUS
<1>4. IsFiniteSet(M)
  <2>1. IsFiniteSet(RemainingBase) /\ IsFiniteSet(RemainingHead)
    <3>1. IsFiniteSet(input.base) /\ IsFiniteSet(input.head)
      BY DEF IInv, InputsAssumption
    <3>2. RemainingBase \in SUBSET input.base /\ RemainingHead \in SUBSET input.head
      BY DEF RemainingBase, RemainingHead
    <3> QED
      BY <3>1, <3>2, FS_Subset
  <2>2. IsFiniteSet(RemainingBase \X RemainingHead)
    BY <2>1, FS_Product
  <2>3. M \in SUBSET (RemainingBase \X RemainingHead)
    BY <1>2, <1>3, WeakShape
  <2> QED
    BY <2>2, <2>3, FS_Subset
<1>5. M \in SUBSET E /\ IsMatching(M)
  <2>1. M \in SUBSET E
    BY <1>2, <1>3
  <2>2. ASSUME NEW x \in M, NEW y \in M, x # y
        PROVE  x[1] # y[1] /\ x[2] # y[2]
    <3>1. PICK p \in matching, q \in matching : x = <<p[1], p[2]>> /\ y = <<q[1], q[2]>>
      BY <1>3
    <3>2. p # q
      BY <2>2, <3>1
    <3> QED
      BY <1>2, <3>1, <3>2 DEF IsMatching
  <2> QED
    BY <2>1, <2>2 DEF IsMatching
<1>6. ASSUME NEW L \in SUBSET E, IsMatching(L)
      PROVE  Cardinality(L) <= Cardinality(M)
  BY <1>2, <1>3, <1>4, <1>6, WalkedIsMaximum
<1>7. M \in MaximumMatchings(E)
  BY <1>5, <1>6 DEF MaximumMatchings
<1> QED
  BY <1>3, <1>7, SameIdentified

LEMMA KeepWalkedIsMatchDropped ==
    ASSUME InputsAssumption, IInv, DropInv, KeepWalked
    PROVE  MatchDropped
<1>1. Walking /\ Weak!Done /\ stage = "name" /\ candidates = {}
  BY DEF KeepWalked, Walking
<1>2. WalkInv
  BY <1>1, FreshWalk DEF DropInv
<1>3. PICK M : /\ M = {<<p[1], p[2]>> : p \in matching}
               /\ M \in MaximumMatchings(
                            IdentifiedIn(DroppedOf(RemainingBase), DroppedOf(RemainingHead)))
  BY <1>1, <1>2, WalkEndsMaximum
<1>4. {Pair(p[1], p[2], "dropped-weak-match") : p \in matching}
          = {Pair(p[1], p[2], "dropped-weak-match") : p \in M}
  <2>1. ASSUME NEW p \in matching
        PROVE  \E x \in M : Pair(p[1], p[2], "dropped-weak-match")
                                = Pair(x[1], x[2], "dropped-weak-match")
    <3>1. PICK x \in M : x = <<p[1], p[2]>>
      BY <1>3, <2>1
    <3> QED
      BY <3>1
  <2>2. ASSUME NEW x \in M
        PROVE  \E p \in matching : Pair(x[1], x[2], "dropped-weak-match")
                                       = Pair(p[1], p[2], "dropped-weak-match")
    <3>1. PICK p \in matching : x = <<p[1], p[2]>>
      BY <1>3, <2>2
    <3> QED
      BY <3>1
  <2> QED
    BY <2>1, <2>2
<1>5. pairs' = pairs \cup {Pair(p[1], p[2], "dropped-weak-match") : p \in M}
  BY <1>4 DEF KeepWalked
<1> QED
  BY <1>1, <1>3, <1>5 DEF KeepWalked, MatchDropped

\* The walk's invariant only speaks of what these steps leave alone.
LEMMA DropStays ==
    ASSUME DropInv, UNCHANGED <<vars, walk>>
    PROVE  DropInv'
<1>1. WeakPairs' = WeakPairs
  BY WeakSame
<1>2. /\ walked' = walked /\ at' = at /\ take' = take /\ matching' = matching
      /\ stage' = stage /\ candidates' = candidates
  BY DEF vars, walk
<1>3. WalkInv => WalkInv'
  BY <1>1, <1>2 DEF WalkInv
<1> QED
  BY <1>2, <1>3 DEF DropInv, Walking

LEMMA MatchKeepsDrop ==
    ASSUME IInv, DropInv, MatchOrReport
    PROVE  DropInv' /\ Next
<1>1. Next
  BY DEF MatchOrReport, Next
<1>2. ~Walking
  <2>1. group # NoGroup => stage = "logic"
    BY DEF IInv, StageShape
  <2> QED
    BY <2>1 DEF MatchOrReport, Walking, MatchById, MatchByRename, OpenGroup, PairLone, ScoreGroup,
               LeaveGroup, RoundBegins, AcceptByLogic, ScoreNames, AcceptByName, AcceptBest, Report
<1>3. CASE walked = {} /\ at = <<>> /\ take = TRUE /\ matching = {}
  <2>1. walked' = {} /\ at' = <<>> /\ take' = TRUE /\ matching' = {}
    BY <1>3 DEF MatchOrReport, walk
  <2> QED
    BY <1>1, <2>1 DEF DropInv
<1>4. CASE stage \in {"report", "done"}
  <2>1. group = NoGroup /\ candidates = {}
    BY <1>4 DEF IInv, StageShape
  <2>2. stage' \in {"report", "done"}
    BY <1>4, <2>1 DEF MatchOrReport, MatchById, MatchByRename, OpenGroup, PairLone, ScoreGroup,
       LeaveGroup, RoundBegins, AcceptByLogic, ScoreNames, AcceptByName, AcceptBest, Report
  <2> QED
    BY <1>1, <2>2 DEF DropInv
<1> QED
  BY <1>1, <1>2, <1>3, <1>4 DEF DropInv

LEMMA WalkKeepsDrop ==
    ASSUME DropInv, WalkDropped
    PROVE  DropInv' /\ UNCHANGED vars
<1>1. Walking /\ UNCHANGED vars /\ Weak!Next
  BY DEF WalkDropped
<1>2. WalkInv
  BY <1>1, FreshWalk DEF DropInv, Walking
<1>3. WalkInv'
  <2>1. CASE Weak!EndWalk
    BY <1>1, <1>2, <2>1, EndWalkKeeps
  <2>2. ASSUME NEW p \in WeakPairs, Weak!StartAtEnd(p) \/ Weak!StartOnCycle(p)
        PROVE  WalkInv'
    BY <1>1, <1>2, <2>2, StartKeeps
  <2>3. ASSUME NEW p \in WeakPairs, Weak!Walk(p)
        PROVE  WalkInv'
    BY <1>1, <1>2, <2>3, WalkOnKeeps
  <2> QED
    BY <1>1, <2>1, <2>2, <2>3 DEF Weak!Next, WeakPairs
<1>4. Walking'
  BY <1>1 DEF Walking, vars
<1> QED
  BY <1>1, <1>3, <1>4 DEF DropInv

\* Every step of the diff is a step of MatchStages, or none of it.
LEMMA DiffStep ==
    ASSUME InputsAssumption, OrderAssumption, IInv, DropInv, [DiffNext]_<<vars, walk, built, diff>>
    PROVE  IInv' /\ DropInv' /\ [Next]_vars
<1>1. DropInv' /\ [Next]_vars
  <2>1. CASE MatchOrReport
    BY <2>1, MatchKeepsDrop
  <2>2. CASE WalkDropped
    BY <2>2, WalkKeepsDrop
  <2>3. CASE KeepWalked
    <3>1. MatchDropped
      BY <2>3, KeepWalkedIsMatchDropped
    <3>2. DropInv'
      BY <2>3 DEF KeepWalked, DropInv
    <3> QED
      BY <3>1, <3>2 DEF Next
  <2>4. CASE DiffDocuments \/ Refuse \/ ComputeSlices \/ UNCHANGED <<vars, walk, built, diff>>
    <3>1. UNCHANGED <<vars, walk>>
      BY <2>4 DEF DiffDocuments, Refuse, ComputeSlices
    <3> QED
      BY <3>1, DropStays
  <2> QED
    BY <2>1, <2>2, <2>3, <2>4 DEF DiffNext
<1> QED
  BY <1>1, NextInv

\* The walk of the last stage takes its step: in whatever order it goes, the pairs it keeps are a
\* maximum set of those the keys identify, no two of which share a Symbol, and every other step of
\* the diff is a step of MatchStages or none of it (match/dropped-weak.ts, diff.ts).
THEOREM WalkKeepsTheStages == DiffSpec => MatchesInStages
<1>1. DiffInit => Init /\ IInv /\ DropInv
  BY InitInv DEF DiffInit, DropInv
<1>2. IInv /\ DropInv /\ [DiffNext]_<<vars, walk, built, diff>> => IInv' /\ DropInv' /\ [Next]_vars
  BY DiffStep, InputsAssumption, OrderAssumption
<1> QED
  BY <1>1, <1>2, PTL DEF Spec, MatchesInStages, DiffSpec

\* So what is proved of the stages holds of the diff: its Symbols each stand in one verdict, no two
\* of the base are compared under one id, an absence is reported only against a document that read
\* the file, and no pair is passed over that nothing better stood against.
THEOREM DiffKeepsTheStages ==
    DiffSpec => [](EachSymbolOnce /\ EndpointsStayApart /\ AbsenceIsEvidence /\ NothingPassedOver)
<1>1. DiffSpec => Spec
  BY WalkKeepsTheStages DEF MatchesInStages
<1> QED
  BY <1>1, EachSymbolOnceHolds, EndpointsStayApartHolds, AbsenceIsEvidenceHolds,
     NothingPassedOverHolds, PTL


-----------------------------------------------------------------------------
(* The census of the dependencies *)

LEMMA OtherSide == Other("base") = "head" /\ Other("head") = "base"
<1>1. "base" # "head"
  OBVIOUS
<1> QED
  BY <1>1 DEF Other, Sides

\* The entries of the report with a Symbol of either side are its pairs, but for those that did not
\* change.
LEMMA EntriesPaired ==
    ASSUME IInv, stage = "done"
    PROVE  /\ \A e \in PairedEntries : \E p \in pairs : e.before = {p.base} /\ e.after = {p.head}
           /\ \A p \in pairs : Id(p.base) # Id(p.head) =>
                  \E e \in PairedEntries : e.before = {p.base} /\ e.after = {p.head}
<1>1. entries = {e \in Verdicts : e.status \notin OnlyCounted}
  BY DEF IInv, Reported
<1>2. \A e \in PairedEntries : \E p \in pairs : e.before = {p.base} /\ e.after = {p.head}
  <2> SUFFICES ASSUME NEW e \in PairedEntries
               PROVE  \E p \in pairs : e.before = {p.base} /\ e.after = {p.head}
    OBVIOUS
  <2>1. e \in Verdicts /\ e.before # {} /\ e.after # {}
    BY <1>1 DEF PairedEntries
  <2> QED
    BY <2>1, VerdictCases
<1>3. ASSUME NEW p \in pairs, Id(p.base) # Id(p.head)
      PROVE  \E e \in PairedEntries : e.before = {p.base} /\ e.after = {p.head}
  <2>1. PICK st, e : st = Status(p.base, p.head) /\ e = Entry(st, {p.base}, {p.head}, {})
    OBVIOUS
  <2>2. e \in Verdicts
    BY <2>1 DEF Verdicts, PairEntries
  <2>3. e.status = st /\ e.before = {p.base} /\ e.after = {p.head}
    BY <2>1 DEF Entry
  <2>4. st \notin OnlyCounted
    BY <1>3, <2>1 DEF Status, OnlyCounted
  <2> QED
    BY <1>1, <2>2, <2>3, <2>4 DEF PairedEntries
<1> QED
  BY <1>2, <1>3

\* The head's id of a base's endpoint is the one that corresponds to it.
LEMMA HeadIdReads ==
    ASSUME InputsAssumption, OrderAssumption, IInv, stage = "done", NEW x
    PROVE  \A y : Corresponds(x, y) <=> y = HeadIdOf(x)
<1>1. PICK of : of = {e \in PairedEntries : \E b \in e.before : Id(b) = x}
  OBVIOUS
<1>2. HeadIdOf(x) = IF of = {} THEN x ELSE Id(Representative(Sole(of)))
  BY <1>1 DEF HeadIdOf
<1>3. CASE \E p \in pairs : Id(p.base) = x
  <2>1. PICK p \in pairs : Id(p.base) = x
    BY <1>3
  <2>2. ASSUME NEW q \in pairs, Id(q.base) = x
        PROVE  q = p
    <3>1. q.base \in input.base /\ p.base \in input.base
      BY DEF IInv, PairsTyped
    <3>2. q.base = p.base
      BY <2>1, <2>2, <3>1, InputFacts DEF IInv
    <3> QED
      BY <3>2 DEF IInv, OneToOne
  <2>3. \A y : Corresponds(x, y) <=> y = Id(p.head)
    BY <2>1, <2>2 DEF Corresponds
  <2>4. \A e \in of : e.after = {p.head}
    BY <1>1, <2>2, EntriesPaired
  <2>5. HeadIdOf(x) = Id(p.head)
    <3>1. CASE of = {}
      <4>1. Id(p.base) = Id(p.head)
        <5>1. SUFFICES ASSUME Id(p.base) # Id(p.head) PROVE FALSE
          OBVIOUS
        <5>2. PICK e \in PairedEntries : e.before = {p.base}
          BY <5>1, EntriesPaired
        <5> QED
          BY <1>1, <2>1, <3>1, <5>2
      <4> QED
        BY <1>2, <2>1, <3>1, <4>1
    <3>2. CASE of # {}
      <4>1. Sole(of) \in of
        BY <3>2 DEF Sole
      <4>2. PICK e \in of : e = Sole(of) /\ e.after = {p.head}
        BY <2>4, <4>1
      <4>3. Representative(e) = p.head
        BY <4>2 DEF Representative, Sole
      <4> QED
        BY <1>2, <3>2, <4>2, <4>3
    <3> QED
      BY <3>1, <3>2
  <2> QED
    BY <2>3, <2>5
<1>4. CASE ~\E p \in pairs : Id(p.base) = x
  <2>1. of = {}
    BY <1>1, <1>4, EntriesPaired
  <2>2. HeadIdOf(x) = x
    BY <1>2, <2>1
  <2>3. \A y : Corresponds(x, y) <=> x = y
    BY <1>4 DEF Corresponds
  <2> QED
    BY <2>2, <2>3
<1> QED
  BY <1>3, <1>4

\* An edge of the base, read in the head.
LEMMA EdgeReads ==
    ASSUME InputsAssumption, OrderAssumption, EdgesAssumption, IInv, stage = "done",
           NEW b \in input.edges.base
    PROVE  /\ EdgeKey(AsHead(b)) = <<HeadIdOf(b.from), HeadIdOf(b.to), b.via>>
           /\ \A h : SameEdge(b, h) <=> EdgeKey(AsHead(b)) = EdgeKey(h)
<1>1. b \in [from : Nat \X Nat, to : Nat \X Nat, via : STRING, direction : STRING]
  BY DEF IInv, EdgesAssumption, Sides
<1>2. /\ AsHead(b).from = HeadIdOf(b.from) /\ AsHead(b).to = HeadIdOf(b.to)
      /\ AsHead(b).via = b.via
  <2>1. PICK x, y : x = HeadIdOf(b.from) /\ y = HeadIdOf(b.to)
    OBVIOUS
  <2>2. AsHead(b) = [b EXCEPT !.from = x, !.to = y]
    BY <1>1, <2>1 DEF AsHead
  <2> QED
    BY <1>1, <2>1, <2>2
<1>3. EdgeKey(AsHead(b)) = <<HeadIdOf(b.from), HeadIdOf(b.to), b.via>>
  BY <1>2 DEF EdgeKey
<1>4. ASSUME NEW h
      PROVE  SameEdge(b, h) <=> EdgeKey(AsHead(b)) = EdgeKey(h)
  <2>1. Corresponds(b.from, h.from) <=> h.from = HeadIdOf(b.from)
    BY HeadIdReads
  <2>2. Corresponds(b.to, h.to) <=> h.to = HeadIdOf(b.to)
    BY HeadIdReads
  <2> QED
    BY <1>3, <2>1, <2>2 DEF SameEdge, EdgeKey
<1> QED
  BY <1>3, <1>4

\* No two ids of the base, of Symbols or of Components, are read as one.
LEMMA IdsStayApart ==
    ASSUME InputsAssumption, OrderAssumption, EdgesAssumption, IInv, stage = "done",
           NEW known, known = IdsOf("base") \cup {c.id : c \in input.components.base}
    PROVE  \A x, z \in known : HeadIdOf(x) = HeadIdOf(z) => x = z
<1> SUFFICES ASSUME NEW x \in known, NEW z \in known, HeadIdOf(x) = HeadIdOf(z)
             PROVE  x = z
  OBVIOUS
<1>1. PICK y : y = HeadIdOf(x) /\ y = HeadIdOf(z)
  OBVIOUS
<1>2. Corresponds(x, y) /\ Corresponds(z, y)
  BY <1>1, HeadIdReads
<1>3. \A s \in input.base \cup input.head : Id(s)[1] \in Files
  BY DEF IInv, InputsAssumption, Symbols, Id
<1>4. \A p \in pairs : p.base \in input.base /\ p.head \in input.head
  BY DEF IInv, PairsTyped
<1>5. ASSUME NEW i \in known
      PROVE  (\E b \in input.base : i = Id(b) /\ i[1] \in Files) \/ i[1] = 0
  <2>1. \A c \in input.components.base : c.id[1] = 0
    BY DEF IInv, EdgesAssumption, Sides
  <2> QED
    BY <1>3, <1>5, <2>1 DEF IdsOf, SymbolsOf
<1>6. 0 \notin Files
  BY DEF EdgesAssumption
<1>7. CASE (\E p \in pairs : Id(p.base) = x) /\ (\E q \in pairs : Id(q.base) = z)
  <2>1. PICK p \in pairs : Id(p.base) = x /\ Id(p.head) = y
    BY <1>2, <1>7 DEF Corresponds
  <2>2. PICK q \in pairs : Id(q.base) = z /\ Id(q.head) = y
    BY <1>2, <1>7 DEF Corresponds
  <2>3. p.head = q.head
    BY <1>4, <2>1, <2>2, InputFacts DEF IInv
  <2> QED
    BY <2>1, <2>2, <2>3 DEF IInv, OneToOne
<1>8. ASSUME NEW u \in known, NEW v \in known, Corresponds(u, y), Corresponds(v, y),
             \E p \in pairs : Id(p.base) = u, ~\E q \in pairs : Id(q.base) = v
      PROVE  FALSE
  <2>1. PICK p \in pairs : Id(p.base) = u /\ Id(p.head) = y
    BY <1>8 DEF Corresponds
  <2>2. y = v
    BY <1>8 DEF Corresponds
  <2>3. v[1] \in Files
    BY <1>3, <1>4, <2>1, <2>2
  <2>4. PICK b \in input.base : v = Id(b)
    BY <1>5, <1>6, <2>3
  <2>5. \E q \in pairs : q.base = b
    BY <1>4, <2>1, <2>2, <2>4 DEF IInv, SameIdsPaired
  <2> QED
    BY <1>8, <2>4, <2>5
<1>9. CASE (~\E p \in pairs : Id(p.base) = x) /\ (~\E q \in pairs : Id(q.base) = z)
  BY <1>2, <1>9 DEF Corresponds
<1> QED
  BY <1>2, <1>7, <1>8, <1>9

\* So a document is refused only over an edge with an end that is none of them.
LEMMA RefusedOverNoSymbol ==
    ASSUME InputsAssumption, OrderAssumption, EdgesAssumption, IInv, stage = "done", Collides
    PROVE  \E e \in input.edges.base : \E id \in {e.from, e.to} :
               id \notin IdsOf("base") \cup {c.id : c \in input.components.base}
<1>1. PICK known : known = IdsOf("base") \cup {c.id : c \in input.components.base}
  OBVIOUS
<1>2. SUFFICES ASSUME \A e \in input.edges.base : e.from \in known /\ e.to \in known
               PROVE  FALSE
  BY <1>1
<1>3. PICK e \in input.edges.base, f \in input.edges.base :
          e # f /\ EdgeKey(AsHead(e)) = EdgeKey(AsHead(f))
  BY DEF Collides
<1>4. HeadIdOf(e.from) = HeadIdOf(f.from) /\ HeadIdOf(e.to) = HeadIdOf(f.to) /\ e.via = f.via
  BY <1>3, EdgeReads
<1>5. \A x, z \in known : HeadIdOf(x) = HeadIdOf(z) => x = z
  BY <1>1, IdsStayApart
<1>6. e.from = f.from /\ e.to = f.to
  BY <1>2, <1>4, <1>5
<1>7. EdgeKey(e) = EdgeKey(f)
  BY <1>4, <1>6 DEF EdgeKey
<1> QED
  BY <1>3, <1>7 DEF IInv, EdgesAssumption, Sides

\* A file is lost on a side if that side skipped it under one of the names git says it has there.
LEMMA LostReads ==
    ASSUME NEW file, NEW absent \in Sides
    PROVE  LostCounterpart(absent, file) = {} <=> ~Unread(file, absent)
<1>1. PICK lost : lost = NamesOn(absent, file) \cap LostOf(absent)
  OBVIOUS
<1>2. LostCounterpart(absent, file) = {} <=> lost = {}
  <2>1. \/ lost = {} /\ LostCounterpart(absent, file) = {}
        \/ file \in lost /\ LostCounterpart(absent, file) = {file}
        \/ lost # {} /\ LostCounterpart(absent, file) = {Min(lost)}
    BY <1>1 DEF LostCounterpart
  <2> QED
    BY <2>1
<1>3. NamesOn(absent, file) = {file} \cup
          (IF absent = "head" THEN {r[2] : r \in {q \in input.renames : q[1] = file}}
           ELSE {r[1] : r \in {q \in input.renames : q[2] = file}})
  BY DEF NamesOn, NamesInBase, NamesInHead, Sides
<1>4. lost # {} <=> Unread(file, absent)
  BY <1>1, <1>3 DEF Unread
<1> QED
  BY <1>2, <1>4

\* An edge's ends are lost where the property says so.
LEMMA EndpointsRead ==
    ASSUME NEW e, NEW absent \in Sides
    PROVE  EndpointsLost(e, absent) = {} <=> ~Lost(e, absent)
<1>1. PICK S : S = {t \in SymbolsOf(Other(absent)) : Id(t) \in {e.from, e.to}}
  OBVIOUS
<1>2. \A f : f \in EndpointsLost(e, absent) <=>
          \/ \E s \in S : f \in LostCounterpart(absent, s.file)
          \/ f \in ComponentLost(absent, e.from)
  BY <1>1 DEF EndpointsLost
<1>3. \A s \in S : LostCounterpart(absent, s.file) = {} <=> ~Unread(s.file, absent)
  BY LostReads
<1>4. ComponentLost(absent, e.from) = {} <=> \A f \in LostOf(absent) : e.from \notin Owners(absent, f)
  BY DEF ComponentLost
<1>5. Lost(e, absent) <=> \/ \E s \in S : Unread(s.file, absent)
                          \/ \E f \in LostOf(absent) : e.from \in Owners(absent, f)
  BY <1>1 DEF Lost
<1> QED
  BY <1>2, <1>3, <1>4, <1>5

\* What diffDependencies calls an edge the base has, and one the head has.
Flipped == {p \in KeptEdges : p[1].direction # p[2].direction}
Gone == input.edges.base \ {p[1] : p \in KeptEdges}
Newly == input.edges.head \ {p[2] : p \in KeptEdges}
NotKnown(e, absent) == [dependency |-> e, absentFrom |-> absent, lostFiles |-> EndpointsLost(e, absent)]

Unknowns(S, T) == {NotKnown(d, "base") : d \in S} \cup {NotKnown(d, "head") : d \in T}
OfEdge(D, e, absent) == {u \in D : u.dependency = e /\ u.absentFrom = absent}

LEMMA DependencyParts ==
    /\ DependencyDiff.added = {e \in Newly : EndpointsLost(e, "base") = {}} \cup {p[2] : p \in Flipped}
    /\ DependencyDiff.removed = {e \in Gone : EndpointsLost(e, "head") = {}} \cup {p[1] : p \in Flipped}
    /\ DependencyDiff.unknown
           = Unknowns({d \in Newly : EndpointsLost(d, "base") # {}},
                      {d \in Gone : EndpointsLost(d, "head") # {}})
BY DEF DependencyDiff, Flipped, Gone, Newly, NotKnown, Unknowns

LEMMA SetOfOne ==
    ASSUME NEW S, \A x, y \in S : x = y
    PROVE  Cardinality(S) <= 1
<1>1. CASE S = {}
  BY <1>1, FS_EmptySet
<1>2. CASE S # {}
  <2>1. PICK x \in S : S = {x}
    BY <1>2
  <2>2. Cardinality({x}) = 1
    BY FS_Singleton
  <2> QED
    BY <2>1, <2>2
<1> QED
  BY <1>1, <1>2

\* The unknowns of one edge, missing on one side.
LEMMA UnknownOnce ==
    ASSUME NEW S, NEW T, NEW e
    PROVE  /\ Cardinality(OfEdge(Unknowns(S, T), e, "base")) <= 1
           /\ Cardinality(OfEdge(Unknowns(S, T), e, "head")) <= 1
           /\ OfEdge(Unknowns(S, T), e, "base") # {} <=> e \in S
           /\ OfEdge(Unknowns(S, T), e, "head") # {} <=> e \in T
<1>1. \A d, a : NotKnown(d, a).dependency = d /\ NotKnown(d, a).absentFrom = a
  BY DEF NotKnown
<1>2. PICK U, V : U = OfEdge(Unknowns(S, T), e, "base") /\ V = OfEdge(Unknowns(S, T), e, "head")
  OBVIOUS
<1>3. \A u \in U : u = NotKnown(e, "base") /\ e \in S
  BY <1>1, <1>2 DEF OfEdge, Unknowns
<1>4. \A u \in V : u = NotKnown(e, "head") /\ e \in T
  BY <1>1, <1>2 DEF OfEdge, Unknowns
<1>5. (e \in S => NotKnown(e, "base") \in U) /\ (e \in T => NotKnown(e, "head") \in V)
  BY <1>1, <1>2 DEF OfEdge, Unknowns
<1>6. Cardinality(U) <= 1
  BY <1>3, SetOfOne
<1>7. Cardinality(V) <= 1
  BY <1>4, SetOfOne
<1> QED
  BY <1>2, <1>3, <1>4, <1>5, <1>6, <1>7

\* Each base edge is kept, flipped, removed or unknown, as the property says.
LEMMA BaseEdgeAccounted ==
    ASSUME InputsAssumption, OrderAssumption, EdgesAssumption, IInv, stage = "done",
           diff.dependencies = DependencyDiff, NEW e \in input.edges.base
    PROVE  EdgeCounted(e, "head", {f \in input.edges.head : SameEdge(e, f)},
                       diff.dependencies.removed)
<1>0. PICK same, unknown : /\ same = {f \in input.edges.head : SameEdge(e, f)}
                           /\ unknown = OfEdge(diff.dependencies.unknown, e, "head")
  OBVIOUS
<1>1. \A f \in input.edges.head : f \in same <=> <<e, f>> \in KeptEdges
  BY <1>0, EdgeReads DEF KeptEdges
<1>2. Cardinality(same) <= 1
  <2>1. \A f, g \in same : EdgeKey(f) = EdgeKey(g)
    BY <1>0, EdgeReads
  <2>2. \A f, g \in same : f = g
    BY <1>0, <2>1 DEF IInv, EdgesAssumption, Sides
  <2> QED
    BY <2>2, SetOfOne
<1>3. KeptEdges \subseteq input.edges.base \X input.edges.head
  BY DEF KeptEdges
<1>4. e \in Gone <=> same = {}
  <2>1. ASSUME NEW p \in KeptEdges, e = p[1]
        PROVE  same # {}
    <3>1. p = <<p[1], p[2]>> /\ p[1] \in input.edges.base /\ p[2] \in input.edges.head
      BY <1>3
    <3> QED
      BY <1>1, <2>1, <3>1
  <2>2. ASSUME NEW f \in same
        PROVE  \E p \in KeptEdges : e = p[1]
    <3>1. <<e, f>> \in KeptEdges /\ <<e, f>>[1] = e
      BY <1>0, <1>1, <2>2
    <3> QED
      BY <3>1
  <2> QED
    BY <2>1, <2>2 DEF Gone
<1>5. e \in {p[1] : p \in Flipped} <=> \E f \in same : f.direction # e.direction
  <2>1. ASSUME NEW p \in Flipped, e = p[1]
        PROVE  \E f \in same : f.direction # e.direction
    BY <1>0, <1>1, <1>3, <2>1 DEF Flipped
  <2>2. ASSUME NEW f \in same, f.direction # e.direction
        PROVE  \E p \in Flipped : e = p[1]
    <3>1. <<e, f>> \in Flipped
      BY <1>0, <1>1, <2>2 DEF Flipped
    <3> QED
      BY <3>1
  <2> QED
    BY <2>1, <2>2
<1>6. EndpointsLost(e, "head") = {} <=> ~Lost(e, "head")
  BY EndpointsRead DEF Sides
<1>7. e \in DependencyDiff.removed
          <=> (e \in Gone /\ ~Lost(e, "head")) \/ e \in {p[1] : p \in Flipped}
  BY <1>6, DependencyParts
<1>8. /\ Cardinality(unknown) <= 1
      /\ unknown # {} <=> e \in {d \in Gone : EndpointsLost(d, "head") # {}}
  <2>1. PICK S, T : /\ S = {d \in Newly : EndpointsLost(d, "base") # {}}
                    /\ T = {d \in Gone : EndpointsLost(d, "head") # {}}
    OBVIOUS
  <2>2. unknown = OfEdge(Unknowns(S, T), e, "head")
    BY <1>0, <2>1, DependencyParts
  <2>3. /\ Cardinality(OfEdge(Unknowns(S, T), e, "head")) <= 1
        /\ OfEdge(Unknowns(S, T), e, "head") # {} <=> e \in T
    BY UnknownOnce
  <2> QED
    BY <2>1, <2>2, <2>3
<1> QED
  BY <1>0, <1>2, <1>4, <1>5, <1>6, <1>7, <1>8 DEF EdgeCounted, OfEdge

\* And each head edge is kept, flipped, added or unknown: no two base edges are read as it.
LEMMA HeadEdgeAccounted ==
    ASSUME InputsAssumption, OrderAssumption, EdgesAssumption, IInv, stage = "done", ~Collides,
           diff.dependencies = DependencyDiff, NEW e \in input.edges.head
    PROVE  EdgeCounted(e, "base", {f \in input.edges.base : SameEdge(f, e)},
                       diff.dependencies.added)
<1>0. PICK same, unknown : /\ same = {f \in input.edges.base : SameEdge(f, e)}
                           /\ unknown = OfEdge(diff.dependencies.unknown, e, "base")
  OBVIOUS
<1>1. \A f \in input.edges.base : f \in same <=> <<f, e>> \in KeptEdges
  BY <1>0, EdgeReads DEF KeptEdges
<1>2. Cardinality(same) <= 1
  <2>1. \A f, g \in same : EdgeKey(AsHead(f)) = EdgeKey(AsHead(g))
    BY <1>0, EdgeReads
  <2>2. \A f, g \in same : f = g
    BY <1>0, <2>1 DEF Collides
  <2> QED
    BY <2>2, SetOfOne
<1>3. KeptEdges \subseteq input.edges.base \X input.edges.head
  BY DEF KeptEdges
<1>4. e \in Newly <=> same = {}
  <2>1. ASSUME NEW p \in KeptEdges, e = p[2]
        PROVE  same # {}
    <3>1. p = <<p[1], p[2]>> /\ p[1] \in input.edges.base /\ p[2] \in input.edges.head
      BY <1>3
    <3> QED
      BY <1>1, <2>1, <3>1
  <2>2. ASSUME NEW f \in same
        PROVE  \E p \in KeptEdges : e = p[2]
    <3>1. <<f, e>> \in KeptEdges /\ <<f, e>>[2] = e
      BY <1>0, <1>1, <2>2
    <3> QED
      BY <3>1
  <2> QED
    BY <2>1, <2>2 DEF Newly
<1>5. e \in {p[2] : p \in Flipped} <=> \E f \in same : f.direction # e.direction
  <2>1. ASSUME NEW p \in Flipped, e = p[2]
        PROVE  \E f \in same : f.direction # e.direction
    BY <1>0, <1>1, <1>3, <2>1 DEF Flipped
  <2>2. ASSUME NEW f \in same, f.direction # e.direction
        PROVE  \E p \in Flipped : e = p[2]
    <3>1. <<f, e>> \in Flipped
      BY <1>0, <1>1, <2>2 DEF Flipped
    <3> QED
      BY <3>1
  <2> QED
    BY <2>1, <2>2
<1>6. EndpointsLost(e, "base") = {} <=> ~Lost(e, "base")
  BY EndpointsRead DEF Sides
<1>7. e \in DependencyDiff.added
          <=> (e \in Newly /\ ~Lost(e, "base")) \/ e \in {p[2] : p \in Flipped}
  BY <1>6, DependencyParts
<1>8. /\ Cardinality(unknown) <= 1
      /\ unknown # {} <=> e \in {d \in Newly : EndpointsLost(d, "base") # {}}
  <2>1. PICK S, T : /\ S = {d \in Newly : EndpointsLost(d, "base") # {}}
                    /\ T = {d \in Gone : EndpointsLost(d, "head") # {}}
    OBVIOUS
  <2>2. unknown = OfEdge(Unknowns(S, T), e, "base")
    BY <1>0, <2>1, DependencyParts
  <2>3. /\ Cardinality(OfEdge(Unknowns(S, T), e, "base")) <= 1
        /\ OfEdge(Unknowns(S, T), e, "base") # {} <=> e \in S
    BY UnknownOnce
  <2> QED
    BY <2>1, <2>2, <2>3
<1> QED
  BY <1>0, <1>2, <1>4, <1>5, <1>6, <1>7, <1>8 DEF EdgeCounted, OfEdge

\* How far the diff is, and what it then says of the dependencies.
BuildInv ==
    /\ built \in Progress
    /\ built # "matching" => stage = "done"
    /\ built = "refused" => Collides
    /\ Built("diffed") =>
          /\ ~Collides /\ diff.dependencies = DependencyDiff /\ diff.summary = Summary
          /\ diff.deltas = [e \in Changed |-> SymbolDelta(e)]
    /\ DOMAIN diff = DOMAIN Undiffed

LEMMA DependenciesStay ==
    ASSUME UNCHANGED vars
    PROVE  /\ Collides' = Collides /\ DependencyDiff' = DependencyDiff /\ Summary' = Summary
           /\ [e \in Changed |-> SymbolDelta(e)]' = [e \in Changed |-> SymbolDelta(e)]
<1>1. Collides' = Collides /\ DependencyDiff' = DependencyDiff
  BY DEF vars, Collides, DependencyDiff, KeptEdges, AsHead, EdgeKey, HeadIdOf, PairedEntries,
         Representative, EndpointsLost, LostCounterpart, ComponentLost, NamesOn, NamesInBase,
         NamesInHead, LostOf, SymbolsOf, Owners
<1>2. Summary' = Summary
  BY DEF vars, Summary, Count, OfStatus
<1>3. Changed' = Changed
  BY DEF vars, Changed, OfStatus
<1>4. \A e : SymbolDelta(e)' = SymbolDelta(e)
  BY DEF vars, SymbolDelta, Facts
<1> QED
  BY <1>1, <1>2, <1>3, <1>4

\* The matching is over once the diff is under way.
LEMMA MatchingBefore ==
    ASSUME IInv, BuildInv, MatchOrReport \/ KeepWalked \/ WalkDropped
    PROVE  built = "matching"
<1>1. group # NoGroup => stage = "logic"
  BY DEF IInv, StageShape
<1>2. candidates # {} => stage \in {"logic", "name"}
  BY DEF IInv, StageShape
<1>3. stage # "done"
  BY <1>1, <1>2 DEF KeepWalked, WalkDropped, Walking, MatchOrReport, MatchById, MatchByRename,
     OpenGroup, PairLone, ScoreGroup, LeaveGroup, RoundBegins, AcceptByLogic, ScoreNames,
     AcceptByName, AcceptBest, Report
<1> QED
  BY <1>3 DEF BuildInv

LEMMA BuildKept ==
    ASSUME IInv, BuildInv, [DiffNext]_<<vars, walk, built, diff>>
    PROVE  BuildInv'
<1>1. CASE MatchOrReport \/ KeepWalked
  <2>1. built = "matching" /\ DOMAIN diff = DOMAIN Undiffed
    BY <1>1, MatchingBefore DEF BuildInv
  <2>2. built' = built /\ diff' = diff
    BY <1>1 DEF MatchOrReport, KeepWalked
  <2> QED
    BY <2>1, <2>2 DEF BuildInv, Built, Progress
<1>2. CASE WalkDropped \/ UNCHANGED <<vars, walk, built, diff>>
  <2>1. UNCHANGED <<vars, built, diff>>
    BY <1>2 DEF WalkDropped
  <2>2. /\ Collides' = Collides /\ DependencyDiff' = DependencyDiff /\ Summary' = Summary
        /\ [e \in Changed |-> SymbolDelta(e)]' = [e \in Changed |-> SymbolDelta(e)]
        /\ stage' = stage
    BY <2>1, DependenciesStay DEF vars
  <2> QED
    BY <2>1, <2>2 DEF BuildInv, Built
<1>3. CASE DiffDocuments \/ Refuse \/ ComputeSlices
  <2>1. UNCHANGED vars
    BY <1>3 DEF DiffDocuments, Refuse, ComputeSlices
  <2>2. /\ Collides' = Collides /\ DependencyDiff' = DependencyDiff /\ Summary' = Summary
        /\ [e \in Changed |-> SymbolDelta(e)]' = [e \in Changed |-> SymbolDelta(e)]
        /\ stage' = stage
    BY <2>1, DependenciesStay DEF vars
  <2>3. DOMAIN diff = {"deltas", "components", "dependencies", "summary", "slices"}
    BY DEF BuildInv, Undiffed
  <2>4. CASE DiffDocuments
    <3>1. PICK x, y, z, w : diff' = [diff EXCEPT !.deltas = x, !.components = y, !.dependencies = z,
                                                 !.summary = w]
                            /\ x = [e \in Changed |-> SymbolDelta(e)]
                            /\ z = DependencyDiff /\ w = Summary
      BY <2>4 DEF DiffDocuments
    <3>2. /\ diff'.deltas = x /\ diff'.dependencies = z /\ diff'.summary = w
          /\ DOMAIN diff' = DOMAIN diff
      BY <2>3, <3>1
    <3>3. built' = "diffed" /\ stage = "done" /\ ~Collides
      BY <2>4 DEF DiffDocuments
    <3> QED
      BY <2>2, <3>1, <3>2, <3>3 DEF BuildInv, Undiffed, Progress
  <2>5. CASE Refuse
    BY <2>2, <2>5 DEF Refuse, BuildInv, Built, Progress
  <2>6. CASE ComputeSlices
    <3>1. PICK x : diff' = [diff EXCEPT !.slices = x]
      BY <2>6 DEF ComputeSlices
    <3>2. /\ diff'.deltas = diff.deltas /\ diff'.dependencies = diff.dependencies
          /\ diff'.summary = diff.summary /\ DOMAIN diff' = DOMAIN diff
      BY <2>3, <3>1
    <3>3. built = "diffed" /\ built' = "sliced"
      BY <2>6 DEF ComputeSlices
    <3>4. Built("diffed")
      BY <3>3 DEF Built, Progress
    <3> QED
      BY <2>2, <3>2, <3>3, <3>4 DEF BuildInv, Progress
  <2> QED
    BY <1>3, <2>4, <2>5, <2>6
<1> QED
  BY <1>1, <1>2, <1>3 DEF DiffNext

LEMMA EdgesFollow ==
    ASSUME InputsAssumption, OrderAssumption, EdgesAssumption, IInv, BuildInv, EndpointsStayApart
    PROVE  EdgesAccounted
<1>1. built = "refused" =>
          \E e \in input.edges.base : \E id \in {e.from, e.to} :
              id \notin IdsOf("base") \cup {c.id : c \in input.components.base}
  BY RefusedOverNoSymbol DEF BuildInv
<1>2. ASSUME Built("diffed")
      PROVE  stage = "done" /\ ~Collides /\ diff.dependencies = DependencyDiff
  BY <1>2 DEF BuildInv, Built, Progress
<1> QED
  BY <1>1, <1>2, BaseEdgeAccounted, HeadEdgeAccounted DEF EdgesAccounted

\* The census of the dependencies: each edge of either document is kept, flipped, removed or added,
\* or unknown, once, against a document that read the files its ends are in, and documents are
\* refused only over an edge with an end that is no Symbol and no Component (diff/src/components.ts).
THEOREM EdgesAccountedHolds == DiffSpec => []EdgesAccounted
<1>1. DiffInit => IInv /\ DropInv /\ BuildInv
  BY InitInv DEF DiffInit, DropInv, BuildInv, Built, Progress
<1>2. IInv /\ DropInv /\ BuildInv /\ [DiffNext]_<<vars, walk, built, diff>>
          => IInv' /\ DropInv' /\ BuildInv'
  BY DiffStep, BuildKept, InputsAssumption, OrderAssumption
<1>3. IInv /\ BuildInv /\ EndpointsStayApart => EdgesAccounted
  BY EdgesFollow, InputsAssumption, OrderAssumption, EdgesAssumption
<1>4. DiffSpec => []EndpointsStayApart
  BY DiffKeepsTheStages, PTL
<1> QED
  BY <1>1, <1>2, <1>3, <1>4, PTL DEF DiffSpec


-----------------------------------------------------------------------------
(* The report and the gates *)

\* What an entry of the report can be: which Symbol stands for it, and what it is called.
LEMMA EntryShape ==
    ASSUME IInv, stage = "done"
    PROVE  \A e \in entries :
               /\ \/ Representative(e) \in input.head /\ Representative(e) \in e.after
                  \/ Representative(e) \in RemainingBase /\ Representative(e) \in e.before
               /\ e.status \in Statuses
               /\ e.duplicateOf # {} => e.status = "removed"
<1> SUFFICES ASSUME NEW e \in entries
             PROVE  /\ \/ Representative(e) \in input.head /\ Representative(e) \in e.after
                       \/ Representative(e) \in RemainingBase /\ Representative(e) \in e.before
                    /\ e.status \in Statuses
                    /\ e.duplicateOf # {} => e.status = "removed"
  OBVIOUS
<1>1. e \in Verdicts /\ e.status \notin OnlyCounted
  BY DEF IInv, Reported
<1>2. \A x : Sole({x}) = x
  BY DEF Sole
<1>3. CASE \E p \in pairs : e = Entry(Status(p.base, p.head), {p.base}, {p.head}, {})
  <2>1. PICK p \in pairs : e = Entry(Status(p.base, p.head), {p.base}, {p.head}, {})
    BY <1>3
  <2>2. e.status = Status(p.base, p.head) /\ e.after = {p.head} /\ e.duplicateOf = {}
    BY <2>1 DEF Entry
  <2>3. e.status \in Statuses \cup {"unchanged"}
    BY <2>2 DEF Status, Statuses
  <2>4. p.head \in input.head
    BY DEF IInv, PairsTyped
  <2>5. Representative(e) = p.head
    BY <1>2, <2>2 DEF Representative
  <2> QED
    BY <1>1, <2>2, <2>3, <2>4, <2>5 DEF OnlyCounted
<1>4. CASE \E h \in RemainingHead : e = LeftoverHead(h)
  <2>1. PICK h \in RemainingHead : e = LeftoverHead(h)
    BY <1>4
  <2>2. \/ e = Entry("dropped-added", {}, {h}, {})
        \/ e = Entry("unknown", {}, {h}, {})
        \/ e = Entry("added", {}, {h}, {})
    BY <2>1 DEF LeftoverHead
  <2>3. e.status \in {"dropped-added", "unknown", "added"} /\ e.after = {h} /\ e.duplicateOf = {}
    BY <2>2 DEF Entry
  <2>4. Representative(e) = h
    BY <1>2, <2>3 DEF Representative
  <2> QED
    BY <1>1, <2>3, <2>4 DEF OnlyCounted, RemainingHead, Statuses
<1>5. CASE \E b \in RemainingBase : e = LeftoverBase(b)
  <2>1. PICK b \in RemainingBase : e = LeftoverBase(b)
    BY <1>5
  <2>2. PICK D : D = {Id(h) : h \in Survivor(b)}
    OBVIOUS
  <2>3. \/ e = Entry("dropped-removed", {b}, {}, {})
        \/ e = Entry("unknown", {b}, {}, {})
        \/ e = Entry("removed", {b}, {}, D)
    BY <2>1, <2>2 DEF LeftoverBase
  <2>4. /\ e.status \in {"dropped-removed", "unknown", "removed"}
        /\ e.before = {b} /\ e.after = {}
        /\ e.duplicateOf # {} => e.status = "removed"
    BY <2>3 DEF Entry
  <2>5. Representative(e) = b
    BY <1>2, <2>4 DEF Representative
  <2> QED
    BY <1>1, <2>4, <2>5 DEF OnlyCounted, Statuses
<1> QED
  BY <1>1, <1>3, <1>4, <1>5 DEF Verdicts, PairEntries

\* No two entries go by one id: Symbols of one id are a pair, and a Symbol is in one entry.
LEMMA OneEntryPerId ==
    ASSUME InputsAssumption, OrderAssumption, IInv, stage = "done"
    PROVE  \A e, f \in entries : Id(Representative(e)) = Id(Representative(f)) => e = f
<1> SUFFICES ASSUME NEW e \in entries, NEW f \in entries,
                    Id(Representative(e)) = Id(Representative(f))
             PROVE  e = f
  OBVIOUS
<1>1. e \in Verdicts /\ f \in Verdicts
  BY ReportHolds
<1>2. \A b, c \in input.base : Id(b) = Id(c) => b = c
  BY InputFacts DEF IInv
<1>3. \A h, k \in input.head : Id(h) = Id(k) => h = k
  BY InputFacts DEF IInv
<1>4. RemainingBase \subseteq input.base
  BY DEF RemainingBase
<1>5. \A b \in RemainingBase, h \in input.head : Id(b) # Id(h)
  BY <1>4 DEF IInv, SameIdsPaired, RemainingBase
<1>6. CASE Representative(e) \in input.head /\ Representative(e) \in e.after
  <2>1. Representative(f) \in input.head /\ Representative(f) \in f.after
    BY <1>5, <1>6, EntryShape
  <2>2. Representative(f) = Representative(e)
    BY <1>3, <1>6, <2>1
  <2> QED
    BY <1>1, <1>6, <2>1, <2>2, OneVerdict
<1>7. CASE Representative(e) \in RemainingBase /\ Representative(e) \in e.before
  <2>1. Representative(f) \in RemainingBase /\ Representative(f) \in f.before
    BY <1>5, <1>7, EntryShape
  <2>2. Representative(f) = Representative(e)
    BY <1>2, <1>4, <1>7, <2>1
  <2> QED
    BY <1>1, <1>4, <1>7, <2>1, <2>2, OneVerdict
<1> QED
  BY <1>6, <1>7, EntryShape

\* An image under an operator no two elements of the set share has as many elements as the set.
LEMMA ImageAsMany ==
    ASSUME NEW S, IsFiniteSet(S), NEW f, DOMAIN f = S, f = [x \in S |-> f[x]],
           \A x, y \in S : f[x] = f[y] => x = y
    PROVE  Cardinality({f[x] : x \in S}) = Cardinality(S)
<1>1. f \in Surjection(S, {f[x] : x \in S})
  BY DEF Surjection
<1>2. f \in Injection(S, {f[x] : x \in S})
  BY DEF Injection, IsInjective
<1> QED
  BY <1>1, <1>2, FS_Surjection

\* A report has finitely many entries.
LEMMA EntriesFinite ==
    ASSUME InputsAssumption, OrderAssumption, IInv, stage = "done"
    PROVE  IsFiniteSet(entries)
<1>1. PICK T : T = input.base \cup input.head
  OBVIOUS
<1>2. IsFiniteSet(T)
  BY <1>1, FS_Union DEF IInv, InputsAssumption
<1>3. PICK f : f = [e \in entries |-> Representative(e)]
  OBVIOUS
<1>4. \A e \in entries : Representative(e) \in T
  BY <1>1, EntryShape DEF RemainingBase
<1>5. f \in [entries -> T]
  BY <1>3, <1>4
<1>6. \A d, e \in entries : f[d] = f[e] => d = e
  BY <1>3, OneEntryPerId
<1>7. f \in Injection(entries, T)
  BY <1>5, <1>6 DEF Injection, IsInjective
<1> QED
  BY <1>2, <1>7, FS_Injection

\* The sections of the report that list a change, and the groups of the fold that would.
Axes == {"api", "logic", "confidence", "syntax"}
ByStatus(e) ==
    CASE e.status = "moved+changed" -> {"movedChanged"}
      [] e.status = "changed" -> {}
      [] e.status = "dropped-toggled" -> {"dropped"}
      [] OTHER -> {e.status}
ListedAs(e) == IF e \in Changed THEN {AxisOf(e)} \cup ByStatus(e) ELSE ByStatus(e)
FoldedAs(e) == IF e.status = "changed" THEN {AxisOf(e)} ELSE ByStatus(e)

PartNames ==
    {"api", "logic", "confidence", "syntax", "added", "removed", "unknown", "movedChanged", "moved",
     "dropped"}

\* Two Symbols whose content differs, and of which none is dropped, differ on one of the axes.
LEMMA ContentHasAxis ==
    ASSUME NEW b, NEW h, b.dropped = h.dropped, Content(b) # Content(h)
    PROVE  Api(b) # Api(h) \/ b.logic # h.logic \/ b.confidence # h.confidence \/ b.syntax # h.syntax
<1>1. ~b.dropped \/ ~h.dropped
  BY DEF Content
<1>2. CASE ~b.dropped
  BY <1>2 DEF Content, Api
<1>3. CASE ~h.dropped
  BY <1>3 DEF Content, Api
<1> QED
  BY <1>1, <1>2, <1>3

\* What a delta says of the axes.
LEMMA DeltaTells ==
    ASSUME NEW e, NEW b, NEW h, e.before = {b}, e.after = {h}
    PROVE  /\ SymbolDelta(e).apiChanged = (Api(b) # Api(h))
           /\ SymbolDelta(e).logicChanged = (b.logic # h.logic)
           /\ SymbolDelta(e).confidenceChanged = (b.confidence # h.confidence)
           /\ SymbolDelta(e).syntaxChanged = (b.syntax # h.syntax)
<1>1. \A x : Sole({x}) = x
  BY DEF Sole
<1>2. PICK moved, f, g :
          /\ moved = [api |-> Api(b) # Api(h), logic |-> b.logic # h.logic,
                      syntax |-> b.syntax # h.syntax, confidence |-> b.confidence # h.confidence]
          /\ f = Facts("base", b) /\ g = Facts("head", h)
  OBVIOUS
<1>3. SymbolDelta(e) = FieldDelta(f, g, moved)
  BY <1>1, <1>2 DEF SymbolDelta
<1> QED
  BY <1>2, <1>3 DEF FieldDelta

\* A change of content is on one of the axes, so routeChanged lists it.
LEMMA OneAxis ==
    ASSUME IInv, stage = "done", diff.deltas = [d \in Changed |-> SymbolDelta(d)],
           NEW e \in Changed
    PROVE  AxisOf(e) \in Axes
<1>1. e \in Verdicts /\ e.status \in {"changed", "moved+changed"}
  BY DEF IInv, Reported, Changed, OfStatus
<1>2. PICK p \in pairs : e = Entry(Status(p.base, p.head), {p.base}, {p.head}, {})
  <2>1. \A h \in RemainingHead : e # LeftoverHead(h)
    BY <1>1 DEF LeftoverHead, Entry
  <2>2. \A b \in RemainingBase : e # LeftoverBase(b)
    BY <1>1 DEF LeftoverBase, Entry
  <2> QED
    BY <1>1, <2>1, <2>2 DEF Verdicts, PairEntries
<1>3. e.before = {p.base} /\ e.after = {p.head} /\ e.status = Status(p.base, p.head)
  BY <1>2 DEF Entry
<1>4. p.base.dropped = p.head.dropped /\ Content(p.base) # Content(p.head)
  BY <1>1, <1>3 DEF Status
<1>5. diff.deltas[e] = SymbolDelta(e)
  OBVIOUS
<1>6. \/ Api(p.base) # Api(p.head) \/ p.base.logic # p.head.logic
      \/ p.base.confidence # p.head.confidence \/ p.base.syntax # p.head.syntax
  BY <1>4, ContentHasAxis
<1>7. /\ SymbolDelta(e).apiChanged = (Api(p.base) # Api(p.head))
      /\ SymbolDelta(e).logicChanged = (p.base.logic # p.head.logic)
      /\ SymbolDelta(e).confidenceChanged = (p.base.confidence # p.head.confidence)
      /\ SymbolDelta(e).syntaxChanged = (p.base.syntax # p.head.syntax)
  BY <1>3, DeltaTells
<1>8. \/ SymbolDelta(e).apiChanged \/ SymbolDelta(e).logicChanged
      \/ SymbolDelta(e).confidenceChanged \/ SymbolDelta(e).syntaxChanged
  BY <1>6, <1>7
<1> QED
  BY <1>5, <1>8 DEF AxisOf, Axes

\* Two distinct values make a set of two.
LEMMA TwoOfThem ==
    ASSUME NEW x, NEW y, x # y
    PROVE  Cardinality({x, y}) = 2
<1>1. {x, y} = {x} \cup {y}
  OBVIOUS
<1>2. IsFiniteSet({x}) /\ Cardinality({x}) = 1
  BY FS_Singleton
<1>3. y \notin {x}
  OBVIOUS
<1>4. Cardinality({x} \cup {y}) = Cardinality({x}) + 1
  BY <1>2, <1>3, FS_AddElement
<1>5. Cardinality({x} \cup {y}) = 2
  BY <1>2, <1>4
<1> QED
  BY <1>1, <1>5, Zenon

\* How many sections and groups that is.
LEMMA ListedAsMany ==
    ASSUME NEW e \in entries, e.status \in Statuses, e \in Changed => AxisOf(e) \in Axes
    PROVE  /\ ListedAs(e) \subseteq PartNames /\ ListedAs(e) # {}
           /\ FoldedAs(e) \subseteq PartNames /\ FoldedAs(e) # {}
           /\ Cardinality(ListedAs(e)) = IF e.status = "moved+changed" THEN 2 ELSE 1
           /\ Cardinality(FoldedAs(e)) = 1
<1>1. e \in Changed <=> e.status \in {"changed", "moved+changed"}
  BY DEF Changed, OfStatus
<1>2. PICK a : a = AxisOf(e) /\ (e \in Changed => a \in Axes)
  OBVIOUS
<1>3. \A x : Cardinality({x}) = 1
  BY FS_Singleton
<1>4. CASE e.status = "moved+changed"
  <2>1. ListedAs(e) = {a, "movedChanged"} /\ FoldedAs(e) = {"movedChanged"}
    BY <1>1, <1>2, <1>4 DEF ListedAs, FoldedAs, ByStatus
  <2>2. a # "movedChanged"
    BY <1>1, <1>2, <1>4 DEF Axes
  <2>3. Cardinality({a, "movedChanged"}) = 2
    BY <2>2, TwoOfThem
  <2> QED
    BY <1>1, <1>2, <1>3, <1>4, <2>1, <2>3 DEF Axes, PartNames
<1>5. CASE e.status = "changed"
  <2>1. ListedAs(e) = {a} /\ FoldedAs(e) = {a}
    BY <1>1, <1>2, <1>5 DEF ListedAs, FoldedAs, ByStatus
  <2> QED
    BY <1>1, <1>2, <1>3, <1>5, <2>1 DEF Axes, PartNames
<1>6. CASE e.status \in {"added", "removed", "moved", "unknown", "dropped-toggled"}
  <2>1. PICK x \in PartNames : ListedAs(e) = {x} /\ FoldedAs(e) = {x}
    BY <1>1, <1>6 DEF ListedAs, FoldedAs, ByStatus, PartNames
  <2> QED
    BY <1>3, <1>6, <2>1
<1> QED
  BY <1>4, <1>5, <1>6 DEF Statuses

\* Which changes a part lists.
LEMMA PartLists ==
    ASSUME NEW E, E \subseteq entries, \A e \in entries : e.status \in Statuses,
           \A e \in Changed : AxisOf(e) \in Axes
    PROVE  /\ DOMAIN Partition(E) = PartNames
           /\ \A e \in entries, n \in PartNames :
                  e \in Partition(E)[n] <=> e \in E /\ n \in ListedAs(e)
           /\ \A n \in PartNames : Partition(E)[n] \subseteq E
<1>1. DOMAIN Partition(E) = PartNames
  BY DEF Partition, PartNames
<1>2. \A S, x : Having(S, x) = {d \in S : d.status = x}
  BY DEF Having
<1>3. \A a : OnAxis(E, a) = {d \in E : d \in Changed /\ AxisOf(d) = a}
  BY DEF OnAxis
<1>4. \A n \in PartNames : Partition(E)[n] \subseteq E
  BY <1>2, <1>3 DEF Partition, PartNames
<1>5. ASSUME NEW e \in entries, NEW n \in PartNames
      PROVE  e \in Partition(E)[n] <=> e \in E /\ n \in ListedAs(e)
  <2>1. e \in Changed <=> e.status \in {"changed", "moved+changed"}
    BY DEF Changed, OfStatus
  <2>2. e \in Changed => AxisOf(e) \in Axes
    OBVIOUS
  <2>3. ASSUME n \in Axes
        PROVE  e \in Partition(E)[n] <=> e \in E /\ n \in ListedAs(e)
    <3>1. Partition(E)[n] = OnAxis(E, n)
      BY <2>3 DEF Partition, Axes
    <3>2. n \notin ByStatus(e)
      BY <2>3 DEF ByStatus, Axes, Statuses
    <3> QED
      BY <1>3, <3>1, <3>2 DEF ListedAs
  <2>4. ASSUME n \notin Axes
        PROVE  e \in Partition(E)[n] <=> e \in E /\ n \in ListedAs(e)
    <3>1. PICK st \in Statuses : /\ Partition(E)[n] = Having(E, st)
                                 /\ st # "changed"
                                 /\ n \in ByStatus(e) <=> e.status = st
      <4>1. CASE n = "movedChanged"
        BY <4>1 DEF Partition, ByStatus, Statuses
      <4>2. CASE n = "dropped"
        BY <4>2 DEF Partition, ByStatus, Statuses
      <4>3. CASE n \in {"added", "removed", "unknown", "moved"}
        <5>1. Partition(E)[n] = Having(E, n)
          BY <4>3 DEF Partition
        <5> QED
          BY <4>3, <5>1 DEF ByStatus, Statuses
      <4> QED
        BY <2>4, <4>1, <4>2, <4>3 DEF Axes, PartNames
    <3>2. n \in ListedAs(e) <=> n \in ByStatus(e)
      BY <2>2, <2>4 DEF ListedAs
    <3> QED
      BY <1>2, <3>1, <3>2
  <2> QED
    BY <2>3, <2>4
<1> QED
  BY <1>1, <1>4, <1>5

LEMMA FoldLists ==
    ASSUME \A e \in entries : e.status \in Statuses, \A e \in Changed : AxisOf(e) \in Axes
    PROVE  /\ DOMAIN FoldGroups = PartNames
           /\ \A e \in entries, n \in PartNames :
                  e \in FoldGroups[n] <=> e \in TestChanges /\ n \in FoldedAs(e)
           /\ \A n \in PartNames : FoldGroups[n] \subseteq TestChanges
<1>1. PICK B : B = Partition(TestChanges)
  OBVIOUS
<1>2. TestChanges \subseteq entries
  BY DEF TestChanges
<1>3. DOMAIN B = PartNames
  BY <1>1, <1>2, PartLists
<1>4. DOMAIN FoldGroups = PartNames
  BY <1>1, <1>3 DEF FoldGroups
<1>5. \A n \in PartNames :
          FoldGroups[n] = IF n \in Axes THEN Stayed(B[n]) ELSE B[n]
  BY <1>1, <1>3 DEF FoldGroups, PartNames, Axes
<1>6. \A S : Stayed(S) = {e \in S : e.status = "changed"}
  BY DEF Stayed, Having
<1>7. \A e \in entries, n \in PartNames : e \in B[n] <=> e \in TestChanges /\ n \in ListedAs(e)
  BY <1>1, <1>2, PartLists
<1>8. \A n \in PartNames : B[n] \subseteq TestChanges
  BY <1>1, <1>2, PartLists
<1>9. \A e \in entries, n \in PartNames :
          n \in FoldedAs(e) <=> n \in ListedAs(e) /\ (n \in Axes => e.status = "changed")
  <2> SUFFICES ASSUME NEW e \in entries, NEW n \in PartNames
               PROVE  n \in FoldedAs(e) <=> n \in ListedAs(e) /\ (n \in Axes => e.status = "changed")
    OBVIOUS
  <2>1. e \in Changed <=> e.status \in {"changed", "moved+changed"}
    BY DEF Changed, OfStatus
  <2>2. e \in Changed => AxisOf(e) \in Axes
    OBVIOUS
  <2>3. n \in ByStatus(e) => n \notin Axes
    BY DEF ByStatus, Axes, Statuses
  <2>4. e.status = "changed" => ByStatus(e) = {}
    BY DEF ByStatus
  <2> QED
    BY <2>1, <2>2, <2>3, <2>4 DEF FoldedAs, ListedAs
<1> QED
  BY <1>4, <1>5, <1>6, <1>7, <1>8, <1>9

\* What the gate of one scope or the other counts.
Counted(token, E) == {Id(Representative(e)) : e \in {d \in E : Counts(token, d)}}

LEMMA CountedReads ==
    /\ \A token : CountedIds(token, "all") = Counted(token, entries)
    /\ \A token : CountedIds(token, "non-test") = Counted(token, entries \ TestChanges)
<1>1. \A d : InScope("all", d) /\ (InScope("non-test", d) <=> ~InTestFile(d))
  BY DEF InScope
<1>2. \A d \in entries : d \in TestChanges <=> InTestFile(d)
  BY DEF TestChanges
<1>3. ASSUME NEW token
      PROVE  CountedIds(token, "all") = Counted(token, entries)
  <2>1. {d \in entries : InScope("all", d) /\ Counts(token, d)} = {d \in entries : Counts(token, d)}
    BY <1>1
  <2> QED
    BY <2>1 DEF CountedIds, Counted
<1>4. ASSUME NEW token
      PROVE  CountedIds(token, "non-test") = Counted(token, entries \ TestChanges)
  <2>1. {d \in entries : InScope("non-test", d) /\ Counts(token, d)}
            = {d \in entries \ TestChanges : Counts(token, d)}
    BY <1>1, <1>2
  <2> QED
    BY <2>1 DEF CountedIds, Counted
<1> QED
  BY <1>3, <1>4

\* What the gate outside test files passes over is what the fold lists.
LEMMA PassedOverIsFolded ==
    ASSUME InputsAssumption, OrderAssumption, IInv, stage = "done", NEW token
    PROVE  CountedIds(token, "all") \ CountedIds(token, "non-test") = Counted(token, TestChanges)
<1>1. TestChanges \subseteq entries
  BY DEF TestChanges
<1>2. \A e, f \in entries : Id(Representative(e)) = Id(Representative(f)) => e = f
  BY OneEntryPerId
<1>3. PICK f : f = [e \in entries |-> Id(Representative(e))]
  OBVIOUS
<1>4. \A e, d \in entries : f[e] = f[d] => e = d
  BY <1>2, <1>3
<1>5. \A E : E \subseteq entries => Counted(token, E) = {f[e] : e \in {d \in E : Counts(token, d)}}
  BY <1>3 DEF Counted
<1>6. PICK C : C = {d \in entries : Counts(token, d)}
  OBVIOUS
<1>7. \A E : E \subseteq entries => Counted(token, E) = {f[e] : e \in E \cap C}
  <2> SUFFICES ASSUME NEW E, E \subseteq entries
               PROVE  Counted(token, E) = {f[e] : e \in E \cap C}
    OBVIOUS
  <2>1. {d \in E : Counts(token, d)} = E \cap C
    BY <1>6
  <2> QED
    BY <1>5, <2>1
<1>8. {f[e] : e \in entries \cap C} \ {f[e] : e \in (entries \ TestChanges) \cap C}
          = {f[e] : e \in TestChanges \cap C}
  BY <1>1, <1>4
<1> QED
  BY <1>1, <1>7, <1>8, CountedReads

\* The summary counts what the gate counts.
LEMMA SummaryCounts ==
    ASSUME InputsAssumption, OrderAssumption, IInv, stage = "done", diff.summary = Summary,
           NEW status \in Statuses \cup {"removed:duplicate"}
    PROVE  ObservedCount(status) = Cardinality(CountedIds(status, "all"))
<1>1. PICK C : C = {d \in entries : Counts(status, d)}
  OBVIOUS
<1>2. IsFiniteSet(entries) /\ IsFiniteSet(C)
  BY <1>1, EntriesFinite, FS_Subset
<1>3. Cardinality(CountedIds(status, "all")) = Cardinality(C)
  <2>1. PICK f : f = [e \in C |-> Id(Representative(e))]
    OBVIOUS
  <2>2. \A d, e \in C : f[d] = f[e] => d = e
    BY <1>1, <2>1, OneEntryPerId
  <2>3. Cardinality({f[e] : e \in C}) = Cardinality(C)
    BY <1>2, <2>1, <2>2, ImageAsMany
  <2>4. {f[e] : e \in C} = {Id(Representative(e)) : e \in C}
    BY <2>1
  <2>5. CountedIds(status, "all") = {Id(Representative(e)) : e \in C}
    BY <1>1, CountedReads DEF Counted
  <2> QED
    BY <2>3, <2>4, <2>5
<1>4. PICK R, D : R = {e \in entries : e.status = "removed"} /\ D = {e \in entries : e.duplicateOf # {}}
  OBVIOUS
<1>5. D \subseteq R /\ IsFiniteSet(R) /\ IsFiniteSet(D)
  BY <1>2, <1>4, EntryShape, FS_Subset
<1>6. ToSet(StatusOrder) = Statuses
  BY DEF ToSet, StatusOrder, Statuses
<1>7. diff.summary = [st \in Statuses \cup {"duplicates"} |->
                         IF st = "duplicates" THEN Cardinality(D) ELSE Count(st)]
  BY <1>4, <1>6 DEF Summary
<1>8. \A st \in Statuses : diff.summary[st] = Cardinality({e \in entries : e.status = st})
  <2>1. \A st : Count(st) = Cardinality({e \in entries : e.status = st})
    <3>1. \A st : OfStatus({st}) = {e \in entries : e.status = st}
      BY DEF OfStatus
    <3> QED
      BY <3>1 DEF Count
  <2>2. "duplicates" \notin Statuses
    BY DEF Statuses
  <2> QED
    BY <1>7, <2>1, <2>2
<1>9. diff.summary.duplicates = Cardinality(D)
  BY <1>7
<1>10. CASE status = "removed:duplicate"
  <2>1. C = D
    BY <1>1, <1>4, <1>10, EntryShape DEF Counts
  <2> QED
    BY <1>3, <1>9, <1>10, <2>1 DEF ObservedCount
<1>11. CASE status = "removed"
  <2>1. C = R \ D
    BY <1>1, <1>4, <1>11 DEF Counts
  <2>2. R \cap D = D
    BY <1>5
  <2>3. Cardinality(R \ D) = Cardinality(R) - Cardinality(D)
    BY <1>5, <2>2, FS_Difference
  <2>4. ObservedCount(status) = diff.summary.removed - diff.summary.duplicates
    BY <1>11 DEF ObservedCount
  <2>5. diff.summary.removed = Cardinality(R)
    BY <1>4, <1>8 DEF Statuses
  <2> QED
    BY <1>3, <1>9, <2>1, <2>3, <2>4, <2>5
<1>12. CASE status \in Statuses \ {"removed"}
  <2>1. C = {e \in entries : e.status = status}
    BY <1>1, <1>12 DEF Counts, Statuses
  <2>2. ObservedCount(status) = diff.summary[status]
    BY <1>12 DEF ObservedCount, Statuses
  <2> QED
    BY <1>3, <1>8, <1>12, <2>1, <2>2
<1> QED
  BY <1>10, <1>11, <1>12

\* What the report is of: the entries as they stand, which nothing changes once the diff is built.
PageInv ==
    Projected => /\ stage = "done"
                 /\ diff.summary = Summary
                 /\ diff.deltas = [e \in Changed |-> SymbolDelta(e)]
                 /\ page.listed = Partition(entries \ TestChanges)
                 /\ page.fold = FoldGroups

LEMMA ListedFollows ==
    ASSUME InputsAssumption, OrderAssumption, IInv, PageInv
    PROVE  ListedAndGated
<1> SUFFICES ASSUME Projected
             PROVE  /\ \A e \in entries :
                           /\ Cardinality(SectionsListing(e)) =
                                  IF InTestFile(e) THEN 0 ELSE IF e.status = "moved+changed" THEN 2 ELSE 1
                           /\ Cardinality(GroupsListing(e)) = IF InTestFile(e) THEN 1 ELSE 0
                    /\ \A token \in Tokens :
                           /\ CountedIds(token, "non-test") =
                                  Counted(token, UNION {page.listed[n] : n \in DOMAIN page.listed})
                           /\ CountedIds(token, "all") \ CountedIds(token, "non-test") =
                                  Counted(token, UNION {page.fold[n] : n \in DOMAIN page.fold})
                    /\ \A status \in (Statuses \cup {"removed:duplicate"}) :
                           ObservedCount(status) = Cardinality(CountedIds(status, "all"))
  BY DEF ListedAndGated, Counted
<1>1. /\ stage = "done" /\ diff.summary = Summary
      /\ page.listed = Partition(entries \ TestChanges) /\ page.fold = FoldGroups
  BY DEF PageInv
<1>2. (\A e \in entries : e.status \in Statuses) /\ (\A e \in Changed : AxisOf(e) \in Axes)
  BY <1>1, EntryShape, OneAxis DEF PageInv
<1>3. /\ DOMAIN page.listed = PartNames
      /\ \A e \in entries, n \in PartNames :
             e \in page.listed[n] <=> e \in entries \ TestChanges /\ n \in ListedAs(e)
      /\ \A n \in PartNames : page.listed[n] \subseteq entries \ TestChanges
  <2>1. entries \ TestChanges \subseteq entries
    OBVIOUS
  <2> QED
    BY <1>1, <1>2, <2>1, PartLists
<1>4. /\ DOMAIN page.fold = PartNames
      /\ \A e \in entries, n \in PartNames :
             e \in page.fold[n] <=> e \in TestChanges /\ n \in FoldedAs(e)
      /\ \A n \in PartNames : page.fold[n] \subseteq TestChanges
  BY <1>1, <1>2, FoldLists
<1>5. TestChanges = {e \in entries : InTestFile(e)}
  BY DEF TestChanges
<1>6. UNION {page.listed[n] : n \in DOMAIN page.listed} = entries \ TestChanges
  <2>1. \A e \in entries \ TestChanges : \E n \in PartNames : e \in page.listed[n]
    BY <1>2, <1>3, ListedAsMany
  <2> QED
    BY <1>3, <2>1
<1>7. UNION {page.fold[n] : n \in DOMAIN page.fold} = TestChanges
  <2>1. \A e \in TestChanges : \E n \in PartNames : e \in page.fold[n]
    BY <1>2, <1>4, <1>5, ListedAsMany
  <2> QED
    BY <1>4, <2>1
<1>8. Cardinality({}) = 0
  BY FS_EmptySet
<1>9. ASSUME NEW e \in entries
      PROVE  /\ Cardinality(SectionsListing(e)) =
                    IF InTestFile(e) THEN 0 ELSE IF e.status = "moved+changed" THEN 2 ELSE 1
             /\ Cardinality(GroupsListing(e)) = IF InTestFile(e) THEN 1 ELSE 0
  <2>1. SectionsListing(e) = IF InTestFile(e) THEN {} ELSE ListedAs(e)
    BY <1>2, <1>3, <1>5, ListedAsMany DEF SectionsListing
  <2>2. GroupsListing(e) = IF InTestFile(e) THEN FoldedAs(e) ELSE {}
    BY <1>2, <1>4, <1>5, ListedAsMany DEF GroupsListing
  <2>3. /\ Cardinality(ListedAs(e)) = IF e.status = "moved+changed" THEN 2 ELSE 1
        /\ Cardinality(FoldedAs(e)) = 1
    BY <1>2, ListedAsMany
  <2>4. CASE InTestFile(e)
    BY <1>8, <2>1, <2>2, <2>3, <2>4
  <2>5. CASE ~InTestFile(e)
    BY <1>8, <2>1, <2>2, <2>3, <2>5
  <2> QED
    BY <2>4, <2>5
<1>10. ASSUME NEW token \in Tokens
       PROVE  /\ CountedIds(token, "non-test") =
                     Counted(token, UNION {page.listed[n] : n \in DOMAIN page.listed})
              /\ CountedIds(token, "all") \ CountedIds(token, "non-test") =
                     Counted(token, UNION {page.fold[n] : n \in DOMAIN page.fold})
  BY <1>1, <1>6, <1>7, CountedReads, PassedOverIsFolded
<1> QED
  BY <1>1, <1>9, <1>10, SummaryCounts

LEMMA ProjectKeeps ==
    ASSUME IInv, DropInv, BuildInv, ProjectDiff
    PROVE  IInv' /\ DropInv' /\ BuildInv' /\ PageInv'
<1>1. UNCHANGED vars /\ UNCHANGED walk /\ diff' = diff /\ built = "sliced" /\ built' = "projected"
  BY DEF ProjectDiff
<1>2. IInv' /\ DropInv'
  BY <1>1, StutterInv, DropStays
<1>3. /\ Collides' = Collides /\ DependencyDiff' = DependencyDiff /\ Summary' = Summary
      /\ [e \in Changed |-> SymbolDelta(e)]' = [e \in Changed |-> SymbolDelta(e)]
      /\ stage' = stage
  BY <1>1, DependenciesStay DEF vars
<1>4. /\ stage = "done" /\ ~Collides /\ diff.dependencies = DependencyDiff /\ diff.summary = Summary
      /\ diff.deltas = [e \in Changed |-> SymbolDelta(e)]
  BY <1>1 DEF BuildInv, Built, Progress
<1>5. BuildInv'
  BY <1>1, <1>3, <1>4 DEF BuildInv, Progress
<1>6. page'.listed = Partition(entries \ TestChanges) /\ page'.fold = FoldGroups
  <2>1. PICK l, f, d, k, v, w, a :
            /\ page' = [listed |-> l, fold |-> f, foldEdges |-> d, edges |-> k, slices |-> v,
                        whole |-> w, forms |-> a]
            /\ l = Partition(entries \ TestChanges) /\ f = FoldGroups
    BY DEF ProjectDiff
  <2> QED
    BY <2>1
<1>7. TestChanges' = TestChanges /\ entries' = entries
  BY <1>1 DEF vars, TestChanges, InTestFile, Representative
<1>8. FoldGroups' = FoldGroups
  BY <1>1, <1>7 DEF vars, FoldGroups, Partition, OnAxis, AxisOf, Changed, OfStatus, Having, Stayed
<1>9. Partition(entries \ TestChanges)' = Partition(entries \ TestChanges)
  BY <1>1, <1>7 DEF vars, Partition, OnAxis, AxisOf, Changed, OfStatus, Having
<1> QED
  BY <1>1, <1>2, <1>3, <1>4, <1>5, <1>6, <1>8, <1>9 DEF PageInv, Projected

LEMMA DiffKeepsPage ==
    ASSUME IInv, BuildInv, PageInv, [DiffNext]_diffVars, UNCHANGED page
    PROVE  PageInv'
<1>1. CASE DiffNext
  <2>1. ~Projected'
    <3>1. CASE MatchOrReport \/ KeepWalked \/ WalkDropped
      <4>1. built' = built
        BY <3>1 DEF MatchOrReport, KeepWalked, WalkDropped
      <4> QED
        BY <3>1, <4>1, MatchingBefore DEF Projected
    <3>2. CASE DiffDocuments \/ Refuse \/ ComputeSlices
      BY <3>2 DEF DiffDocuments, Refuse, ComputeSlices, Projected
    <3> QED
      BY <1>1, <3>1, <3>2 DEF DiffNext
  <2> QED
    BY <2>1 DEF PageInv
<1>2. CASE UNCHANGED diffVars
  <2>1. UNCHANGED vars /\ diff' = diff /\ built' = built /\ stage' = stage /\ entries' = entries
    BY <1>2 DEF diffVars, vars
  <2>2. /\ Summary' = Summary
        /\ [e \in Changed |-> SymbolDelta(e)]' = [e \in Changed |-> SymbolDelta(e)]
    BY <2>1, DependenciesStay
  <2>3. TestChanges' = TestChanges
    BY <2>1 DEF vars, TestChanges, InTestFile, Representative
  <2>4. FoldGroups' = FoldGroups
    BY <2>1, <2>3 DEF vars, FoldGroups, Partition, OnAxis, AxisOf, Changed, OfStatus, Having, Stayed
  <2>5. Partition(entries \ TestChanges)' = Partition(entries \ TestChanges)
    BY <2>1, <2>3 DEF vars, Partition, OnAxis, AxisOf, Changed, OfStatus, Having
  <2> QED
    BY <2>1, <2>2, <2>4, <2>5 DEF PageInv, Projected
<1> QED
  BY <1>1, <1>2

\* A step of the report is a step of the diff, or leaves what the diff is made of alone.
LEMMA ReportStep ==
    ASSUME InputsAssumption, OrderAssumption, IInv, DropInv, BuildInv, PageInv,
           [ReportNext]_reportVars
    PROVE  IInv' /\ DropInv' /\ BuildInv' /\ PageInv' /\ [Next]_vars
<1>1. CASE ProjectDiff
  BY <1>1, ProjectKeeps DEF ProjectDiff
<1>2. CASE (DiffNext /\ UNCHANGED page) \/ UNCHANGED reportVars
  <2>1. [DiffNext]_diffVars /\ UNCHANGED page
    BY <1>2 DEF reportVars
  <2>2. [DiffNext]_<<vars, walk, built, diff>>
    BY <2>1 DEF diffVars
  <2> QED
    BY <2>1, <2>2, DiffStep, BuildKept, DiffKeepsPage
<1> QED
  BY <1>1, <1>2 DEF ReportNext

\* The report keeps what is proved of the diff: its matching is that of the stages, with their
\* verdicts, and its dependencies are accounted for (diff.ts, projectDiff).
THEOREM ReportKeepsTheDiff ==
    ReportSpec =>
        /\ MatchesInStages
        /\ [](EachSymbolOnce /\ EndpointsStayApart /\ AbsenceIsEvidence /\ NothingPassedOver)
        /\ []EdgesAccounted
<1>1. ReportInit => Init /\ IInv /\ DropInv /\ BuildInv /\ PageInv
  BY InitInv DEF ReportInit, DiffInit, DropInv, BuildInv, Built, Progress, PageInv, Projected
<1>2. IInv /\ DropInv /\ BuildInv /\ PageInv /\ [ReportNext]_reportVars
          => IInv' /\ DropInv' /\ BuildInv' /\ PageInv' /\ [Next]_vars
  BY ReportStep, InputsAssumption, OrderAssumption
<1>3. ReportSpec => Spec /\ []IInv /\ []BuildInv
  BY <1>1, <1>2, PTL DEF ReportSpec, Spec
<1>4. IInv /\ BuildInv /\ EndpointsStayApart => EdgesAccounted
  BY EdgesFollow, InputsAssumption, OrderAssumption, EdgesAssumption
<1> QED
  BY <1>3, <1>4, EachSymbolOnceHolds, EndpointsStayApartHolds, AbsenceIsEvidenceHolds,
     NothingPassedOverHolds, PTL DEF MatchesInStages

\* The report and the gates are of one mind, for all documents and whatever files are tests: each
\* change is listed once above the fold or in it, a changed Symbol under the first of the axes it
\* moved on, of which it has one, but that a moved Symbol that also changed is listed above it as
\* both; what the gate outside test files counts is listed above the fold and what it passes over in
\* it, and the summary counts as the gate does (partition.ts, test-files.ts, fail-on.ts of cli and of
\* markdown-projection).
THEOREM ListedAndGatedHolds == ReportSpec => []ListedAndGated
<1>1. ReportInit => IInv /\ DropInv /\ BuildInv /\ PageInv
  BY InitInv DEF ReportInit, DiffInit, DropInv, BuildInv, Built, Progress, PageInv, Projected
<1>2. IInv /\ DropInv /\ BuildInv /\ PageInv /\ [ReportNext]_reportVars
          => IInv' /\ DropInv' /\ BuildInv' /\ PageInv'
  BY ReportStep, InputsAssumption, OrderAssumption
<1>3. IInv /\ PageInv => ListedAndGated
  BY ListedFollows, InputsAssumption, OrderAssumption
<1> QED
  BY <1>1, <1>2, <1>3, PTL DEF ReportSpec
===============================================================================
