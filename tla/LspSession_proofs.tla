-------------------------- MODULE LspSession_proofs --------------------------
(***************************************************************************)
(* Proofs about LspSession, for any number of languages, any set of        *)
(* configured ones and any grace period: what became of each language's    *)
(* server once the loop has left the language. The inductive invariant     *)
(* follows a language through its three stations: not reached yet, started *)
(* but not asked to stop, and from the call of shutdown() on.              *)
(***************************************************************************)
EXTENDS LspSession, WellFoundedInduction, TLAPS

\* Nothing has been done for l.
Fresh(l) ==
    /\ process[l] = "none" /\ down[l] = "none" /\ sent[l] = 0
    /\ l \notin disposed /\ l \notin disabled

\* The loop is at l and has not called its shutdown yet.
Starting(l) == l = lang /\ phase \in {"initialize", "files"}

\* Before the call of shutdown() nothing is sent, and only the loop's own server is up.
BeforeShutdown(l) ==
    down[l] = "none" =>
      /\ sent[l] = 0 /\ process[l] # "killed"
      /\ process[l] = "running" => Starting(l)

\* From the call on, a server that has not exited was sent the request, unless the call found its
\* connection closed; and a shutdown that returned has seen its process end or be killed.
FromShutdown(l) ==
    /\ down[l] \notin {"none", "rejected"} => sent[l] = 1 \/ process[l] = "exited"
    /\ down[l] = "rejected" => l \in closed /\ sent[l] = 0 /\ process[l] # "killed"
    /\ down[l] = "returned" => process[l] \in {"exited", "killed"}

\* A step of a shutdown lasts a grace period at most.
Elapsed(l) ==
    /\ down[l] \in {"none", "request", "rejected"} => elapsed[l] = 0
    /\ down[l] = "exit" => elapsed[l] <= Grace
    /\ down[l] = "wait" => elapsed[l] <= 2 * Grace
    /\ down[l] = "reap" => elapsed[l] <= 3 * Grace

Followed(l) ==
    /\ l > lang \/ (l = lang /\ phase = "spawn") => Fresh(l)
    /\ Starting(l) => down[l] = "none" /\ l \notin disabled
    /\ l = lang /\ phase = "shutdown" => down[l] # "none"
    /\ BeforeShutdown(l) /\ FromShutdown(l) /\ Elapsed(l)
    /\ l \in disposed => process[l] \in {"exited", "killed"}
    /\ sent[l] \in {0, 1}
    /\ gaveUp[l] = (IF l \in disabled THEN 1 ELSE 0)
    /\ Left(l) /\ process[l] = "running" => l \in stranded

SessionInv ==
    /\ TypeOK
    /\ phase \in {"done", "ended"} <=> lang = Languages + 1
    /\ \A l \in Langs : Followed(l)

-----------------------------------------------------------------------------
\* A set of naturals that is not empty has a least member.
LEMMA LeastMember ==
    ASSUME NEW R, R \subseteq Nat, R # {}
    PROVE  \E r \in R : \A q \in R : r <= q
<1>1. PICK r \in R : \A q \in R : ~ (<<q, r>> \in OpToRel(<, Nat))
  BY NatLessThanWellFounded, WFMin
<1>2. \A q \in R : ~ (q < r)
  BY <1>1, Zenon DEF OpToRel
<1> QED
  BY <1>2

\* Among the languages from l on, and the end of the loop, there is a first one configured.
LEMMA FirstFromIsNext ==
    ASSUME NEW l \in 1..Languages + 1
    PROVE  FirstFrom(l) \in Configured \cup {Languages + 1} /\ FirstFrom(l) >= l
<1> USE LanguagesAssumption, ConfiguredAssumption
<1>1. PICK R : R = {m \in l..Languages + 1 : m \in Configured \cup {Languages + 1}}
  OBVIOUS
<1>2. R \subseteq Nat /\ Languages + 1 \in R
  BY <1>1
<1>3. PICK m \in R : \A k \in R : m <= k
  BY <1>2, LeastMember
<1>4. \A k \in l..m - 1 : k \notin Configured
  BY <1>1, <1>2, <1>3 DEF Langs
<1>5. \E n \in l..Languages + 1 :
        /\ n \in Configured \cup {Languages + 1}
        /\ \A k \in l..n - 1 : k \notin Configured
  BY <1>1, <1>3, <1>4
<1> QED
  BY <1>5 DEF FirstFrom

\* Where the loop can stand, as a number.
LEMMA LangsAreNumbers == Langs \subseteq Nat
BY LanguagesAssumption DEF Langs

LEMMA Places ==
    ASSUME NEW l \in Configured \cup {Languages + 1}
    PROVE  l \in Nat /\ l \in 1..Languages + 1 /\ (l # Languages + 1 => l \in Langs)
<1>1. CASE l \in Configured
  BY <1>1, ConfiguredAssumption, LanguagesAssumption DEF Langs
<1>2. CASE l = Languages + 1
  BY <1>2, LanguagesAssumption
<1> QED
  BY <1>1, <1>2

-----------------------------------------------------------------------------
LEMMA InitSession == Init => SessionInv
<1> USE LanguagesAssumption, ConfiguredAssumption, GraceAssumption
<1> SUFFICES ASSUME Init PROVE SessionInv
  OBVIOUS
<1>1. lang \in Configured \cup {Languages + 1}
  BY FirstFromIsNext DEF Init
<1>2. TypeOK
  BY <1>1 DEF Init, TypeOK, Phases, DownSteps
<1>3. phase \in {"done", "ended"} <=> lang = Languages + 1
  BY <1>1 DEF Init, Langs
<1>4. \A l \in Langs : Followed(l)
  BY <1>1 DEF Init, Langs, Followed, Fresh, Starting, BeforeShutdown, FromShutdown, Elapsed, Left
<1> QED
  BY <1>2, <1>3, <1>4 DEF SessionInv

\* The loop's moves to the next language leave a language behind whose server is accounted for.
LEMMA AdvanceMoves ==
    ASSUME SessionInv, lang \in Langs, Advance
    PROVE  /\ lang' \in Configured \cup {Languages + 1} /\ lang' \in Nat /\ lang' > lang
           /\ phase' = IF lang' \in Langs THEN "spawn" ELSE "done"
<1>1. lang + 1 \in 1..Languages + 1 /\ lang \in Nat
  BY LanguagesAssumption DEF Langs
<1>2. FirstFrom(lang + 1) \in Configured \cup {Languages + 1} /\ FirstFrom(lang + 1) >= lang + 1
  BY <1>1, FirstFromIsNext
<1>3. lang' = FirstFrom(lang + 1)
  BY DEF Advance
<1>4. lang' \in Nat
  BY <1>2, <1>3, Places
<1>5. lang' > lang
  BY <1>1, <1>2, <1>3, <1>4
<1> QED
  BY <1>2, <1>3, <1>4, <1>5 DEF Advance

-----------------------------------------------------------------------------
(* The steps of the loop *)

LEMMA SpawnFailsKeeps ==
    ASSUME SessionInv, SpawnFails
    PROVE  SessionInv'
<1> USE LanguagesAssumption, ConfiguredAssumption, GraceAssumption
<1>0. lang \in Langs /\ Langs \subseteq Nat /\ TypeOK /\ \A l \in Langs : Followed(l)
  BY Places, LangsAreNumbers DEF SessionInv, SpawnFails, TypeOK
<1>1. lang' \in Configured \cup {Languages + 1} /\ lang' \in Nat /\ lang' > lang
      /\ phase' = IF lang' \in Langs THEN "spawn" ELSE "done"
  BY <1>0, AdvanceMoves DEF SpawnFails
<1>2. TypeOK'
  BY <1>0, <1>1 DEF SpawnFails, DisableLanguage, TypeOK, Phases
<1>3. (phase \in {"done", "ended"} <=> lang = Languages + 1)'
  BY <1>1 DEF Langs
<1>4. \A l \in Langs : Followed(l)'
  BY <1>0, <1>1 DEF SpawnFails, DisableLanguage, TypeOK, Followed, Fresh, Starting,
                    BeforeShutdown, FromShutdown, Elapsed, Left
<1> QED
  BY <1>2, <1>3, <1>4 DEF SessionInv

LEMMA SpawnKeeps ==
    ASSUME SessionInv, Spawn
    PROVE  SessionInv'
<1> USE LanguagesAssumption, ConfiguredAssumption, GraceAssumption
<1>0. lang \in Langs /\ Langs \subseteq Nat /\ TypeOK /\ \A l \in Langs : Followed(l)
  BY Places, LangsAreNumbers DEF SessionInv, TypeOK, Spawn
<1>1. TypeOK'
  BY <1>0 DEF Spawn, TypeOK, Phases
<1>2. \A l \in Langs : Followed(l)'
  BY <1>0 DEF Spawn, TypeOK, Followed, Fresh, Starting, BeforeShutdown,
         FromShutdown, Elapsed, Left
<1> QED
  BY <1>1, <1>2 DEF SessionInv, Spawn

LEMMA InitializeFailsKeeps ==
    ASSUME SessionInv, InitializeFails
    PROVE  SessionInv'
<1> USE LanguagesAssumption, ConfiguredAssumption, GraceAssumption
<1>0. lang \in Langs /\ Langs \subseteq Nat /\ TypeOK /\ \A l \in Langs : Followed(l)
  BY Places, LangsAreNumbers DEF SessionInv, TypeOK, InitializeFails
<1>1. TypeOK'
  BY <1>0 DEF InitializeFails, CallShutdown, DisableLanguage, TypeOK, Phases, DownSteps
<1>2. \A l \in Langs : Followed(l)'
  BY <1>0 DEF InitializeFails, CallShutdown, DisableLanguage, TypeOK, Followed, Fresh,
              Starting, BeforeShutdown, FromShutdown, Elapsed, Left
<1> QED
  BY <1>1, <1>2 DEF SessionInv, InitializeFails, CallShutdown

LEMMA InitializeKeeps ==
    ASSUME SessionInv, Initialize
    PROVE  SessionInv'
<1> USE LanguagesAssumption, ConfiguredAssumption, GraceAssumption
<1>0. lang \in Langs /\ Langs \subseteq Nat /\ TypeOK /\ \A l \in Langs : Followed(l)
  BY Places, LangsAreNumbers DEF SessionInv, TypeOK, Initialize
<1>1. TypeOK'
  BY <1>0 DEF Initialize, TypeOK, Phases
<1>2. \A l \in Langs : Followed(l)'
  BY <1>0 DEF Initialize, TypeOK, Followed, Fresh, Starting, BeforeShutdown, FromShutdown,
              Elapsed, Left
<1> QED
  BY <1>1, <1>2 DEF SessionInv, Initialize

LEMMA FilesEndKeeps ==
    ASSUME SessionInv, FilesEnd
    PROVE  SessionInv'
<1> USE LanguagesAssumption, ConfiguredAssumption, GraceAssumption
<1>0. lang \in Langs /\ Langs \subseteq Nat /\ TypeOK /\ \A l \in Langs : Followed(l)
  BY Places, LangsAreNumbers DEF SessionInv, TypeOK, FilesEnd
<1>1. UNCHANGED <<disabled, gaveUp>> \/ DisableLanguage
  BY DEF FilesEnd
<1>2. TypeOK'
  <2>0. disabled \in SUBSET Langs /\ gaveUp \in [Langs -> Nat]
    BY <1>0 DEF TypeOK
  <2>1. disabled' \in SUBSET Langs /\ gaveUp' \in [Langs -> Nat]
    <3>1. CASE UNCHANGED <<disabled, gaveUp>>
      BY <2>0, <3>1
    <3>2. CASE DisableLanguage
      BY <1>0, <2>0, <3>2 DEF DisableLanguage
    <3> QED
      BY <1>1, <3>1, <3>2
  <2>2. down' \in [Langs -> DownSteps] /\ sent' \in [Langs -> Nat] /\ phase' \in Phases
    BY <1>0 DEF FilesEnd, CallShutdown, TypeOK, Phases, DownSteps
  <2> QED
    BY <1>0, <2>1, <2>2 DEF FilesEnd, TypeOK
<1>3. ASSUME NEW l \in Langs PROVE Followed(l)'
  <2>1. Followed(l) /\ Followed(lang)
    BY <1>0
  <2>2. CASE l # lang
    BY <1>0, <1>1, <2>1, <2>2
       DEF FilesEnd, CallShutdown, DisableLanguage, TypeOK, Followed, Fresh, Starting,
           BeforeShutdown, FromShutdown, Elapsed, Left
  <2>3. CASE l = lang
    BY <1>0, <1>1, <2>1, <2>3
       DEF FilesEnd, CallShutdown, DisableLanguage, TypeOK, Followed, Fresh, Starting,
           BeforeShutdown, FromShutdown, Elapsed, Left
  <2> QED
    BY <2>2, <2>3
<1> QED
  BY <1>2, <1>3 DEF SessionInv, FilesEnd, CallShutdown

\* The race of shutdown() and the budget: answered, rejected or lost.
LEMMA RaceKeeps ==
    ASSUME SessionInv, ShutdownAnswered \/ ShutdownRejected \/ GiveUp
    PROVE  SessionInv'
<1> USE LanguagesAssumption, ConfiguredAssumption, GraceAssumption
<1>0. lang \in Langs /\ Langs \subseteq Nat /\ TypeOK /\ \A l \in Langs : Followed(l)
  BY Places, LangsAreNumbers DEF SessionInv, TypeOK, ShutdownAnswered, ShutdownRejected, GiveUp
<1>1. lang' \in Configured \cup {Languages + 1} /\ lang' \in Nat /\ lang' > lang
      /\ phase' = IF lang' \in Langs THEN "spawn" ELSE "done"
  BY <1>0, AdvanceMoves DEF ShutdownAnswered, ShutdownRejected, GiveUp
<1>2. /\ phase = "shutdown"
      /\ UNCHANGED <<process, closed, disposed, down, elapsed, disabled, gaveUp, sent>>
      /\ stranded' = stranded \/ stranded' = stranded \cup {lang}
      /\ down[lang] = "returned" \/ lang \in stranded'
  BY DEF ShutdownAnswered, ShutdownRejected, GiveUp, Warn
<1>3. TypeOK'
  <2>1. phase' \in Phases /\ stranded' \in SUBSET Langs
    BY <1>0, <1>1, <1>2 DEF TypeOK, Phases
  <2>2. \A l \in Langs : l > lang' => process'[l] = "none"
    BY <1>0, <1>1, <1>2 DEF TypeOK
  <2> QED
    BY <1>0, <1>1, <1>2, <2>1, <2>2 DEF TypeOK
<1>4. (phase \in {"done", "ended"} <=> lang = Languages + 1)'
  BY <1>1 DEF Langs
<1>5. ASSUME NEW l \in Langs PROVE Followed(l)'
  <2>1. Followed(l) /\ Followed(lang) /\ l \in Nat /\ lang \in Nat
    BY <1>0
  <2>2. lang \in stranded' \/ process[lang] # "running"
    BY <1>2, <2>1 DEF Followed, FromShutdown
  <2> QED
    BY <1>0, <1>1, <1>2, <2>1, <2>2
       DEF TypeOK, Followed, Fresh, Starting, BeforeShutdown, FromShutdown, Elapsed, Left
<1> QED
  BY <1>3, <1>4, <1>5 DEF SessionInv

-----------------------------------------------------------------------------
(* The steps of a shutdown, and a server that ends *)

LEMMA ShutdownKeeps ==
    ASSUME SessionInv, NEW l \in Langs, Shutdown(l)
    PROVE  SessionInv'
<1> USE LanguagesAssumption, ConfiguredAssumption, GraceAssumption
<1>0. TypeOK /\ (\A k \in Langs : Followed(k)) /\ lang \in Nat /\ Langs \subseteq Nat
  BY Places, LangsAreNumbers DEF SessionInv, TypeOK
<1>1. UNCHANGED <<lang, phase, closed, disabled, gaveUp, sent, stranded>>
  BY DEF Shutdown, RequestEnds, ExitSent, Exited, Kill, Unreaped
<1>2. down[l] \in DownSteps /\ elapsed[l] \in 0..4 * Grace /\ Followed(l)
  BY <1>0 DEF TypeOK
<1>3. /\ TypeOK'
      /\ Followed(l)'
      /\ \A k \in Langs \ {l} :
            down'[k] = down[k] /\ elapsed'[k] = elapsed[k] /\ process'[k] = process[k]
            /\ (k \in disposed' <=> k \in disposed)
  <2>1. CASE \E d \in 0..Grace : RequestEnds(l, d)
    BY <1>0, <1>1, <1>2, <2>1 DEF RequestEnds, Tick, DownTo, TypeOK, DownSteps, Followed, Fresh,
       Starting, BeforeShutdown, FromShutdown, Elapsed, Left
  <2>2. CASE \E d \in 0..Grace : ExitSent(l, d)
    BY <1>0, <1>1, <1>2, <2>2 DEF ExitSent, Tick, DownTo, TypeOK, DownSteps, Followed, Fresh,
       Starting, BeforeShutdown, FromShutdown, Elapsed, Left
  <2>3. CASE \E d \in 0..Grace : Exited(l, d)
    BY <1>0, <1>1, <1>2, <2>3 DEF Exited, Tick, Returns, DownTo, TypeOK, DownSteps, Followed,
       Fresh, Starting, BeforeShutdown, FromShutdown, Elapsed, Left
  <2>4. CASE Kill(l)
    BY <1>0, <1>1, <1>2, <2>4 DEF Kill, Tick, DownTo, TypeOK, DownSteps, Followed, Fresh,
       Starting, BeforeShutdown, FromShutdown, Elapsed, Left
  <2>5. CASE Unreaped(l)
    BY <1>0, <1>1, <1>2, <2>5 DEF Unreaped, Tick, Returns, DownTo, TypeOK, DownSteps, Followed,
       Fresh, Starting, BeforeShutdown, FromShutdown, Elapsed, Left
  <2> QED
    BY <2>1, <2>2, <2>3, <2>4, <2>5 DEF Shutdown
<1>4. ASSUME NEW k \in Langs \ {l} PROVE Followed(k)'
  BY <1>0, <1>1, <1>3 DEF Followed, Fresh, Starting, BeforeShutdown, FromShutdown, Elapsed, Left
<1> QED
  BY <1>1, <1>3, <1>4 DEF SessionInv

LEMMA ServerExitsKeeps ==
    ASSUME SessionInv, NEW l \in Langs, ServerExits(l)
    PROVE  SessionInv'
<1> USE LanguagesAssumption, ConfiguredAssumption, GraceAssumption
<1>0. TypeOK /\ (\A k \in Langs : Followed(k)) /\ lang \in Nat /\ Langs \subseteq Nat
  BY Places, LangsAreNumbers DEF SessionInv, TypeOK
<1>1. TypeOK'
  BY <1>0 DEF ServerExits, TypeOK
<1>2. \A k \in Langs : Followed(k)'
  BY <1>0 DEF ServerExits, TypeOK, Followed, Fresh, Starting, BeforeShutdown, FromShutdown,
              Elapsed, Left
<1> QED
  BY <1>1, <1>2 DEF SessionInv, ServerExits

LEMMA ConnectionClosesKeeps ==
    ASSUME SessionInv, NEW l \in Langs, ConnectionCloses(l)
    PROVE  SessionInv'
<1>0. TypeOK /\ (\A k \in Langs : Followed(k))
  BY DEF SessionInv
<1>1. TypeOK'
  BY <1>0 DEF ConnectionCloses, TypeOK
<1>2. \A k \in Langs : Followed(k)'
  BY <1>0 DEF ConnectionCloses, Followed, Fresh, Starting, BeforeShutdown, FromShutdown,
              Elapsed, Left
<1> QED
  BY <1>1, <1>2 DEF SessionInv, ConnectionCloses

LEMMA TerminateKeeps ==
    ASSUME SessionInv, Terminate
    PROVE  SessionInv'
<1>0. TypeOK /\ (\A k \in Langs : Followed(k)) /\ lang = Languages + 1
  BY DEF SessionInv, Terminate
<1>1. TypeOK'
  BY <1>0 DEF Terminate, TypeOK, Phases
<1>2. \A k \in Langs : Followed(k)'
  BY <1>0, LanguagesAssumption
     DEF Terminate, Langs, Followed, Fresh, Starting, BeforeShutdown, FromShutdown, Elapsed, Left
<1> QED
  BY <1>0, <1>1, <1>2 DEF SessionInv, Terminate

-----------------------------------------------------------------------------
\* What each step keeps of every language, reached or not.
LEMMA SessionInvHolds == Spec => []SessionInv
<1>1. SessionInv /\ [Next]_vars => SessionInv'
  <2> SUFFICES ASSUME SessionInv, [Next]_vars PROVE SessionInv'
    OBVIOUS
  <2>1. CASE Loop
    BY <2>1, SpawnFailsKeeps, SpawnKeeps, InitializeFailsKeeps, InitializeKeeps, FilesEndKeeps,
       RaceKeeps DEF Loop
  <2>2. CASE \E l \in Langs : Shutdown(l) \/ ConnectionCloses(l) \/ ServerExits(l)
    BY <2>2, ShutdownKeeps, ConnectionClosesKeeps, ServerExitsKeeps
  <2>3. CASE Terminate
    BY <2>3, TerminateKeeps
  <2>4. CASE UNCHANGED vars
    BY <2>4 DEF vars, SessionInv, TypeOK, Followed, Fresh, Starting, BeforeShutdown,
                FromShutdown, Elapsed, Left
  <2> QED
    BY <2>1, <2>2, <2>3, <2>4 DEF Next
<1> QED
  BY <1>1, InitSession, PTL DEF Spec

\* Whatever the languages, servers and timing: a server the loop has left has exited, has been sent
\* SIGKILL or was reported; a language is given up on with one warning (rule 3 of
\* docs/design/lsp-enrichment.md section 6.3); no server is sent shutdown twice, and one left running
\* was sent it once, as rule 7 asks, unless its connection had closed.
THEOREM ServerAccountedForHolds == Spec => []ServerAccountedFor
<1>1. SessionInv => ServerAccountedFor
  <2> SUFFICES ASSUME SessionInv PROVE ServerAccountedFor
    OBVIOUS
  <2>1. TypeOK /\ lang \in Nat
    BY Places DEF SessionInv, TypeOK
  <2>2. ASSUME NEW l \in Langs
        PROVE  /\ Left(l) /\ process[l] = "running" => l \in stranded
               /\ gaveUp[l] = (IF l \in disabled THEN 1 ELSE 0)
               /\ sent[l] <= 1
               /\ Left(l) /\ process[l] = "running" => sent[l] = 1 \/ l \in closed
               /\ process[l] = "killed" => sent[l] = 1
    <3>1. Followed(l) /\ l \in Nat
      BY DEF SessionInv, Langs
    <3> QED
      BY <2>1, <3>1 DEF Followed, BeforeShutdown, FromShutdown, Starting, Left
  <2> QED
    BY <2>1, <2>2 DEF ServerAccountedFor
<1> QED
  BY <1>1, SessionInvHolds, PTL
=============================================================================
