-------------------------- MODULE ScanSetup_proofs ---------------------------
(***************************************************************************)
(* Proofs about what a scan sets up, for every workspace. Of the registry: *)
(* what a registered plugin declared stays its own, and a config loads     *)
(* exactly when its plugins are compatible; the invariants say why the     *)
(* checks of a registration, each against what stands so far, are enough   *)
(* whatever is registered later, and why their order does not matter. Of   *)
(* the set-up around it: the climb to the root ends where any other would, *)
(* and the managers' searches come to one answer in whatever order they    *)
(* settle.                                                                 *)
(***************************************************************************)
EXTENDS SymbolPipeline, FiniteSetTheorems, TLAPS

Paths == Seq(STRING)

\* Of two prefixes over one name, one is under the other.
LEMMA PrefixesComparable ==
    ASSUME NEW id \in Paths, NEW p \in Paths, NEW q \in Paths, Under(id, p), Under(id, q)
    PROVE  Under(p, q) \/ Under(q, p)
<1>1. Len(p) \in Nat /\ Len(q) \in Nat /\ Len(id) \in Nat
  BY DEF Paths
<1>2. CASE Len(p) <= Len(q)
  BY <1>1, <1>2 DEF Under
<1>3. CASE Len(q) <= Len(p)
  BY <1>1, <1>3 DEF Under
<1> QED
  BY <1>1, <1>2, <1>3

\* The keys of the maps are names, and every manifest in the registry is kept under its own.
Registry ==
    /\ DOMAIN ids = Vocabularies /\ DOMAIN prefixes = Vocabularies
    /\ \A v \in Vocabularies : DOMAIN ids[v] \subseteq Paths /\ DOMAIN prefixes[v] \subseteq Paths
    /\ \A n \in DOMAIN registered : registered[n] \in Manifests /\ registered[n].name = n
    /\ refs \in Seq(Entries) /\ hints \in Seq(Hints)

\* No prefix of a vocabulary nests with another.
Flat ==
    \A v \in Vocabularies : \A p, q \in DOMAIN prefixes[v] : Under(p, q) => p = q

\* A declared id has no prefix over it but its own plugin's.
Unshadowed ==
    \A v \in Vocabularies : \A id \in DOMAIN ids[v], p \in DOMAIN prefixes[v] :
        Under(id, p) => ids[v][id] = prefixes[v][p]

\* What a registered plugin declared is in the maps, under its name.
Written ==
    \A n \in DOMAIN registered : \A v \in Vocabularies :
        /\ \A id \in IdsOf(registered[n], v) : id \in DOMAIN ids[v] /\ ids[v][id] = registered[n]
        /\ \A p \in PrefixesOf(registered[n], v) :
              p \in DOMAIN prefixes[v] /\ prefixes[v][p] = registered[n]

Owned == Registry /\ Flat /\ Unshadowed /\ Written

\* What a manifest declares are names.
LEMMA DeclaredNames ==
    ASSUME NEW m \in Manifests, NEW v \in Vocabularies
    PROVE  IdsOf(m, v) \subseteq Paths /\ PrefixesOf(m, v) \subseteq Paths
<1>1. m.ids[v] \in Seq(Paths) /\ m.prefixes[v] \in Seq(Paths)
  BY DEF Manifests, Paths
<1> QED
  BY <1>1 DEF IdsOf, PrefixesOf

\* A manifest that keeps the rules has no two prefixes of one vocabulary that nest: an effects
\* plugin has one to own, and the other types' are checked against each other.
LEMMA OwnPrefixesFlat ==
    ASSUME NEW m \in Manifests, NEW granted, RulesKept(m, granted), NEW v \in Vocabularies,
           NEW p \in PrefixesOf(m, v), NEW q \in PrefixesOf(m, v), Under(p, q)
    PROVE  p = q
<1>1. CASE v \in {"extKind", "derivedBy"}
  BY <1>1 DEF RulesKept, NoOwnDuplicates, NoneNested, Nested
<1>2. CASE v = "effect"
  <2>1. m.type = "effects"
    BY <1>2 DEF RulesKept, TypeAllows, Declared
  <2> QED
    BY <1>2, <2>1 DEF RulesKept, RootKept
<1>3. CASE v = "framework"
  <2>1. m.prefixes["framework"] = <<>>
    BY DEF Manifests
  <2>2. PrefixesOf(m, v) = {}
    BY <1>3, <2>1 DEF PrefixesOf
  <2> QED
    BY <2>2
<1> QED
  BY <1>1, <1>2, <1>3 DEF Vocabularies

-----------------------------------------------------------------------------
\* Writing a manifest that no check refuses keeps every claim, its own and those before it.
LEMMA WriteKeepsOwned ==
    ASSUME Owned, NEW m \in Manifests, NEW granted, RulesKept(m, granted), ~Conflicts(m),
           m.name \notin DOMAIN registered, Write(m), refs' \in Seq(Entries), hints' \in Seq(Hints)
    PROVE  Owned'
<1> USE DEF Owned
<1>1. \A v \in Vocabularies :
        /\ DOMAIN ids'[v] = DOMAIN ids[v] \cup IdsOf(m, v)
        /\ \A id \in DOMAIN ids'[v] : ids'[v][id] = IF id \in IdsOf(m, v) THEN m ELSE ids[v][id]
  BY DEF Write, Put
<1>2. \A v \in Vocabularies :
        /\ DOMAIN prefixes'[v] = DOMAIN prefixes[v] \cup PrefixesOf(m, v)
        /\ \A p \in DOMAIN prefixes'[v] :
              prefixes'[v][p] = IF p \in PrefixesOf(m, v) THEN m ELSE prefixes[v][p]
  BY DEF Write, Put
<1>3. /\ DOMAIN registered' = DOMAIN registered \cup {m.name}
      /\ \A n \in DOMAIN registered' : registered'[n] = IF n = m.name THEN m ELSE registered[n]
  BY DEF Write, Put
<1>4. \A v \in Vocabularies : ~TakenId(m, v) /\ ~TakenPrefix(m, v)
  BY DEF Conflicts
<1>5. Registry'
  <2>1. \A v \in Vocabularies : DOMAIN ids'[v] \subseteq Paths /\ DOMAIN prefixes'[v] \subseteq Paths
    BY <1>1, <1>2, DeclaredNames DEF Registry
  <2>2. DOMAIN ids' = Vocabularies /\ DOMAIN prefixes' = Vocabularies
    BY DEF Write
  <2>3. \A n \in DOMAIN registered' : registered'[n] \in Manifests /\ registered'[n].name = n
    BY <1>3 DEF Registry
  <2> QED
    BY <2>1, <2>2, <2>3 DEF Registry
<1>6. Flat'
  <2> SUFFICES ASSUME NEW v \in Vocabularies, NEW p \in DOMAIN prefixes'[v],
                      NEW q \in DOMAIN prefixes'[v], Under(p, q)
               PROVE  p = q
    BY DEF Flat
  <2>1. CASE p \in PrefixesOf(m, v) /\ q \in PrefixesOf(m, v)
    BY <2>1, OwnPrefixesFlat
  <2>2. CASE p \in DOMAIN prefixes[v] /\ q \in DOMAIN prefixes[v]
    BY <2>2 DEF Flat
  <2>3. CASE p \in PrefixesOf(m, v) /\ q \in DOMAIN prefixes[v]
    BY <1>4, <2>3 DEF TakenPrefix
  <2>4. CASE p \in DOMAIN prefixes[v] /\ q \in PrefixesOf(m, v)
    BY <1>4, <2>4 DEF TakenPrefix
  <2> QED
    BY <1>2, <2>1, <2>2, <2>3, <2>4
<1>7. Unshadowed'
  <2> SUFFICES ASSUME NEW v \in Vocabularies, NEW id \in DOMAIN ids'[v],
                      NEW p \in DOMAIN prefixes'[v], Under(id, p)
               PROVE  ids'[v][id] = prefixes'[v][p]
    BY DEF Unshadowed
  <2>1. CASE id \in IdsOf(m, v) /\ p \in PrefixesOf(m, v)
    BY <1>1, <1>2, <2>1
  <2>2. CASE id \in IdsOf(m, v) /\ p \notin PrefixesOf(m, v)
    BY <1>2, <1>4, <2>2 DEF TakenId
  <2>3. CASE id \notin IdsOf(m, v) /\ p \in PrefixesOf(m, v)
    BY <1>1, <1>4, <2>3 DEF TakenPrefix
  <2>4. CASE id \notin IdsOf(m, v) /\ p \notin PrefixesOf(m, v)
    BY <1>1, <1>2, <2>4 DEF Unshadowed
  <2> QED
    BY <2>1, <2>2, <2>3, <2>4
<1>8. Written'
  <2> SUFFICES ASSUME NEW n \in DOMAIN registered', NEW v \in Vocabularies
               PROVE  /\ \A id \in IdsOf(registered'[n], v) :
                            id \in DOMAIN ids'[v] /\ ids'[v][id] = registered'[n]
                      /\ \A p \in PrefixesOf(registered'[n], v) :
                            p \in DOMAIN prefixes'[v] /\ prefixes'[v][p] = registered'[n]
    BY DEF Written
  <2>1. CASE n = m.name
    BY <1>1, <1>2, <1>3, <2>1
  <2>2. CASE n # m.name
    <3>1. n \in DOMAIN registered /\ registered'[n] = registered[n]
      BY <1>3, <2>2
    <3>2. \A id \in IdsOf(registered[n], v) : id \in DOMAIN ids[v] /\ ids[v][id] = registered[n]
      BY <3>1 DEF Written
    <3>3. \A p \in PrefixesOf(registered[n], v) :
            p \in DOMAIN prefixes[v] /\ prefixes[v][p] = registered[n]
      BY <3>1 DEF Written
    <3>4. DOMAIN ids[v] \cap IdsOf(m, v) = {}
      BY <1>4 DEF TakenId
    <3>5. DOMAIN prefixes[v] \cap PrefixesOf(m, v) = {}
      <4> SUFFICES ASSUME NEW p \in DOMAIN prefixes[v], p \in PrefixesOf(m, v) PROVE FALSE
        OBVIOUS
      <4>1. p \in Paths
        BY DEF Registry
      <4>2. Under(p, p)
        BY <4>1 DEF Under, Paths
      <4> QED
        BY <1>4, <4>2 DEF TakenPrefix
    <3> QED
      BY <1>1, <1>2, <3>1, <3>2, <3>3, <3>4, <3>5
  <2> QED
    BY <2>1, <2>2
<1> QED
  BY <1>5, <1>6, <1>7, <1>8

\* A registration that is not refused keeps every claim: of a known manifest it writes nothing.
LEMMA RegisterKeepsOwned ==
    ASSUME Owned, NEW m \in Manifests, NEW granted, ~Refuses(m, granted), Register(m),
           refs' \in Seq(Entries), hints' \in Seq(Hints)
    PROVE  Owned'
<1>1. CASE Known(m)
  <2>1. UNCHANGED registry
    BY <1>1 DEF Register
  <2> QED
    BY <2>1 DEF Owned, Registry, Flat, Unshadowed, Written, registry
<1>2. CASE ~Known(m)
  <2>1. Write(m) /\ RulesKept(m, granted) /\ ~Conflicts(m) /\ m.name \notin DOMAIN registered
    BY <1>2 DEF Register, Refuses
  <2> QED
    BY <2>1, WriteKeepsOwned
<1> QED
  BY <1>1, <1>2

\* An empty registry owes nothing, and each step of the loader keeps what it owes.
LEMMA OwnedIsInvariant ==
    ASSUME PluginRegistryAssumption
    PROVE  Spec => []Owned
<1>1. Init => Owned
  <2> SUFFICES ASSUME Init PROVE Owned
    OBVIOUS
  <2>1. refs \in Seq(Entries) /\ hints \in Seq(Hints)
    BY PluginRegistryAssumption DEF PluginRegistryAssumption, Init, Unloaded
  <2>2. DOMAIN registered = {} /\ \A v \in Vocabularies : DOMAIN ids[v] = {} /\ DOMAIN prefixes[v] = {}
    BY DEF Init, Unloaded, NoOwner
  <2>3. DOMAIN ids = Vocabularies /\ DOMAIN prefixes = Vocabularies
    BY DEF Init, Unloaded
  <2> QED
    BY <2>1, <2>2, <2>3 DEF Owned, Registry, Flat, Unshadowed, Written
<1>2. Owned /\ [Next]_vars => Owned'
  <2> SUFFICES ASSUME Owned, [Next]_vars PROVE Owned'
    OBVIOUS
  <2>1. refs \in Seq(Entries) /\ hints \in Seq(Hints)
    BY DEF Owned, Registry
  <2>2. ASSUME UNCHANGED registry, UNCHANGED <<refs, hints>> PROVE Owned'
    BY <2>2 DEF Owned, Registry, Flat, Unshadowed, Written, registry
  <2>3. CASE Resolve
    BY <2>2, <2>3 DEF Resolve
  <2>4. CASE ImportFails
    BY <2>2, <2>4 DEF ImportFails
  <2>5. CASE RegisterRefused
    BY <2>2, <2>5 DEF RegisterRefused
  <2>6. CASE LoadPlugin
    <3>1. Head(refs) \in Entries /\ Tail(refs) \in Seq(Entries)
      BY <2>1, <2>6 DEF LoadPlugin
    <3>2. Head(refs).manifest \in Manifests
      BY <3>1, PluginRegistryAssumption DEF PluginRegistryAssumption
    <3>3. ~Refuses(Head(refs).manifest, {}) /\ Register(Head(refs).manifest)
      BY <2>6 DEF LoadPlugin
    <3>4. refs' \in Seq(Entries) /\ hints' \in Seq(Hints)
      BY <2>1, <2>6, <3>1 DEF LoadPlugin
    <3> QED
      BY <3>2, <3>3, <3>4, RegisterKeepsOwned
  <2>7. CASE HintRefused
    BY <2>2, <2>7 DEF HintRefused
  <2>8. CASE LoadHint
    <3>1. Head(hints) \in Hints /\ Tail(hints) \in Seq(Hints)
      BY <2>1, <2>8 DEF LoadHint
    <3>2. Head(hints) \in Manifests
      BY <3>1, PluginRegistryAssumption DEF PluginRegistryAssumption
    <3>3. ~Refuses(Head(hints), {HintNamespace}) /\ Register(Head(hints))
      BY <2>8 DEF LoadHint
    <3>4. refs' \in Seq(Entries) /\ hints' \in Seq(Hints)
      BY <2>1, <2>8, <3>1 DEF LoadHint
    <3> QED
      BY <3>2, <3>3, <3>4, RegisterKeepsOwned
  <2>9. CASE Finish
    BY <2>2, <2>9 DEF Finish
  <2>10. CASE UNCHANGED vars
    BY <2>2, <2>10 DEF vars
  <2> QED
    BY <2>3, <2>4, <2>5, <2>6, <2>7, <2>8, <2>9, <2>10 DEF Next
<1> QED
  BY <1>1, <1>2, PTL DEF Spec

\* What the invariant gives a lookup: the declared id is found as its own, and of the prefixes over
\* it there is one at most, since two would nest.
LEMMA OwnedHonoursClaims ==
    ASSUME Owned
    PROVE  ClaimsAreHonoured
<1> SUFFICES ASSUME NEW n \in DOMAIN registered, NEW v \in Vocabularies,
                    NEW o \in DOMAIN registered, NEW id \in Declared(registered[o], v),
                    Owns(registered[n], v, id)
             PROVE  Finds(v, id, registered[n]) /\ ~LookupRaises(v, id)
  BY DEF ClaimsAreHonoured
<1>1. id \in Paths
  BY DeclaredNames DEF Owned, Registry, Declared
<1>2. \A p, q \in OwningPrefixes(v, id) : p = q
  <2> SUFFICES ASSUME NEW p \in OwningPrefixes(v, id), NEW q \in OwningPrefixes(v, id) PROVE p = q
    OBVIOUS
  <2>1. /\ p \in DOMAIN prefixes[v] /\ q \in DOMAIN prefixes[v]
        /\ Under(id, p) /\ Under(id, q)
    BY DEF OwningPrefixes
  <2>2. p \in Paths /\ q \in Paths
    BY <2>1 DEF Owned, Registry
  <2>3. Under(p, q) \/ Under(q, p)
    BY <1>1, <2>1, <2>2, PrefixesComparable
  <2> QED
    BY <2>1, <2>3 DEF Owned, Flat
<1>3. ~LookupRaises(v, id)
  BY <1>2 DEF LookupRaises
<1>4. CASE id \in IdsOf(registered[n], v)
  BY <1>3, <1>4 DEF Owned, Written, Finds
<1>5. CASE \E p \in PrefixesOf(registered[n], v) : Under(id, p)
  <2>1. PICK p \in PrefixesOf(registered[n], v) : Under(id, p)
    BY <1>5
  <2>2. p \in DOMAIN prefixes[v] /\ prefixes[v][p] = registered[n]
    BY DEF Owned, Written
  <2>3. id \in DOMAIN ids[v] => ids[v][id] = registered[n]
    BY <2>1, <2>2 DEF Owned, Unshadowed
  <2>4. p \in OwningPrefixes(v, id)
    BY <2>1, <2>2 DEF OwningPrefixes
  <2> QED
    BY <1>3, <2>2, <2>3, <2>4 DEF Finds
<1> QED
  BY <1>4, <1>5 DEF Owns

\* For every config, whatever order its plugins are listed in: the registry finds each plugin's
\* declared ids and the names under its prefixes as that plugin's, and no lookup of one raises.
THEOREM EveryClaimIsHonoured ==
    ASSUME PluginRegistryAssumption
    PROVE  Spec => []ClaimsAreHonoured
<1>1. Spec => []Owned
  BY OwnedIsInvariant
<1>2. Owned => ClaimsAreHonoured
  BY OwnedHonoursClaims
<1> QED
  BY <1>1, <1>2, PTL

-----------------------------------------------------------------------------
(* Which configs load *)

\* How far the loader is: what is left of a list is its end.
Suffix(s, t) == Len(s) <= Len(t) /\ \A j \in 1..Len(s) : s[j] = t[Len(t) - Len(s) + j]
Passed(s, t) == 1..(Len(t) - Len(s))

RefStands(e) ==
    /\ e.loads = "yes"
    /\ FieldOf(e.manifest.type) = e.field
    /\ e.manifest.plain /\ RulesKept(e.manifest, {})
HintStands(h) == h.plain /\ RulesKept(h, {HintNamespace})

Accepted == {config.refs[j].manifest : j \in Passed(refs, config.refs)}
              \cup {config.hints[j] : j \in Passed(hints, config.hints)}

\* The whole config is one that loads.
AllCompatible ==
    /\ \A e \in Listed : RefStands(e)
    /\ \A h \in Hinted : HintStands(h)
    /\ \A m, o \in {e.manifest : e \in Listed} \cup Hinted : Compatible(m, o)

\* The maps hold what registered manifests declare, and nothing else.
Sourced ==
    \A v \in Vocabularies :
        /\ \A id \in DOMAIN ids[v] : \E n \in DOMAIN registered : id \in IdsOf(registered[n], v)
        /\ \A p \in DOMAIN prefixes[v] : \E n \in DOMAIN registered : p \in PrefixesOf(registered[n], v)

Reading ==
    /\ config \in Configs
    /\ Suffix(refs, config.refs) /\ Suffix(hints, config.hints)
    /\ refs # <<>> => hints = config.hints
    /\ Len(loaded) = (Len(config.refs) - Len(refs)) + (Len(config.hints) - Len(hints))
    /\ loaded \in Seq(Manifests)

\* What is passed stands on its own and with the rest of it.
PassedStands ==
    /\ \A j \in Passed(refs, config.refs) : RefStands(config.refs[j])
    /\ \A j \in Passed(hints, config.hints) : HintStands(config.hints[j])
    /\ \A m, o \in Accepted : Compatible(m, o)

\* Until a plugin is refused the registry holds what is passed.
Settled ==
    /\ outcome \in {"resolving", "loading", "loaded", "config-error", "plugin-error"}
    /\ outcome \notin {"config-error", "plugin-error"} =>
           Accepted = {registered[n] : n \in DOMAIN registered}
    /\ outcome = "loaded" => refs = <<>> /\ hints = <<>>
    /\ outcome \in {"config-error", "plugin-error"} => ~AllCompatible

LoadInv == Owned /\ Sourced /\ Reading /\ PassedStands /\ Settled


\* One more taken off a list is the next of it, and what is left is still its end.
LEMMA TailIsSuffix ==
    ASSUME NEW S, NEW t \in Seq(S), NEW s \in Seq(S), Suffix(s, t), s # <<>>
    PROVE  /\ Suffix(Tail(s), t) /\ Len(Tail(s)) = Len(s) - 1
           /\ Len(s) \in 1..Len(t)
           /\ Head(s) = t[Len(t) - Len(s) + 1] /\ Len(t) - Len(s) + 1 \in DOMAIN t
           /\ Passed(Tail(s), t) = Passed(s, t) \cup {Len(t) - Len(s) + 1}
<1>1. Len(s) \in Nat /\ Len(t) \in Nat /\ Len(s) # 0 /\ Len(s) <= Len(t)
  BY DEF Suffix
<1>2. Len(Tail(s)) = Len(s) - 1 /\ Head(s) = s[1]
  BY <1>1
<1>3. \A j \in 1..Len(Tail(s)) : Tail(s)[j] = s[j + 1]
  BY <1>1, <1>2
<1>4. \A j \in 1..Len(Tail(s)) : Tail(s)[j] = t[Len(t) - Len(Tail(s)) + j]
  <2> SUFFICES ASSUME NEW j \in 1..Len(Tail(s)) PROVE Tail(s)[j] = t[Len(t) - Len(Tail(s)) + j]
    OBVIOUS
  <2>1. j + 1 \in 1..Len(s)
    BY <1>1, <1>2
  <2>2. s[j + 1] = t[Len(t) - Len(s) + (j + 1)]
    BY <2>1 DEF Suffix
  <2>3. Len(t) - Len(s) + (j + 1) = Len(t) - Len(Tail(s)) + j
    BY <1>1, <1>2
  <2> QED
    BY <1>3, <2>2, <2>3
<1>5. Suffix(Tail(s), t)
  BY <1>1, <1>2, <1>4 DEF Suffix
<1>6. Head(s) = t[Len(t) - Len(s) + 1]
  BY <1>1, <1>2 DEF Suffix
<1>7. Passed(Tail(s), t) = Passed(s, t) \cup {Len(t) - Len(s) + 1}
  BY <1>1, <1>2 DEF Passed
<1> QED
  BY <1>1, <1>2, <1>5, <1>6, <1>7

LEMMA SuffixIsSubSeq ==
    ASSUME NEW S, NEW t \in Seq(S), NEW s \in Seq(S), Suffix(s, t)
    PROVE  \E i \in 0..Len(t) : s = SubSeq(t, i + 1, Len(t))
<1>1. Len(s) \in Nat /\ Len(t) \in Nat /\ Len(s) <= Len(t)
  BY DEF Suffix
<1>2. PICK i \in 0..Len(t) : i = Len(t) - Len(s)
  <2>1. Len(t) - Len(s) \in 0..Len(t)
    BY <1>1
  <2> QED
    BY <2>1
<1>3. PICK u : u = SubSeq(t, i + 1, Len(t))
  OBVIOUS
<1>4. u \in Seq(S) /\ Len(u) = Len(s)
  BY <1>1, <1>2, <1>3
<1>5. \A j \in 1..Len(s) : u[j] = s[j]
  <2> SUFFICES ASSUME NEW j \in 1..Len(s) PROVE u[j] = s[j]
    OBVIOUS
  <2>1. u[j] = t[i + 1 + j - 1]
    BY <1>1, <1>2, <1>3
  <2>2. i + 1 + j - 1 = Len(t) - Len(s) + j
    BY <1>1, <1>2
  <2> QED
    BY <2>1, <2>2 DEF Suffix
<1>6. s = u
  BY <1>4, <1>5
<1> QED
  BY <1>3, <1>6

LEMMA CompatibleSym == \A m, o : Compatible(m, o) <=> Compatible(o, m)
BY DEF Compatible

\* The conflicts of an unknown name are what a registered manifest may not claim as well.
LEMMA ConflictsIffIncompatible ==
    ASSUME Owned, Sourced, NEW m, m.name \notin DOMAIN registered
    PROVE  Conflicts(m) <=> \E n \in DOMAIN registered : ~Compatible(m, registered[n])
<1>1. \A n \in DOMAIN registered : m.name # registered[n].name /\ m # registered[n]
  BY DEF Owned, Registry
<1>2. ASSUME Conflicts(m)
      PROVE  \E n \in DOMAIN registered : ~Compatible(m, registered[n])
  <2>1. PICK v \in Vocabularies : TakenId(m, v) \/ TakenPrefix(m, v)
    BY <1>2 DEF Conflicts
  <2>2. CASE TakenId(m, v)
    <3>1. PICK id \in IdsOf(m, v) :
            id \in DOMAIN ids[v] \/ \E p \in DOMAIN prefixes[v] : Under(id, p)
      BY <2>2 DEF TakenId
    <3>2. PICK n \in DOMAIN registered :
            \/ id \in IdsOf(registered[n], v)
            \/ \E p \in PrefixesOf(registered[n], v) : Under(id, p)
      BY <3>1 DEF Sourced
    <3> QED
      BY <1>1, <3>2 DEF Compatible
  <2>3. CASE TakenPrefix(m, v)
    <3>1. PICK p \in PrefixesOf(m, v) :
            \/ \E q \in DOMAIN prefixes[v] : Under(p, q) \/ Under(q, p)
            \/ \E id \in DOMAIN ids[v] : Under(id, p)
      BY <2>3 DEF TakenPrefix
    <3>2. PICK n \in DOMAIN registered :
            \/ \E q \in PrefixesOf(registered[n], v) : Under(p, q) \/ Under(q, p)
            \/ \E id \in IdsOf(registered[n], v) : Under(id, p)
      BY <3>1 DEF Sourced
    <3> QED
      BY <1>1, <3>2 DEF Compatible
  <2> QED
    BY <2>1, <2>2, <2>3
<1>3. ASSUME NEW n \in DOMAIN registered, ~Compatible(m, registered[n])
      PROVE  Conflicts(m)
  <2>1. PICK v \in Vocabularies :
          \/ \E id \in IdsOf(m, v) : \/ id \in IdsOf(registered[n], v)
                                     \/ \E p \in PrefixesOf(registered[n], v) : Under(id, p)
          \/ \E p \in PrefixesOf(m, v) :
                 \/ \E id \in IdsOf(registered[n], v) : Under(id, p)
                 \/ \E q \in PrefixesOf(registered[n], v) : Under(p, q) \/ Under(q, p)
    BY <1>1, <1>3 DEF Compatible
  <2>2. /\ IdsOf(registered[n], v) \subseteq DOMAIN ids[v]
        /\ PrefixesOf(registered[n], v) \subseteq DOMAIN prefixes[v]
    BY DEF Owned, Written
  <2>3. TakenId(m, v) \/ TakenPrefix(m, v)
    BY <2>1, <2>2 DEF TakenId, TakenPrefix
  <2> QED
    BY <2>3 DEF Conflicts
<1> QED
  BY <1>2, <1>3

\* What keeps the rules of a plugin keeps those of a hint, which may hold a namespace more.
LEMMA HintRulesAreWider ==
    ASSUME NEW m, RulesKept(m, {})
    PROVE  RulesKept(m, {HintNamespace})
BY DEF RulesKept, ReservedKept, BelowGranted


\* A manifest that is not refused stands with all that is passed; after it is registered the registry
\* holds it besides.
LEMMA AcceptedFits ==
    ASSUME Owned, Sourced, NEW M, M = {registered[n] : n \in DOMAIN registered},
           NEW m \in Manifests, NEW granted, ~Refuses(m, granted), Register(m)
    PROVE  /\ m.plain
           /\ m \in M \/ RulesKept(m, granted)
           /\ m \in M \/ \A o \in M : Compatible(m, o)
           /\ {registered'[n] : n \in DOMAIN registered'} = M \cup {m}
           /\ Sourced'
<1>1. CASE Known(m)
  <2>1. UNCHANGED registry
    BY <1>1 DEF Register
  <2>2. m \in M
    BY <1>1 DEF Known
  <2>3. Sourced'
    BY <2>1 DEF Sourced, registry
  <2> QED
    BY <2>1, <2>2, <2>3 DEF Refuses, registry
<1>2. CASE ~Known(m)
  <2>1. Write(m) /\ RulesKept(m, granted) /\ ~Conflicts(m) /\ m.name \notin DOMAIN registered /\ m.plain
    BY <1>2 DEF Register, Refuses
  <2>2. \A o \in M : Compatible(m, o)
    BY <2>1, ConflictsIffIncompatible
  <2>3. /\ DOMAIN registered' = DOMAIN registered \cup {m.name}
        /\ registered'[m.name] = m
        /\ \A n \in DOMAIN registered : registered'[n] = registered[n]
    BY <2>1 DEF Write, Put
  <2>4. {registered'[n] : n \in DOMAIN registered'} = M \cup {m}
    BY <2>3
  <2>5. \A v \in Vocabularies : /\ DOMAIN ids'[v] = DOMAIN ids[v] \cup IdsOf(m, v)
                                /\ DOMAIN prefixes'[v] = DOMAIN prefixes[v] \cup PrefixesOf(m, v)
    BY <2>1 DEF Write, Put, Owned, Registry
  <2>6. Sourced'
    <3> SUFFICES ASSUME NEW v \in Vocabularies
                 PROVE  /\ \A id \in DOMAIN ids'[v] :
                              \E n \in DOMAIN registered' : id \in IdsOf(registered'[n], v)
                        /\ \A p \in DOMAIN prefixes'[v] :
                              \E n \in DOMAIN registered' : p \in PrefixesOf(registered'[n], v)
      BY DEF Sourced
    <3>1. ASSUME NEW id \in DOMAIN ids'[v]
          PROVE  \E n \in DOMAIN registered' : id \in IdsOf(registered'[n], v)
      BY <2>3, <2>5 DEF Sourced
    <3>2. ASSUME NEW p \in DOMAIN prefixes'[v]
          PROVE  \E n \in DOMAIN registered' : p \in PrefixesOf(registered'[n], v)
      BY <2>3, <2>5 DEF Sourced
    <3> QED
      BY <3>1, <3>2
  <2> QED
    BY <2>1, <2>2, <2>4, <2>6
<1> QED
  BY <1>1, <1>2

\* A manifest that is refused breaks a rule of its own, or claims what one that is passed claims.
LEMMA RefusedMisfits ==
    ASSUME Owned, Sourced, NEW m, NEW granted, Refuses(m, granted)
    PROVE  \/ ~m.plain \/ ~RulesKept(m, granted)
           \/ \E n \in DOMAIN registered : ~Compatible(m, registered[n])
<1>1. CASE ~m.plain \/ ~RulesKept(m, granted)
  BY <1>1
<1>2. CASE m.plain /\ RulesKept(m, granted) /\ m.name \in DOMAIN registered
  <2>1. registered[m.name] # m /\ registered[m.name].name = m.name
    BY <1>2 DEF Refuses, Known, Owned, Registry
  <2> QED
    BY <1>2, <2>1 DEF Compatible
<1>3. CASE m.plain /\ RulesKept(m, granted) /\ m.name \notin DOMAIN registered
  <2>1. Conflicts(m)
    BY <1>3 DEF Refuses
  <2> QED
    BY <1>3, <2>1, ConflictsIffIncompatible
<1> QED
  BY <1>1, <1>2, <1>3

LEMMA InitLoads ==
    ASSUME PluginRegistryAssumption, Init, Owned
    PROVE  LoadInv
<1>1. /\ config \in Configs /\ config.refs \in Seq(Entries) /\ config.hints \in Seq(Hints)
      /\ refs = config.refs /\ hints = config.hints /\ loaded = <<>> /\ outcome = "resolving"
  BY PluginRegistryAssumption DEF PluginRegistryAssumption, Init, Unloaded
<1>2. DOMAIN registered = {} /\ \A v \in Vocabularies : DOMAIN ids[v] = {} /\ DOMAIN prefixes[v] = {}
  BY DEF Init, Unloaded, NoOwner
<1>3. Suffix(refs, config.refs) /\ Suffix(hints, config.hints)
  BY <1>1 DEF Suffix
<1>4. Passed(refs, config.refs) = {} /\ Passed(hints, config.hints) = {}
  BY <1>1 DEF Passed
<1>5. Accepted = {}
  BY <1>4 DEF Accepted
<1>6. Sourced
  BY <1>2 DEF Sourced
<1>7. Reading
  BY <1>1, <1>3 DEF Reading
<1>8. PassedStands
  BY <1>4, <1>5 DEF PassedStands
<1>9. Settled
  BY <1>1, <1>2, <1>5 DEF Settled
<1> QED
  BY <1>6, <1>7, <1>8, <1>9 DEF LoadInv

\* Steps that move neither list nor registry.
LEMMA OutcomeKeepsLoads ==
    ASSUME LoadInv, UNCHANGED <<refs, hints, config, registry, loaded>>,
           Settled'
    PROVE  LoadInv'
<1>1. Owned' /\ Sourced'
  BY DEF LoadInv, Owned, Registry, Flat, Unshadowed, Written, Sourced, registry
<1>2. Reading'
  BY DEF LoadInv, Reading
<1>3. PassedStands'
  BY DEF LoadInv, PassedStands, Accepted
<1> QED
  BY <1>1, <1>2, <1>3 DEF LoadInv


\* What one more entry passed adds to what is accepted.
LEMMA OneMoreRef ==
    ASSUME Reading, PassedStands, refs \in Seq(Entries), config.refs \in Seq(Entries), refs # <<>>,
           NEW m, m = Head(refs).manifest, UNCHANGED <<hints, config>>, refs' = Tail(refs)
    PROVE  /\ Accepted' = Accepted \cup {m}
           /\ Head(refs) \in Listed /\ Accepted \subseteq {e.manifest : e \in Listed}
           /\ Passed(hints, config.hints) = {}
           /\ \A j \in Passed(refs, config.refs)' :
                  j \in Passed(refs, config.refs) \/ config.refs[j] = Head(refs)
           /\ Suffix(refs, config.refs)'
           /\ Len(refs) \in Nat /\ Len(refs') = Len(refs) - 1
<1>1. hints = config.hints /\ Suffix(refs, config.refs)
  BY DEF Reading
<1>2. Passed(hints, config.hints) = {}
  BY <1>1 DEF Passed, Suffix, Reading
<1>3. PICK k : k = Len(config.refs) - Len(refs) + 1
  OBVIOUS
<1>4. /\ Suffix(Tail(refs), config.refs) /\ Len(Tail(refs)) = Len(refs) - 1
      /\ Head(refs) = config.refs[k] /\ k \in DOMAIN config.refs
      /\ Passed(Tail(refs), config.refs) = Passed(refs, config.refs) \cup {k}
  BY <1>1, <1>3, TailIsSuffix
<1>5. Passed(refs, config.refs)' = Passed(refs, config.refs) \cup {k}
  BY <1>4 DEF Passed
<1>6. Passed(hints, config.hints)' = {}
  BY <1>2 DEF Passed
<1>7. Accepted' = Accepted \cup {m}
  BY <1>2, <1>4, <1>5, <1>6 DEF Accepted
<1>8. Passed(refs, config.refs) \subseteq DOMAIN config.refs
  BY <1>1 DEF Passed, Suffix
<1>9. Head(refs) \in Listed /\ Accepted \subseteq {e.manifest : e \in Listed}
  BY <1>2, <1>4, <1>8 DEF Listed, Accepted
<1>10. Suffix(refs, config.refs)'
  BY <1>4 DEF Suffix
<1> QED
  BY <1>2, <1>4, <1>5, <1>7, <1>9, <1>10

LEMMA OneMoreHint ==
    ASSUME Reading, PassedStands, hints \in Seq(Hints), config.hints \in Seq(Hints), hints # <<>>,
           refs = <<>>, config.refs \in Seq(Entries),
           UNCHANGED <<refs, config>>, hints' = Tail(hints)
    PROVE  /\ Accepted' = Accepted \cup {Head(hints)}
           /\ Head(hints) \in Hinted /\ Accepted \subseteq {e.manifest : e \in Listed} \cup Hinted
           /\ \A j \in Passed(hints, config.hints)' :
                  j \in Passed(hints, config.hints) \/ config.hints[j] = Head(hints)
           /\ Suffix(hints, config.hints)'
           /\ Len(hints) \in Nat /\ Len(hints') = Len(hints) - 1
<1>1. Suffix(hints, config.hints) /\ Suffix(refs, config.refs)
  BY DEF Reading
<1>2. PICK k : k = Len(config.hints) - Len(hints) + 1
  OBVIOUS
<1>3. /\ Suffix(Tail(hints), config.hints) /\ Len(Tail(hints)) = Len(hints) - 1
      /\ Head(hints) = config.hints[k] /\ k \in DOMAIN config.hints
      /\ Passed(Tail(hints), config.hints) = Passed(hints, config.hints) \cup {k}
  BY <1>1, <1>2, TailIsSuffix
<1>4. Passed(hints, config.hints)' = Passed(hints, config.hints) \cup {k}
  BY <1>3 DEF Passed
<1>5. Passed(refs, config.refs)' = Passed(refs, config.refs)
  BY DEF Passed
<1>6. Accepted' = Accepted \cup {Head(hints)}
  BY <1>3, <1>4, <1>5 DEF Accepted
<1>7. Passed(refs, config.refs) \subseteq DOMAIN config.refs
  BY <1>1 DEF Passed, Suffix
<1>8. Passed(hints, config.hints) \subseteq DOMAIN config.hints
  BY <1>1 DEF Passed, Suffix
<1>9. Head(hints) \in Hinted /\ Accepted \subseteq {e.manifest : e \in Listed} \cup Hinted
  BY <1>3, <1>7, <1>8 DEF Listed, Hinted, Accepted
<1>10. Suffix(hints, config.hints)'
  BY <1>3 DEF Suffix
<1> QED
  BY <1>3, <1>4, <1>6, <1>9, <1>10

\* One more is loaded as one fewer is left, of either list.
LEMMA OneFewerLeft ==
    \A a, b, c, d \in Nat : /\ ((a - b) + (c - d)) + 1 = (a - (b - 1)) + (c - d)
                           /\ ((a - b) + (c - d)) + 1 = (a - b) + (c - (d - 1))
OBVIOUS

\* One of a set that fits with all of it fits it still.
LEMMA OneMoreFits ==
    ASSUME NEW A, NEW m, \A n, o \in A : Compatible(n, o),
           m \in A \/ \A o \in A : Compatible(m, o)
    PROVE  \A n, o \in A \cup {m} : Compatible(n, o)
<1>1. Compatible(m, m)
  BY DEF Compatible
<1> QED
  BY <1>1, CompatibleSym

LEMMA LoadPluginLoads ==
    ASSUME PluginRegistryAssumption, LoadInv, Owned', LoadPlugin
    PROVE  LoadInv'
<1>1. /\ config.refs \in Seq(Entries) /\ config.hints \in Seq(Hints)
      /\ refs \in Seq(Entries) /\ hints \in Seq(Hints)
      /\ Reading /\ PassedStands /\ Owned /\ Sourced /\ Settled
  BY PluginRegistryAssumption DEF PluginRegistryAssumption, LoadInv, Reading, Owned, Registry
<1>2. /\ refs # <<>> /\ outcome = "loading" /\ Head(refs).loads = "yes" /\ UNCHANGED <<hints, config>>
      /\ ~Refuses(Head(refs).manifest, {}) /\ Register(Head(refs).manifest)
  BY DEF LoadPlugin
<1>3. PICK m \in Manifests : m = Head(refs).manifest
  BY <1>1, <1>2, PluginRegistryAssumption DEF PluginRegistryAssumption
<1>4. Accepted = {registered[n] : n \in DOMAIN registered}
  BY <1>1, <1>2 DEF Settled
<1>5. /\ m.plain /\ (m \in Accepted \/ RulesKept(m, {}))
      /\ (m \in Accepted \/ \A o \in Accepted : Compatible(m, o))
      /\ {registered'[n] : n \in DOMAIN registered'} = Accepted \cup {m}
      /\ Sourced'
  BY <1>1, <1>2, <1>3, <1>4, AcceptedFits
<1>6. CASE FieldOf(m.type) = Head(refs).field
  <2>1. /\ loaded' = Append(loaded, m) /\ refs' = Tail(refs) /\ outcome' = outcome
    BY <1>3, <1>6 DEF LoadPlugin
  <2>2. /\ Accepted' = Accepted \cup {m}
        /\ Passed(hints, config.hints) = {}
        /\ \A j \in Passed(refs, config.refs)' :
               j \in Passed(refs, config.refs) \/ config.refs[j] = Head(refs)
        /\ Suffix(refs, config.refs)'
        /\ Len(refs) \in Nat /\ Len(refs') = Len(refs) - 1
    BY <1>1, <1>2, <1>3, <2>1, OneMoreRef
  <2>3. RulesKept(m, {})
    <3>1. CASE m \in Accepted
      <4>1. PICK j \in Passed(refs, config.refs) : m = config.refs[j].manifest
        BY <2>2, <3>1 DEF Accepted
      <4> QED
        BY <1>1, <4>1 DEF PassedStands, RefStands
    <3> QED
      BY <1>5, <3>1
  <2>4. RefStands(Head(refs))
    BY <1>2, <1>3, <1>5, <1>6, <2>3 DEF RefStands
  <2>5. \A j \in Passed(refs, config.refs)' : RefStands(config.refs[j])
    BY <1>1, <2>2, <2>4 DEF PassedStands
  <2>6. Passed(hints, config.hints)' = Passed(hints, config.hints)
    BY <1>2 DEF Passed
  <2>7. \A n, o \in Accepted' : Compatible(n, o)
    BY <1>1, <1>5, <2>2, OneMoreFits DEF PassedStands
  <2>8. PassedStands'
    BY <1>2, <2>2, <2>5, <2>6, <2>7 DEF PassedStands
  <2>9. Settled'
    BY <1>1, <1>2, <1>5, <2>1, <2>2 DEF Settled
  <2>10. loaded' \in Seq(Manifests) /\ Len(loaded') = Len(loaded) + 1
    <3>1. loaded \in Seq(Manifests)
      BY <1>1 DEF Reading
    <3> QED
      BY <2>1, <3>1
  <2>11. Suffix(hints, config.hints)'
    BY <1>1, <1>2 DEF Reading, Suffix
  <2>12. /\ Len(config.refs) \in Nat /\ Len(config.hints) \in Nat /\ Len(hints) \in Nat
    BY <1>1
  <2>13. Len(loaded') = (Len(config.refs) - Len(refs')) + (Len(config.hints) - Len(hints))
    <3>1. Len(loaded) = (Len(config.refs) - Len(refs)) + (Len(config.hints) - Len(hints))
      BY <1>1 DEF Reading
    <3>2. Len(refs) \in Nat /\ Len(refs') = Len(refs) - 1
      BY <2>2
    <3>3. Len(loaded') = Len(loaded) + 1
      BY <2>10
    <3>4. PICK a \in Nat, b \in Nat, c \in Nat, d \in Nat :
            a = Len(config.refs) /\ b = Len(refs) /\ c = Len(config.hints) /\ d = Len(hints)
      BY <2>12, <3>2
    <3>5. ((a - b) + (c - d)) + 1 = (a - (b - 1)) + (c - d)
      BY OneFewerLeft
    <3> QED
      BY <3>1, <3>2, <3>3, <3>4, <3>5, Zenon
  <2>14. Reading'
    BY <1>1, <1>2, <2>2, <2>10, <2>11, <2>13 DEF Reading
  <2> QED
    BY <1>5, <2>8, <2>9, <2>14 DEF LoadInv
<1>7. CASE FieldOf(m.type) # Head(refs).field
  <2>1. /\ outcome' = "plugin-error" /\ UNCHANGED <<refs, loaded>>
    BY <1>3, <1>7 DEF LoadPlugin
  <2>2. Head(refs) \in Listed
    BY <1>1, <1>2, TailIsSuffix DEF Listed, Reading
  <2>3. ~AllCompatible
    BY <1>3, <1>7, <2>2 DEF AllCompatible, RefStands
  <2>4. (~AllCompatible)'
    BY <1>2, <2>3 DEF AllCompatible, Listed, Hinted
  <2>5. Settled'
    BY <2>1, <2>4 DEF Settled
  <2>6. PassedStands'
    BY <1>1, <1>2, <2>1 DEF PassedStands, Accepted
  <2>7. Reading'
    BY <1>1, <1>2, <2>1 DEF Reading, Suffix
  <2> QED
    BY <1>5, <2>5, <2>6, <2>7 DEF LoadInv
<1> QED
  BY <1>6, <1>7


LEMMA LoadHintLoads ==
    ASSUME PluginRegistryAssumption, LoadInv, Owned', LoadHint
    PROVE  LoadInv'
<1>1. /\ config.refs \in Seq(Entries) /\ config.hints \in Seq(Hints)
      /\ refs \in Seq(Entries) /\ hints \in Seq(Hints)
      /\ Reading /\ PassedStands /\ Owned /\ Sourced /\ Settled
  BY PluginRegistryAssumption DEF PluginRegistryAssumption, LoadInv, Reading, Owned, Registry
<1>2. /\ refs = <<>> /\ hints # <<>> /\ outcome = "loading" /\ UNCHANGED <<refs, config, outcome>>
      /\ ~Refuses(Head(hints), {HintNamespace}) /\ Register(Head(hints))
      /\ hints' = Tail(hints) /\ loaded' = Append(loaded, Head(hints))
  BY DEF LoadHint
<1>3. PICK m \in Manifests : m = Head(hints)
  BY <1>1, <1>2, PluginRegistryAssumption DEF PluginRegistryAssumption
<1>4. Accepted = {registered[n] : n \in DOMAIN registered}
  BY <1>1, <1>2 DEF Settled
<1>5. /\ m.plain /\ (m \in Accepted \/ RulesKept(m, {HintNamespace}))
      /\ (m \in Accepted \/ \A o \in Accepted : Compatible(m, o))
      /\ {registered'[n] : n \in DOMAIN registered'} = Accepted \cup {m}
      /\ Sourced'
  BY <1>1, <1>2, <1>3, <1>4, AcceptedFits
<1>6. /\ Accepted' = Accepted \cup {m}
      /\ \A j \in Passed(hints, config.hints)' :
             j \in Passed(hints, config.hints) \/ config.hints[j] = m
      /\ Suffix(hints, config.hints)'
      /\ Len(hints) \in Nat /\ Len(hints') = Len(hints) - 1
  BY <1>1, <1>2, <1>3, OneMoreHint
<1>7. RulesKept(m, {HintNamespace})
  <2>1. CASE m \in Accepted
    <3>1. CASE \E j \in Passed(refs, config.refs) : m = config.refs[j].manifest
      BY <1>1, <3>1, HintRulesAreWider DEF PassedStands, RefStands
    <3>2. CASE \E j \in Passed(hints, config.hints) : m = config.hints[j]
      BY <1>1, <3>2 DEF PassedStands, HintStands
    <3> QED
      BY <2>1, <3>1, <3>2 DEF Accepted
  <2> QED
    BY <1>5, <2>1
<1>8. \A j \in Passed(hints, config.hints)' : HintStands(config.hints[j])
  BY <1>1, <1>5, <1>6, <1>7 DEF PassedStands, HintStands
<1>9. Passed(refs, config.refs)' = Passed(refs, config.refs)
  BY <1>2 DEF Passed
<1>10. \A n, o \in Accepted' : Compatible(n, o)
  BY <1>1, <1>5, <1>6, OneMoreFits DEF PassedStands
<1>11. PassedStands'
  BY <1>1, <1>2, <1>8, <1>9, <1>10 DEF PassedStands
<1>12. Settled'
  BY <1>1, <1>2, <1>5, <1>6 DEF Settled
<1>13. loaded' \in Seq(Manifests) /\ Len(loaded') = Len(loaded) + 1
  <2>1. loaded \in Seq(Manifests)
    BY <1>1 DEF Reading
  <2> QED
    BY <1>2, <1>3, <2>1
<1>14. Len(config.refs) \in Nat /\ Len(config.hints) \in Nat /\ Len(refs) \in Nat
  BY <1>1
<1>15. Len(loaded') = (Len(config.refs) - Len(refs)) + (Len(config.hints) - Len(hints'))
  <2>1. Len(loaded) = (Len(config.refs) - Len(refs)) + (Len(config.hints) - Len(hints))
    BY <1>1 DEF Reading
  <2>2. Len(hints) \in Nat /\ Len(hints') = Len(hints) - 1
    BY <1>6
  <2>3. Len(loaded') = Len(loaded) + 1
    BY <1>13
  <2>4. PICK a \in Nat, b \in Nat, c \in Nat, d \in Nat :
          a = Len(config.refs) /\ b = Len(refs) /\ c = Len(config.hints) /\ d = Len(hints)
    BY <1>14, <2>2
  <2>5. ((a - b) + (c - d)) + 1 = (a - b) + (c - (d - 1))
    BY OneFewerLeft
  <2> QED
    BY <2>1, <2>2, <2>3, <2>4, <2>5, Zenon
<1>16. Suffix(refs, config.refs)'
  BY <1>1, <1>2 DEF Reading, Suffix
<1>17. Reading'
  BY <1>1, <1>2, <1>6, <1>13, <1>15, <1>16 DEF Reading
<1> QED
  BY <1>5, <1>11, <1>12, <1>17 DEF LoadInv

\* The steps that refuse, and those that only move on.
LEMMA OtherStepsLoad ==
    ASSUME PluginRegistryAssumption, LoadInv,
           Resolve \/ ImportFails \/ RegisterRefused \/ HintRefused \/ Finish
    PROVE  LoadInv'
<1>1. /\ config.refs \in Seq(Entries) /\ config.hints \in Seq(Hints)
      /\ refs \in Seq(Entries) /\ hints \in Seq(Hints)
      /\ Reading /\ PassedStands /\ Owned /\ Sourced /\ Settled
  BY PluginRegistryAssumption DEF PluginRegistryAssumption, LoadInv, Reading, Owned, Registry
<1>2. UNCHANGED <<refs, hints, config, registry, loaded>>
  BY DEF Resolve, ImportFails, RegisterRefused, HintRefused, Finish
<1>3. Accepted' = Accepted /\ (AllCompatible' <=> AllCompatible)
      /\ {registered'[n] : n \in DOMAIN registered'} = {registered[n] : n \in DOMAIN registered}
  BY <1>2 DEF Accepted, AllCompatible, Listed, Hinted, registry
<1>4. \A i \in DOMAIN refs : refs[i] \in Listed
  <2> SUFFICES ASSUME NEW i \in DOMAIN refs PROVE refs[i] \in Listed
    OBVIOUS
  <2>1. /\ refs[i] = config.refs[Len(config.refs) - Len(refs) + i]
        /\ Len(config.refs) - Len(refs) + i \in 1..Len(config.refs)
    <3>1. Suffix(refs, config.refs)
      BY <1>1 DEF Reading
    <3>2. Len(refs) \in Nat /\ Len(config.refs) \in Nat /\ i \in 1..Len(refs)
      BY <1>1
    <3>3. refs[i] = config.refs[Len(config.refs) - Len(refs) + i] /\ Len(refs) <= Len(config.refs)
      BY <3>1, <3>2 DEF Suffix
    <3> QED
      BY <3>2, <3>3
  <2> QED
    BY <1>1, <2>1 DEF Listed
<1>5. \A i \in DOMAIN hints : hints[i] \in Hinted
  <2> SUFFICES ASSUME NEW i \in DOMAIN hints PROVE hints[i] \in Hinted
    OBVIOUS
  <2>1. /\ hints[i] = config.hints[Len(config.hints) - Len(hints) + i]
        /\ Len(config.hints) - Len(hints) + i \in 1..Len(config.hints)
    <3>1. Suffix(hints, config.hints)
      BY <1>1 DEF Reading
    <3>2. Len(hints) \in Nat /\ Len(config.hints) \in Nat /\ i \in 1..Len(hints)
      BY <1>1
    <3>3. hints[i] = config.hints[Len(config.hints) - Len(hints) + i] /\ Len(hints) <= Len(config.hints)
      BY <3>1, <3>2 DEF Suffix
    <3> QED
      BY <3>2, <3>3
  <2> QED
    BY <1>1, <2>1 DEF Hinted
<1>6. /\ refs # <<>> => Head(refs) \in Listed
      /\ hints # <<>> => Head(hints) \in Hinted
  BY <1>1, <1>4, <1>5
<1>7. Accepted \subseteq {e.manifest : e \in Listed} \cup Hinted
  <2>1. Passed(refs, config.refs) \subseteq DOMAIN config.refs
    BY <1>1 DEF Passed, Suffix, Reading
  <2>2. Passed(hints, config.hints) \subseteq DOMAIN config.hints
    BY <1>1 DEF Passed, Suffix, Reading
  <2> QED
    BY <2>1, <2>2 DEF Accepted, Listed, Hinted
<1>8. CASE Resolve
  <2>1. outcome = "resolving"
    BY <1>8 DEF Resolve
  <2>2. CASE outcome' = "loading"
    BY <1>1, <1>3, <2>1, <2>2, <1>2, OutcomeKeepsLoads DEF Settled
  <2>3. CASE \E i \in DOMAIN refs : refs[i].loads = "unresolvable"
    <3>1. ~AllCompatible
      BY <1>4, <2>3 DEF AllCompatible, RefStands
    <3>2. outcome' = "config-error"
      BY <1>8, <2>3 DEF Resolve
    <3>3. Settled'
      BY <1>3, <3>1, <3>2 DEF Settled
    <3> QED
      BY <1>2, <3>3, OutcomeKeepsLoads
  <2> QED
    BY <1>8, <2>2, <2>3 DEF Resolve
<1>9. CASE ImportFails
  <2>1. refs # <<>> /\ Head(refs).loads # "yes" /\ outcome' = "plugin-error"
    BY <1>9 DEF ImportFails
  <2>2. ~AllCompatible
    BY <1>6, <2>1 DEF AllCompatible, RefStands
  <2>3. Settled'
    BY <1>3, <2>1, <2>2 DEF Settled
  <2> QED
    BY <1>2, <2>3, OutcomeKeepsLoads
<1>10. CASE RegisterRefused
  <2>1. /\ refs # <<>> /\ outcome = "loading" /\ outcome' = "plugin-error"
        /\ Refuses(Head(refs).manifest, {})
    BY <1>10 DEF RegisterRefused
  <2>2. \/ ~Head(refs).manifest.plain \/ ~RulesKept(Head(refs).manifest, {})
        \/ \E n \in DOMAIN registered : ~Compatible(Head(refs).manifest, registered[n])
    BY <1>1, <2>1, RefusedMisfits
  <2>3. Accepted = {registered[n] : n \in DOMAIN registered}
    BY <1>1, <2>1 DEF Settled
  <2>4. ~AllCompatible
    BY <1>6, <1>7, <2>1, <2>2, <2>3 DEF AllCompatible, RefStands
  <2>5. Settled'
    BY <1>3, <2>1, <2>4 DEF Settled
  <2> QED
    BY <1>2, <2>5, OutcomeKeepsLoads
<1>11. CASE HintRefused
  <2>1. /\ hints # <<>> /\ outcome = "loading" /\ outcome' = "config-error"
        /\ Refuses(Head(hints), {HintNamespace})
    BY <1>11 DEF HintRefused
  <2>2. \/ ~Head(hints).plain \/ ~RulesKept(Head(hints), {HintNamespace})
        \/ \E n \in DOMAIN registered : ~Compatible(Head(hints), registered[n])
    BY <1>1, <2>1, RefusedMisfits
  <2>3. Accepted = {registered[n] : n \in DOMAIN registered}
    BY <1>1, <2>1 DEF Settled
  <2>4. ~AllCompatible
    BY <1>6, <1>7, <2>1, <2>2, <2>3 DEF AllCompatible, HintStands
  <2>5. Settled'
    BY <1>3, <2>1, <2>4 DEF Settled
  <2> QED
    BY <1>2, <2>5, OutcomeKeepsLoads
<1>12. CASE Finish
  <2>1. outcome = "loading" /\ refs' = <<>> /\ hints' = <<>> /\ outcome' = "loaded"
    BY <1>2, <1>12 DEF Finish
  <2>2. Settled'
    BY <1>1, <1>3, <2>1 DEF Settled
  <2> QED
    BY <1>2, <2>2, OutcomeKeepsLoads
<1> QED
  BY <1>8, <1>9, <1>10, <1>11, <1>12

LEMMA LoadInvHolds ==
    ASSUME PluginRegistryAssumption
    PROVE  Spec => []LoadInv
<1>1. Spec => []Owned
  BY OwnedIsInvariant
<1>2. Init /\ Owned => LoadInv
  BY InitLoads
<1>3. LoadInv /\ Owned' /\ [Next]_vars => LoadInv'
  <2> SUFFICES ASSUME LoadInv, Owned', [Next]_vars PROVE LoadInv'
    OBVIOUS
  <2>1. CASE UNCHANGED vars
    <3>1. /\ Accepted' = Accepted /\ (AllCompatible' <=> AllCompatible)
          /\ {registered'[n] : n \in DOMAIN registered'} = {registered[n] : n \in DOMAIN registered}
      BY <2>1 DEF vars, registry, Accepted, AllCompatible, Listed, Hinted
    <3>2. Settled'
      BY <2>1, <3>1 DEF vars, LoadInv, Settled
    <3> QED
      BY <2>1, <3>2, OutcomeKeepsLoads DEF vars
  <2> QED
    BY <2>1, LoadPluginLoads, LoadHintLoads, OtherStepsLoad DEF Next
<1> QED
  BY <1>1, <1>2, <1>3, PTL DEF Spec

\* For every config, whatever order it lists its plugins in: it loads exactly when each plugin stands
\* on its own and no two claim one name, and then its lists hold each entry as often as it is listed
\* (plugin-loader.ts, registry.ts validateConflicts).
THEOREM LoadedIffCompatibleHolds ==
    ASSUME PluginRegistryAssumption
    PROVE  Spec => []LoadedIffCompatible
<1>1. Spec => []LoadInv
  BY LoadInvHolds
<1>2. LoadInv => LoadedIffCompatible
  <2> SUFFICES ASSUME LoadInv PROVE LoadedIffCompatible
    OBVIOUS
  <2>1. /\ config.refs \in Seq(Entries) /\ config.hints \in Seq(Hints)
        /\ refs \in Seq(Entries) /\ hints \in Seq(Hints)
        /\ Reading /\ PassedStands /\ Owned /\ Settled
    BY PluginRegistryAssumption DEF PluginRegistryAssumption, LoadInv, Reading, Owned, Registry
  <2>2. TypeOK
    <3>1. \E i \in 0..Len(config.refs) : refs = SubSeq(config.refs, i + 1, Len(config.refs))
      BY <2>1, SuffixIsSubSeq DEF Reading
    <3>2. \E i \in 0..Len(config.hints) : hints = SubSeq(config.hints, i + 1, Len(config.hints))
      BY <2>1, SuffixIsSubSeq DEF Reading
    <3> QED
      BY <2>1, <3>1, <3>2 DEF TypeOK, Settled, Owned, Registry
  <2>3. ASSUME outcome = "loaded"
        PROVE  /\ AllCompatible
               /\ Len(loaded) = Len(config.refs) + Len(config.hints)
               /\ {e.manifest : e \in Listed} \cup Hinted = {registered[n] : n \in DOMAIN registered}
    <3>1. refs = <<>> /\ hints = <<>>
      BY <2>1, <2>3 DEF Settled
    <3>2. Len(refs) = 0 /\ Len(hints) = 0 /\ Len(config.refs) \in Nat /\ Len(config.hints) \in Nat
      BY <2>1, <3>1
    <3>3. Passed(refs, config.refs) = DOMAIN config.refs
      BY <2>1, <3>2 DEF Passed
    <3>4. Passed(hints, config.hints) = DOMAIN config.hints
      BY <2>1, <3>2 DEF Passed
    <3>5. Accepted = {e.manifest : e \in Listed} \cup Hinted
      BY <3>3, <3>4 DEF Accepted, Listed, Hinted
    <3>6. AllCompatible
      <4>1. \A e \in Listed : RefStands(e)
        BY <2>1, <3>3 DEF PassedStands, Listed
      <4>2. \A h \in Hinted : HintStands(h)
        BY <2>1, <3>4 DEF PassedStands, Hinted
      <4> QED
        BY <2>1, <3>5, <4>1, <4>2 DEF PassedStands, AllCompatible
    <3>7. Len(loaded) = Len(config.refs) + Len(config.hints)
      BY <2>1, <3>2 DEF Reading
    <3>8. Accepted = {registered[n] : n \in DOMAIN registered}
      BY <2>1, <2>3 DEF Settled
    <3> QED
      BY <3>5, <3>6, <3>7, <3>8
  <2>4. outcome \in {"config-error", "plugin-error"} => ~AllCompatible
    BY <2>1 DEF Settled
  <2> QED
    BY <2>2, <2>3, <2>4 DEF LoadedIffCompatible, AllCompatible, RefStands, HintStands
<1> QED
  BY <1>1, <1>2, PTL

-----------------------------------------------------------------------------
(* The set-up around the registry *)

\* A set-up's config is one a config file can be, and each of its steps is one of the registry's or
\* leaves the registry alone: what is proved of the registry holds of a scan.
THEOREM ScanLoadsTheRegistry == ScanSpec => Spec
<1>1. PipelineInit => Init
  BY ConfigsAssumption DEF PipelineInit, SetupInit, Init
<1>2. [ScanNext]_<<setupVars, pipeline>> => [Next]_vars
  BY DEF ScanNext, SetupNext, setupVars, ClimbRoot, FindConfig, LoadConfig, Loading, PluginsLoaded,
         Detecting, Detected, ResolveDeclared, DetectComponents, ReadPackages
<1> QED
  BY <1>1, <1>2, PTL DEF ScanSpec, Spec

\* Where the climb is: what it has met so far, and why it has not ended before.
Climbed(upto, outermost, failure) ==
    /\ outermost \in 0..upto /\ failure \in 0..upto
    /\ \A i \in 1..upto : ws.chain[i].marker # "none" => i <= outermost
    /\ outermost # 0 => ws.chain[outermost].marker # "none"
    /\ failure = 0 => \A i \in 1..upto : ws.chain[i].fault = "none"
    /\ failure # 0 => /\ ws.chain[failure].fault # "none"
                      /\ \A i \in 1..failure - 1 : ws.chain[i].fault = "none"

ClimbEnded ==
    /\ RepositoryReached(climb.directory)
    /\ Climbed(climb.directory, climb.outermost, climb.failure)
FailedBelow == climb.failure # 0 /\ climb.failure <= climb.outermost

ClimbInv ==
    /\ ws \in Workspaces
    /\ climb.directory \in DOMAIN ws.chain
    /\ \A i \in 1..climb.directory - 1 : ~RepositoryReached(i)
    /\ climb.outermost \in 0..climb.directory /\ climb.failure \in 0..climb.directory
    /\ stage = "root" => Climbed(climb.directory - 1, climb.outermost, climb.failure)
    /\ stage \notin {"root", "refused"} => ClimbEnded /\ ~FailedBelow
    /\ refusal.part = "root" =>
           /\ ClimbEnded /\ FailedBelow
           /\ (refusal.code = "config-error") = (ws.chain[climb.failure].fault = "malformed")

Stage ==
    /\ stage \in {"root", "config", "load", "plugins", "managers", "components", "packages", "ready",
                  "refused"}
    /\ refusal.code \in {"none", "config-error", "runtime-error", "plugin-error"}
    /\ (refusal # NotRefused) = (stage = "refused")

LEMMA ChainFacts ==
    ASSUME ws \in Workspaces
    PROVE  /\ Len(ws.chain) \in Nat \ {0}
           /\ DOMAIN ws.chain = 1..Len(ws.chain)
BY WorkspacesAssumption

\* Goes and Refuse say where the set-up is, and with which code it ended.
LEMMA StageMoves ==
    ASSUME Stage, stage # "refused",
           \/ \E next : /\ next \in {"root", "config", "load", "plugins", "managers", "components",
                                     "packages", "ready"}
                        /\ Goes(next)
           \/ \E code : /\ code \in {"config-error", "runtime-error", "plugin-error"}
                        /\ Refuse(code)
           \/ UNCHANGED <<stage, refusal>>
    PROVE  Stage'
BY DEF Stage, Goes, Refuse, NotRefused

LEMMA SetupStage ==
    ASSUME Stage, [SetupNext]_setupVars
    PROVE  Stage'
<1>1. CASE UNCHANGED setupVars \/ Loading \/ Detecting
  <2>1. stage' = stage /\ refusal' = refusal
    BY <1>1 DEF setupVars, setup, Loading, Detecting
  <2> QED
    BY <2>1 DEF Stage
<1>2. CASE ClimbRoot
  <2>1. \/ Refuse("config-error") \/ Refuse("runtime-error") \/ Goes("config") \/ Goes("root")
    BY <1>2 DEF ClimbRoot
  <2> QED
    BY <1>2, <2>1, StageMoves DEF ClimbRoot
<1>3. CASE FindConfig
  <2>1. Goes("plugins") \/ Refuse("runtime-error") \/ Goes("load")
    BY <1>3 DEF FindConfig
  <2> QED
    BY <1>3, <2>1, StageMoves DEF FindConfig
<1>4. CASE LoadConfig
  <2>1. Refuse("runtime-error") \/ Refuse("config-error") \/ Goes("plugins")
    BY <1>4 DEF LoadConfig
  <2> QED
    BY <1>4, <2>1, StageMoves DEF LoadConfig
<1>5. CASE PluginsLoaded
  <2>1. \/ outcome \in {"config-error", "plugin-error"} /\ Refuse(outcome)
        \/ Goes("managers") \/ Refuse("config-error")
    BY <1>5 DEF PluginsLoaded
  <2> QED
    BY <1>5, <2>1, StageMoves DEF PluginsLoaded
<1>6. CASE Detected
  <2>1. Refuse("runtime-error") \/ Goes("components")
    BY <1>6 DEF Detected
  <2> QED
    BY <1>6, <2>1, StageMoves DEF Detected
<1>7. CASE ResolveDeclared
  <2>1. Refuse("config-error") \/ Goes("packages")
    BY <1>7 DEF ResolveDeclared
  <2> QED
    BY <1>7, <2>1, StageMoves DEF ResolveDeclared
<1>8. CASE DetectComponents
  <2>1. Refuse("runtime-error") \/ Refuse("config-error") \/ Goes("packages")
    BY <1>8 DEF DetectComponents
  <2> QED
    BY <1>8, <2>1, StageMoves DEF DetectComponents
<1>9. CASE ReadPackages
  <2>1. Refuse("config-error") \/ Goes("ready")
    BY <1>9 DEF ReadPackages
  <2> QED
    BY <1>9, <2>1, StageMoves DEF ReadPackages
<1> QED
  BY <1>1, <1>2, <1>3, <1>4, <1>5, <1>6, <1>7, <1>8, <1>9 DEF SetupNext

\* One step up: what the directory says is counted, and the climb ends at a repository or the top.
LEMMA ClimbKeeps ==
    ASSUME Stage, ClimbInv, ClimbRoot
    PROVE  ClimbInv'
<1>1. PICK i, outermost, failure :
        /\ i = climb.directory
        /\ outermost = IF ws.chain[i].marker # "none" THEN i ELSE climb.outermost
        /\ failure = IF climb.failure = 0 /\ ws.chain[i].fault # "none" THEN i ELSE climb.failure
        /\ climb' = [directory |-> IF RepositoryReached(i) THEN i ELSE i + 1,
                     outermost |-> outermost, failure |-> failure]
        /\ IF RepositoryReached(i) /\ failure # 0 /\ failure <= outermost
           THEN Refuse(IF ws.chain[failure].fault = "malformed" THEN "config-error" ELSE "runtime-error")
           ELSE Goes(IF RepositoryReached(i) THEN "config" ELSE "root")
  <2>1. PICK i, outermost, failure :
          /\ i = climb.directory
          /\ outermost = IF ws.chain[i].marker # "none" THEN i ELSE climb.outermost
          /\ failure = IF climb.failure = 0 /\ ws.chain[i].fault # "none" THEN i ELSE climb.failure
    OBVIOUS
  <2> QED
    BY <2>1, Zenon DEF ClimbRoot, Counts
<1>2. stage = "root" /\ ws' = ws /\ refusal.part # "root"
  BY DEF ClimbRoot, Stage, NotRefused
<1>3. i \in 1..Len(ws.chain) /\ Len(ws.chain) \in Nat
  BY <1>1, ChainFacts DEF ClimbInv
<1>4. Climbed(i - 1, climb.outermost, climb.failure)
  BY <1>1, <1>2 DEF ClimbInv
<1>5. Climbed(i, outermost, failure)
  <2>1. outermost \in 0..i /\ failure \in 0..i
    BY <1>1, <1>3, <1>4 DEF Climbed
  <2>2. \A j \in 1..i : ws.chain[j].marker # "none" => j <= outermost
    BY <1>1, <1>3, <1>4 DEF Climbed
  <2>3. outermost # 0 => ws.chain[outermost].marker # "none"
    BY <1>1, <1>4 DEF Climbed
  <2>4. failure = 0 => \A j \in 1..i : ws.chain[j].fault = "none"
    BY <1>1, <1>3, <1>4 DEF Climbed
  <2>5. failure # 0 => /\ ws.chain[failure].fault # "none"
                      /\ \A j \in 1..failure - 1 : ws.chain[j].fault = "none"
    BY <1>1, <1>3, <1>4 DEF Climbed
  <2> QED
    BY <2>1, <2>2, <2>3, <2>4, <2>5 DEF Climbed
<1>6. climb'.outermost = outermost /\ climb'.failure = failure
  BY <1>1
<1>7. CASE RepositoryReached(climb.directory)
  <2>1. climb'.directory = i
    BY <1>1, <1>7
  <2>2. Climbed(climb.directory, climb.outermost, climb.failure)'
    BY <1>2, <1>5, <1>6, <2>1 DEF Climbed
  <2>3. RepositoryReached(climb.directory)' /\ \A j \in 1..i - 1 : ~RepositoryReached(j)'
    BY <1>1, <1>2, <1>7, <2>1 DEF RepositoryReached, ClimbInv
  <2>4. CASE failure # 0 /\ failure <= outermost
    <3>1. /\ stage' = "refused" /\ refusal'.part = "root"
          /\ refusal'.code = (IF ws.chain[failure].fault = "malformed" THEN "config-error" ELSE "runtime-error")
      BY <1>1, <1>2, <1>7, <2>4 DEF Refuse
    <3>2. (refusal.code = "config-error")' = (ws.chain[climb.failure].fault = "malformed")'
      BY <1>2, <1>6, <3>1
    <3>3. ClimbEnded' /\ FailedBelow'
      BY <1>6, <2>1, <2>2, <2>3, <2>4 DEF ClimbEnded, FailedBelow
    <3>4. climb'.outermost \in 0..climb'.directory /\ climb'.failure \in 0..climb'.directory
      BY <1>5, <1>6, <2>1 DEF Climbed
    <3>5. ws' \in Workspaces /\ climb'.directory \in DOMAIN ws'.chain
      BY <1>2, <1>3, <2>1, ChainFacts DEF ClimbInv
    <3> QED
      BY <1>2, <2>1, <2>3, <3>1, <3>2, <3>3, <3>4, <3>5 DEF ClimbInv
  <2>5. CASE ~(failure # 0 /\ failure <= outermost)
    <3>1. stage' = "config" /\ refusal' = refusal
      BY <1>1, <1>7, <2>5 DEF Goes
    <3>2. ClimbEnded' /\ ~FailedBelow'
      BY <1>6, <2>1, <2>2, <2>3, <2>5 DEF ClimbEnded, FailedBelow
    <3>3. climb'.outermost \in 0..climb'.directory /\ climb'.failure \in 0..climb'.directory
      BY <1>5, <1>6, <2>1 DEF Climbed
    <3>4. ws' \in Workspaces /\ climb'.directory \in DOMAIN ws'.chain
      BY <1>2, <1>3, <2>1, ChainFacts DEF ClimbInv
    <3> QED
      BY <1>2, <2>1, <2>3, <3>1, <3>2, <3>3, <3>4 DEF ClimbInv
  <2> QED
    BY <2>4, <2>5
<1>8. CASE ~RepositoryReached(climb.directory)
  <2>1. climb'.directory = i + 1 /\ stage' = "root" /\ refusal' = refusal
    BY <1>1, <1>8 DEF Goes
  <2>2. i + 1 \in 1..Len(ws.chain)
    BY <1>1, <1>3, <1>8 DEF RepositoryReached
  <2>3. \A j \in 1..i : ~RepositoryReached(j)'
    BY <1>1, <1>2, <1>3, <1>8 DEF RepositoryReached, ClimbInv
  <2>4. Climbed(climb.directory - 1, climb.outermost, climb.failure)'
    <3>1. climb'.directory - 1 = i
      BY <1>3, <2>1
    <3> QED
      BY <1>2, <1>5, <1>6, <3>1 DEF Climbed
  <2>5. climb'.directory - 1 = i
    BY <1>3, <2>1
  <2>6. climb'.outermost \in 0..climb'.directory /\ climb'.failure \in 0..climb'.directory
    BY <1>3, <1>5, <1>6, <2>1 DEF Climbed
  <2> QED
    BY <1>2, <2>1, <2>2, <2>3, <2>4, <2>5, <2>6, ChainFacts DEF ClimbInv
<1> QED
  BY <1>1, <1>7, <1>8

LEMMA SetupClimb ==
    ASSUME Stage, ClimbInv, [SetupNext]_setupVars
    PROVE  ClimbInv'
<1>1. CASE ClimbRoot
  BY <1>1, ClimbKeeps
<1>2. CASE \/ FindConfig \/ LoadConfig \/ Loading \/ PluginsLoaded \/ Detecting \/ Detected
           \/ ResolveDeclared \/ DetectComponents \/ ReadPackages \/ UNCHANGED setupVars
  <2>1. ws' = ws /\ climb' = climb
    BY <1>2 DEF setupVars, setup, FindConfig, LoadConfig, Loading, PluginsLoaded, Detecting, Settle,
       Detected, ResolveDeclared, DetectComponents, ReadPackages
  <2>2. \/ stage' = stage
        \/ stage \notin {"root", "refused"}
    BY <1>2 DEF setupVars, setup, FindConfig, LoadConfig, Loading, PluginsLoaded, Detecting, Settle,
       Detected, ResolveDeclared, DetectComponents, ReadPackages
  <2>3. stage' = stage \/ stage' # "root"
    BY <1>2 DEF setupVars, setup, FindConfig, LoadConfig, Loading, PluginsLoaded, Detecting, Settle,
       Detected, ResolveDeclared, DetectComponents, ReadPackages, Goes, Refuse
  <2>4. refusal' = refusal \/ (refusal'.part = stage /\ stage \notin {"root", "refused"})
    BY <1>2 DEF setupVars, setup, FindConfig, LoadConfig, Loading, PluginsLoaded, Detecting, Settle,
       Detected, ResolveDeclared, DetectComponents, ReadPackages, Goes, Refuse
  <2>5. /\ ClimbEnded' = ClimbEnded /\ FailedBelow' = FailedBelow
        /\ \A i : RepositoryReached(i)' = RepositoryReached(i)
    BY <2>1 DEF ClimbEnded, FailedBelow, Climbed, RepositoryReached
  <2> QED
    BY <2>1, <2>2, <2>3, <2>4, <2>5 DEF ClimbInv, Climbed
<1> QED
  BY <1>1, <1>2 DEF SetupNext

\* The least of some directories of the chain.
LEMMA FirstOfReads ==
    ASSUME NEW S, NEW n \in S, S \subseteq Nat, \A i \in S : n <= i
    PROVE  FirstOf(S) = n
<1>1. \A m \in S : (\A i \in S : m <= i) => m = n
  OBVIOUS
<1> QED
  BY <1>1 DEF FirstOf

LEMMA ClimbedIsRooted ==
    ASSUME ClimbInv, ClimbEnded, NEW from \in 1..WorkspaceRoot
    PROVE  RootFrom(from) = WorkspaceRoot
<1>1. PICK e, o, f : e = climb.directory /\ o = climb.outermost /\ f = climb.failure
  OBVIOUS
<1>2. /\ e \in 1..Len(ws.chain) /\ Len(ws.chain) \in Nat
      /\ RepositoryReached(e) /\ \A i \in 1..e - 1 : ~RepositoryReached(i)
      /\ Climbed(e, o, f)
  BY <1>1, ChainFacts DEF ClimbInv, ClimbEnded
<1>3. WorkspaceRoot \in 1..e /\ WorkspaceRoot = (IF o = 0 THEN 1 ELSE o)
  BY <1>1, <1>2 DEF WorkspaceRoot, Climbed
<1>4. from \in 1..e
  BY <1>2, <1>3
<1>5. Repository(from) = e
  <2>1. PICK R : R = {i \in from..Len(ws.chain) : ws.chain[i].marker = ".git"}
    OBVIOUS
  <2>2. \A i \in R : e <= i
    BY <1>2, <1>4, <2>1 DEF RepositoryReached
  <2>3. CASE ws.chain[e].marker = ".git"
    <3>1. e \in R /\ R \subseteq Nat
      BY <1>2, <1>4, <2>1, <2>3
    <3> QED
      BY <2>1, <2>2, <3>1, FirstOfReads DEF Repository
  <2>4. CASE ws.chain[e].marker # ".git"
    <3>1. e = Len(ws.chain)
      BY <1>2, <2>4 DEF RepositoryReached
    <3>2. R = {}
      BY <1>2, <1>4, <2>1, <2>2, <2>4, <3>1
    <3> QED
      BY <2>1, <3>1, <3>2 DEF Repository
  <2> QED
    BY <2>3, <2>4
<1>6. PICK M : M = {i \in from..e : ws.chain[i].marker # "none"}
  OBVIOUS
<1>7. RootFrom(from) = IF M = {} THEN from ELSE CHOOSE i \in M : \A j \in M : j <= i
  BY <1>5, <1>6 DEF RootFrom
<1>8. CASE o = 0
  <2>1. M = {} /\ from = 1
    BY <1>2, <1>3, <1>4, <1>6, <1>8 DEF Climbed
  <2> QED
    BY <1>3, <1>7, <1>8, <2>1
<1>9. CASE o # 0
  <2>1. o \in M /\ \A i \in M : i \in Nat /\ i <= o
    BY <1>2, <1>3, <1>4, <1>6, <1>9 DEF Climbed
  <2>2. (CHOOSE i \in M : \A j \in M : j <= i) = o
    BY <2>1
  <2> QED
    BY <1>3, <1>7, <1>9, <2>1, <2>2
<1> QED
  BY <1>8, <1>9

\* The probes that failed inside the root are those that end the climb with a refusal.
LEMMA FailedInside ==
    ASSUME ClimbInv, ClimbEnded
    PROVE  /\ (FailedWithin # {}) = FailedBelow
           /\ FailedBelow => FirstOf(FailedWithin) = climb.failure
<1>1. PICK e, o, f : e = climb.directory /\ o = climb.outermost /\ f = climb.failure
  OBVIOUS
<1>2. /\ e \in 1..Len(ws.chain) /\ Len(ws.chain) \in Nat /\ Climbed(e, o, f)
  BY <1>1, ChainFacts DEF ClimbInv, ClimbEnded
<1>3. WorkspaceRoot \in 1..e /\ WorkspaceRoot = (IF o = 0 THEN 1 ELSE o)
  BY <1>1, <1>2 DEF WorkspaceRoot, Climbed
<1>4. RootFrom(1) = WorkspaceRoot
  BY <1>3, ClimbedIsRooted
<1>5. CASE o = 0
  <2>1. ws.chain[1].marker = "none" /\ RootFrom(1) = 1
    BY <1>2, <1>3, <1>4, <1>5 DEF Climbed
  <2> QED
    BY <1>1, <1>2, <1>5, <2>1 DEF FailedWithin, FailedBelow, Climbed
<1>6. CASE o # 0
  <2>1. FailedWithin = {i \in 1..o : ws.chain[i].fault # "none"}
    BY <1>2, <1>3, <1>4, <1>6 DEF FailedWithin, Climbed
  <2>2. CASE f # 0 /\ f <= o
    <3>1. f \in FailedWithin
      BY <1>2, <2>1, <2>2 DEF Climbed
    <3>2. \A i \in FailedWithin : f <= i
      BY <1>2, <2>1, <2>2 DEF Climbed
    <3>3. FirstOf(FailedWithin) = f
      BY <2>1, <3>1, <3>2, FirstOfReads
    <3> QED
      BY <1>1, <2>2, <3>1, <3>3 DEF FailedBelow
  <2>3. CASE ~(f # 0 /\ f <= o)
    <3>1. FailedWithin = {}
      BY <1>2, <2>1, <2>3 DEF Climbed
    <3> QED
      BY <1>1, <2>3, <3>1 DEF FailedBelow
  <2> QED
    BY <2>2, <2>3
<1> QED
  BY <1>5, <1>6

\* The root is one root for the whole workspace, however deep its directories, whatever is marked
\* and whichever probes fail: a command run below it finds the same, goes on only where no probe
\* inside it failed, and is refused by the search only where one did, with the code of the lowest
\* (detectWorkspaceRoot, resolveWorkspaceRoot).
THEOREM RootedAlikeHolds == ScanSpec => []RootedAlike
<1>1. PipelineInit => Stage /\ ClimbInv
  <2> SUFFICES ASSUME PipelineInit PROVE Stage /\ ClimbInv
    OBVIOUS
  <2>1. /\ ws \in Workspaces /\ stage = "root" /\ refusal = NotRefused
        /\ climb = [directory |-> 1, outermost |-> 0, failure |-> 0]
    BY DEF PipelineInit, SetupInit
  <2>2. climb.directory = 1 /\ climb.outermost = 0 /\ climb.failure = 0
    BY <2>1
  <2>3. Climbed(0, 0, 0)
    BY DEF Climbed
  <2> QED
    BY <2>1, <2>2, <2>3, ChainFacts DEF Stage, ClimbInv, NotRefused
<1>2. Stage /\ ClimbInv /\ [ScanNext]_<<setupVars, pipeline>> => Stage' /\ ClimbInv'
  <2> SUFFICES ASSUME Stage, ClimbInv, [ScanNext]_<<setupVars, pipeline>>
               PROVE  Stage' /\ ClimbInv'
    OBVIOUS
  <2>1. [SetupNext]_setupVars
    BY DEF ScanNext
  <2> QED
    BY <2>1, SetupStage, SetupClimb
<1>3. Stage /\ ClimbInv => RootedAlike
  <2> SUFFICES ASSUME Stage, ClimbInv PROVE RootedAlike
    OBVIOUS
  <2>1. SetupTypeOK
    BY ChainFacts DEF Stage, ClimbInv, SetupTypeOK
  <2>2. ASSUME stage \notin {"root", "refused"}
        PROVE  (\A from \in 1..WorkspaceRoot : RootFrom(from) = WorkspaceRoot) /\ FailedWithin = {}
    <3>1. ClimbEnded /\ ~FailedBelow
      BY <2>2 DEF ClimbInv
    <3> QED
      BY <3>1, ClimbedIsRooted, FailedInside
  <2>3. ASSUME refusal.part = "root"
        PROVE  /\ FailedWithin # {}
               /\ (refusal.code = "config-error") = (ws.chain[FirstOf(FailedWithin)].fault = "malformed")
    <3>1. /\ ClimbEnded /\ FailedBelow
          /\ (refusal.code = "config-error") = (ws.chain[climb.failure].fault = "malformed")
      BY <2>3 DEF ClimbInv
    <3>2. FailedWithin # {} /\ FirstOf(FailedWithin) = climb.failure
      BY <3>1, FailedInside
    <3> QED
      BY <3>1, <3>2
  <2> QED
    BY <2>1, <2>2, <2>3 DEF RootedAlike
<1> QED
  BY <1>1, <1>2, <1>3, PTL DEF ScanSpec


\* A command's scan keeps each plugin's claims, from its first step to its last.
THEOREM ClaimsHonouredInAScan == ScanSpec => []ClaimsAreHonoured
<1>1. Spec => []ClaimsAreHonoured
  BY EveryClaimIsHonoured, PluginRegistryAssumption
<1> QED
  BY <1>1, ScanLoadsTheRegistry, PTL

\* And its config loads exactly when the plugins it names are compatible, in whatever order.
THEOREM LoadedIffCompatibleInAScan == ScanSpec => []LoadedIffCompatible
<1>1. Spec => []LoadedIffCompatible
  BY LoadedIffCompatibleHolds, PluginRegistryAssumption
<1> QED
  BY <1>1, ScanLoadsTheRegistry, PTL

-----------------------------------------------------------------------------
(* The order of names *)

Names == Seq(Range(CodeUnits))

LEMMA UnitsApart ==
    ASSUME NEW c \in Range(CodeUnits), NEW d \in Range(CodeUnits)
    PROVE  CodeUnit[c] \in Nat /\ (CodeUnit[c] = CodeUnit[d] => c = d)
<1>1. \A e \in Range(CodeUnits) : \E i \in DOMAIN CodeUnits : CodeUnits[i] = e
  BY DEF Range
<1>2. \A e \in Range(CodeUnits) : CodeUnit[e] \in DOMAIN CodeUnits /\ CodeUnits[CodeUnit[e]] = e
  BY <1>1 DEF CodeUnit
<1>3. DOMAIN CodeUnits \subseteq Nat
  BY CodeUnitsAssumption
<1> QED
  BY <1>2, <1>3

\* The least of some positions.
LEMMA SomeLeast ==
    ASSUME NEW S \in SUBSET Nat, S # {}
    PROVE  \E n \in S : \A i \in S : n <= i
<1>1. PICK n \in S : \A i \in S : ~ (<<i, n>> \in OpToRel(<, Nat))
  BY NatLessThanWellFounded, WFMin
<1>2. \A i \in S : ~ (i < n)
  BY <1>1, Zenon DEF OpToRel
<1> QED
  BY <1>2

\* a and b agree up to position i of both, and there a's character comes first.
PartsAt(a, b, i) ==
    /\ i \in DOMAIN a \cap DOMAIN b
    /\ \A j \in 1..i - 1 : a[j] = b[j]
    /\ CodeUnit[a[i]] < CodeUnit[b[i]]

Extends(a, b) == Len(a) < Len(b) /\ \A j \in DOMAIN a : a[j] = b[j]

LEMMA BeforeMeans ==
    ASSUME NEW a \in Names, NEW b \in Names
    PROVE  /\ Before(a, b) => Extends(a, b) \/ \E i \in Nat : PartsAt(a, b, i)
           /\ Extends(a, b) => Before(a, b)
           /\ \A i \in Nat : PartsAt(a, b, i) => Before(a, b)
           /\ a = b \/ Before(a, b) \/ Before(b, a)
<1>1. PICK apart : apart = {i \in DOMAIN a \cap DOMAIN b : a[i] # b[i]}
  OBVIOUS
<1>2. {i \in DOMAIN b \cap DOMAIN a : b[i] # a[i]} = apart
  BY <1>1
<1>3. /\ Len(a) \in Nat /\ DOMAIN a = 1..Len(a) /\ \A i \in DOMAIN a : a[i] \in Range(CodeUnits)
      /\ Len(b) \in Nat /\ DOMAIN b = 1..Len(b) /\ \A i \in DOMAIN b : b[i] \in Range(CodeUnits)
  BY DEF Names
<1>4. CASE apart = {}
  <2>1. (Before(a, b) <=> Len(a) < Len(b)) /\ (Before(b, a) <=> Len(b) < Len(a))
    BY <1>1, <1>2, <1>4 DEF Before
  <2>2. \A i \in DOMAIN a \cap DOMAIN b : a[i] = b[i]
    BY <1>1, <1>4
  <2>3. Len(a) < Len(b) <=> Extends(a, b)
    BY <1>3, <2>2 DEF Extends
  <2>4. \A i \in Nat : ~PartsAt(a, b, i)
    <3> SUFFICES ASSUME NEW i \in DOMAIN a \cap DOMAIN b PROVE ~(CodeUnit[a[i]] < CodeUnit[b[i]])
      BY DEF PartsAt
    <3>1. a[i] = b[i] /\ CodeUnit[a[i]] \in Nat
      BY <2>2, <1>3, UnitsApart
    <3> QED
      BY <3>1
  <2>5. Len(a) = Len(b) => a = b
    BY <1>3, <2>2 DEF Names
  <2>6. a = b \/ Before(a, b) \/ Before(b, a)
    <3>1. Len(a) < Len(b) \/ Len(b) < Len(a) \/ Len(a) = Len(b)
      <4>1. PICK m, n : m = Len(a) /\ n = Len(b)
        OBVIOUS
      <4>2. m \in Nat /\ n \in Nat
        BY <1>3, <4>1
      <4> QED
        BY <4>1, <4>2
    <3> QED
      BY <2>1, <2>5, <3>1, Zenon
  <2> QED
    BY <2>1, <2>3, <2>4, <2>6
<1>5. CASE apart # {}
  <2>1. PICK i \in apart : \A j \in apart : i <= j
    BY <1>1, <1>3, <1>5, SomeLeast
  <2>2. (CHOOSE k \in apart : \A j \in apart : k <= j) = i
    BY <2>1, <1>1, <1>3
  <2>3. /\ Before(a, b) <=> CodeUnit[a[i]] < CodeUnit[b[i]]
        /\ Before(b, a) <=> CodeUnit[b[i]] < CodeUnit[a[i]]
    BY <1>1, <1>2, <1>5, <2>2 DEF Before
  <2>4. i \in DOMAIN a \cap DOMAIN b /\ a[i] # b[i] /\ \A j \in 1..i - 1 : a[j] = b[j]
    BY <1>1, <1>3, <2>1
  <2>5. /\ CodeUnit[a[i]] \in Nat /\ CodeUnit[b[i]] \in Nat /\ CodeUnit[a[i]] # CodeUnit[b[i]]
    BY <1>3, <2>4, UnitsApart
  <2>6. i \in Nat /\ (Before(a, b) <=> PartsAt(a, b, i))
    BY <1>3, <2>3, <2>4 DEF PartsAt
  <2>7. ~Extends(a, b)
    BY <2>4 DEF Extends
  <2>8. ASSUME NEW k \in Nat, PartsAt(a, b, k) PROVE Before(a, b)
    <3>1. k \in DOMAIN a \cap DOMAIN b /\ CodeUnit[a[k]] < CodeUnit[b[k]]
      BY <2>8 DEF PartsAt
    <3>2. a[k] # b[k]
      BY <1>3, <3>1, UnitsApart
    <3>3. k = i
      BY <1>1, <1>3, <2>1, <2>4, <2>8, <3>1, <3>2 DEF PartsAt
    <3> QED
      BY <2>3, <3>1, <3>3
  <2> QED
    BY <2>3, <2>5, <2>6, <2>7, <2>8
<1> QED
  BY <1>4, <1>5

LEMMA BeforeOrders ==
    ASSUME NEW a \in Names, NEW b \in Names, NEW c \in Names
    PROVE  /\ ~(Before(a, b) /\ Before(b, a))
           /\ Before(a, b) /\ Before(b, c) => Before(a, c)
<1>1. /\ Len(a) \in Nat /\ DOMAIN a = 1..Len(a) /\ \A i \in DOMAIN a : a[i] \in Range(CodeUnits)
      /\ Len(b) \in Nat /\ DOMAIN b = 1..Len(b) /\ \A i \in DOMAIN b : b[i] \in Range(CodeUnits)
      /\ Len(c) \in Nat /\ DOMAIN c = 1..Len(c) /\ \A i \in DOMAIN c : c[i] \in Range(CodeUnits)
  BY DEF Names
<1>2. /\ \A i \in DOMAIN a : CodeUnit[a[i]] \in Nat
      /\ \A i \in DOMAIN b : CodeUnit[b[i]] \in Nat
      /\ \A i \in DOMAIN c : CodeUnit[c[i]] \in Nat
  BY <1>1, UnitsApart
<1>3. ASSUME Before(a, b), Before(b, a) PROVE FALSE
  <2>1. Extends(a, b) \/ \E i \in Nat : PartsAt(a, b, i)
    BY <1>3, BeforeMeans
  <2>2. Extends(b, a) \/ \E i \in Nat : PartsAt(b, a, i)
    BY <1>3, BeforeMeans
  <2>3. ~(Extends(a, b) /\ Extends(b, a))
    BY <1>1 DEF Extends
  <2>4. \A i \in Nat : ~(Extends(a, b) /\ PartsAt(b, a, i)) /\ ~(Extends(b, a) /\ PartsAt(a, b, i))
    BY <1>1, <1>2 DEF Extends, PartsAt
  <2>5. \A i, j \in Nat : ~(PartsAt(a, b, i) /\ PartsAt(b, a, j))
    <3> SUFFICES ASSUME NEW i \in Nat, NEW j \in Nat, PartsAt(a, b, i), PartsAt(b, a, j) PROVE FALSE
      OBVIOUS
    <3>1. CASE i < j
      BY <1>1, <1>2, <3>1 DEF PartsAt
    <3>2. CASE j < i
      BY <1>1, <1>2, <3>2 DEF PartsAt
    <3>3. CASE i = j
      BY <1>1, <1>2, <3>3 DEF PartsAt
    <3> QED
      BY <3>1, <3>2, <3>3
  <2> QED
    BY <2>1, <2>2, <2>3, <2>4, <2>5
<1>4. ASSUME Before(a, b), Before(b, c) PROVE Before(a, c)
  <2>1. Extends(a, b) \/ \E i \in Nat : PartsAt(a, b, i)
    BY <1>4, BeforeMeans
  <2>2. Extends(b, c) \/ \E i \in Nat : PartsAt(b, c, i)
    BY <1>4, BeforeMeans
  <2>3. CASE Extends(a, b) /\ Extends(b, c)
    <3>1. Extends(a, c)
      BY <1>1, <2>3 DEF Extends
    <3> QED
      BY <3>1, BeforeMeans
  <2>4. ASSUME NEW i \in Nat, Extends(a, b), PartsAt(b, c, i) PROVE Before(a, c)
    <3>1. CASE i \in DOMAIN a
      <4>1. /\ i \in DOMAIN c /\ Len(a) < Len(b) /\ \A j \in DOMAIN a : a[j] = b[j]
            /\ \A j \in 1..i - 1 : b[j] = c[j]
            /\ CodeUnit[b[i]] < CodeUnit[c[i]]
        BY <2>4 DEF Extends, PartsAt
      <4>2. \A j \in 1..i - 1 : a[j] = c[j]
        BY <1>1, <3>1, <4>1
      <4>3. PartsAt(a, c, i)
        BY <3>1, <4>1, <4>2 DEF PartsAt
      <4> QED
        BY <4>3, BeforeMeans
    <3>2. CASE i \notin DOMAIN a
      <4>1. Extends(a, c)
        BY <1>1, <2>4, <3>2 DEF Extends, PartsAt
      <4> QED
        BY <4>1, BeforeMeans
    <3> QED
      BY <3>1, <3>2
  <2>5. ASSUME NEW i \in Nat, PartsAt(a, b, i), Extends(b, c) PROVE Before(a, c)
    <3>1. PartsAt(a, c, i)
      BY <1>1, <2>5 DEF Extends, PartsAt
    <3> QED
      BY <3>1, BeforeMeans
  <2>6. ASSUME NEW i \in Nat, NEW j \in Nat, PartsAt(a, b, i), PartsAt(b, c, j) PROVE Before(a, c)
    <3>1. CASE i < j
      <4>1. PartsAt(a, c, i)
        BY <1>1, <2>6, <3>1 DEF PartsAt
      <4> QED
        BY <4>1, BeforeMeans
    <3>2. CASE j < i
      <4>1. PartsAt(a, c, j)
        BY <1>1, <2>6, <3>2 DEF PartsAt
      <4> QED
        BY <4>1, BeforeMeans
    <3>3. CASE i = j
      <4>1. /\ i \in DOMAIN a \cap DOMAIN c
            /\ CodeUnit[a[i]] < CodeUnit[b[i]] /\ CodeUnit[b[i]] < CodeUnit[c[i]]
        BY <1>1, <2>6, <3>3 DEF PartsAt
      <4>2. CodeUnit[a[i]] < CodeUnit[c[i]]
        BY <1>1, <1>2, <2>6, <4>1 DEF PartsAt
      <4>3. PartsAt(a, c, i)
        BY <1>1, <2>6, <3>3, <4>1, <4>2 DEF PartsAt
      <4> QED
        BY <4>3, BeforeMeans
    <3> QED
      BY <3>1, <3>2, <3>3
  <2> QED
    BY <2>1, <2>2, <2>3, <2>4, <2>5, <2>6
<1> QED
  BY <1>3, <1>4

\* Of finitely many names one comes before the others.
LEMMA LowestStands ==
    ASSUME NEW S \in SUBSET Names, IsFiniteSet(S), S # {}
    PROVE  LowestOf(S) \in S /\ \A n \in S \ {LowestOf(S)} : Before(LowestOf(S), n)
<1>1. PICK below : below = [n \in S |-> {m \in S : Before(m, n)}]
  OBVIOUS
<1>2. \A n \in S : IsFiniteSet(below[n]) /\ Cardinality(below[n]) \in Nat
  <2> SUFFICES ASSUME NEW n \in S PROVE IsFiniteSet(below[n]) /\ Cardinality(below[n]) \in Nat
    OBVIOUS
  <2>1. below[n] \in SUBSET S
    BY <1>1
  <2>2. IsFiniteSet(below[n])
    BY <2>1, FS_Subset
  <2> QED
    BY <2>2, FS_CardinalityType
<1>3. PICK counts : counts = {Cardinality(below[n]) : n \in S}
  OBVIOUS
<1>4. counts \in SUBSET Nat /\ counts # {}
  BY <1>2, <1>3
<1>5. PICK k \in counts : \A i \in counts : k <= i
  BY <1>4, SomeLeast
<1>6. PICK n \in S : \A m \in S : Cardinality(below[n]) <= Cardinality(below[m])
  BY <1>3, <1>5
<1>7. ASSUME NEW m \in S \ {n} PROVE Before(n, m)
  <2> SUFFICES ASSUME ~Before(n, m) PROVE FALSE
    OBVIOUS
  <2>1. Before(m, n) /\ m \in Names /\ n \in Names
    BY <1>7, BeforeMeans
  <2>2. below[m] \subseteq below[n]
    <3> SUFFICES ASSUME NEW x \in S, Before(x, m) PROVE Before(x, n)
      BY <1>1, <1>7
    <3> QED
      BY <2>1, BeforeOrders
  <2>3. m \in below[n] /\ m \notin below[m]
    BY <1>1, <1>7, <2>1, BeforeOrders
  <2>4. Cardinality(below[m]) <= Cardinality(below[n])
        /\ (Cardinality(below[m]) = Cardinality(below[n]) => below[m] = below[n])
    BY <1>2, <2>2, FS_Subset
  <2>5. Cardinality(below[n]) <= Cardinality(below[m])
    BY <1>6, <1>7
  <2>6. Cardinality(below[m]) = Cardinality(below[n])
    BY <1>2, <1>7, <2>4, <2>5
  <2> QED
    BY <2>3, <2>4, <2>6
<1> QED
  BY <1>7 DEF LowestOf

LEMMA LowestIsOne ==
    ASSUME NEW S \in SUBSET Names, NEW n \in S, \A m \in S \ {n} : Before(n, m)
    PROVE  LowestOf(S) = n
<1>1. \A m \in S : (\A other \in S \ {m} : Before(m, other)) => m = n
  BY BeforeOrders
<1> QED
  BY <1>1 DEF LowestOf


-----------------------------------------------------------------------------
(* The managers' searches *)

\* What has been merged, in whatever order the searches settled.
Merged == {s \in Searching \ searching : SearchFault(s) = NoFault}
ListedAs(m) == {i \in DOMAIN managers : managers[i] = m}
MergedAs(m) == {s \in Merged : ManagerOf(s) = m}
SetAside(s) ==
    {[search |-> s, root |-> d, reason |-> LeftOutFor(d)] :
       d \in {c \in Candidates(s) : LeftOutFor(c) # "none"}}

MergedCandidates == {CandidateRoots(s) : s \in Merged}
MergedLeftOut == {SetAside(s) : s \in Merged}

\* As many managers are listed as an entry as searches have come to it.
Tallied(m) ==
    /\ IsFiniteSet(ListedAs(m)) /\ IsFiniteSet(MergedAs(m))
    /\ Cardinality(ListedAs(m)) = Cardinality(MergedAs(m))

DetectionInv ==
    /\ ws \in Workspaces
    /\ searching \subseteq Searching
    /\ failures = {s \in Searching \ searching : SearchFault(s) # NoFault}
    /\ DOMAIN managers = 1..Len(managers) /\ Len(managers) \in Nat
    /\ Range(managers) = {ManagerOf(s) : s \in Merged}
    /\ \A m : Tallied(m)
    /\ workspaces = UNION MergedCandidates
    /\ unnameable = UNION MergedLeftOut

LEMMA SearchNames ==
    ASSUME ws \in Workspaces
    PROVE  Searching \subseteq {"pnpm", "package.json", "turbo", "nx"}
<1>1. Range(Searches) = {"pnpm", "package.json", "turbo", "nx"}
  BY DEF Searches, Range
<1>2. DOMAIN ws.manifests \subseteq Range(Searches)
  BY ManifestsAssumption
<1> QED
  BY <1>1, <1>2 DEF Searching

LEMMA SearchesFinite ==
    ASSUME ws \in Workspaces
    PROVE  IsFiniteSet(Searching)
<1>1. IsFiniteSet({"pnpm"} \cup {"package.json"} \cup {"turbo"} \cup {"nx"})
  <2>1. IsFiniteSet({"pnpm"} \cup {"package.json"})
    BY FS_Singleton, FS_AddElement
  <2>2. IsFiniteSet({"pnpm"} \cup {"package.json"} \cup {"turbo"})
    BY <2>1, FS_AddElement
  <2> QED
    BY <2>2, FS_AddElement
<1>2. Searching \in SUBSET ({"pnpm"} \cup {"package.json"} \cup {"turbo"} \cup {"nx"})
  BY SearchNames
<1> QED
  BY <1>1, <1>2, FS_Subset

\* The JS manager's tool is none of the others' but pnpm, which has the same manifest.
LEMMA ToolFacts ==
    ASSUME ws \in Workspaces
    PROVE  /\ JsTool \in {"npm", "pnpm", "yarn", "bun"}
           /\ \A s \in Searching : Tool(s) \in Range(Tools)
           /\ \A r, s \in Searching : Tool(r) = Tool(s) => ManifestOf(r) = ManifestOf(s)
<1>1. JsTool \in {"npm", "pnpm", "yarn", "bun"}
  <2>1. PICK locked : locked = {i \in DOMAIN LockFiles : LockFiles[i][1] \in ws.locks}
    OBVIOUS
  <2>2. JsTool = IF locked = {} THEN "npm" ELSE LockFiles[FirstOf(locked)][2]
    BY <2>1 DEF JsTool
  <2>3. ASSUME locked # {} PROVE FirstOf(locked) \in 1..4
    <3>1. locked \in SUBSET Nat /\ locked \subseteq 1..4
      BY <2>1 DEF LockFiles
    <3>2. \E n \in locked : \A i \in locked : n <= i
      BY <3>1, <2>3, SomeLeast
    <3> QED
      BY <3>1, <3>2 DEF FirstOf
  <2>4. \A i \in 1..4 : LockFiles[i][2] \in {"npm", "pnpm", "yarn", "bun"}
    BY DEF LockFiles
  <2> QED
    BY <2>2, <2>3, <2>4
<1>2. Range(Tools) = {"bun", "npm", "nx", "pnpm", "turbo", "yarn"}
  BY DEF Tools, Range
<1>3. \A s \in Searching :
              \/ Tool(s) = JsTool /\ s = "package.json"
              \/ Tool(s) = s /\ s \in {"pnpm", "turbo", "nx"}
  BY SearchNames DEF Tool
<1>4. \A s \in Searching : Tool(s) \in Range(Tools)
  BY <1>1, <1>2, <1>3
<1>5. \A r, s \in Searching : Tool(r) = Tool(s) => ManifestOf(r) = ManifestOf(s)
  BY <1>1, <1>3 DEF ManifestOf
<1> QED
  BY <1>1, <1>4, <1>5

\* What the tree says of a search does not change while they run.
LEMMA TreeStands ==
    ASSUME ws' = ws
    PROVE  /\ Searching' = Searching
           /\ \A s : /\ SearchFault(s)' = SearchFault(s) /\ Tool(s)' = Tool(s)
                     /\ Roots(s)' = Roots(s) /\ SetAside(s)' = SetAside(s)
                     /\ CandidateRoots(s)' = CandidateRoots(s) /\ ManagerOf(s)' = ManagerOf(s)
<1>1. Searching' = Searching
  BY DEF Searching
<1>2. \A s : Candidates(s)' = Candidates(s)
  BY DEF Candidates
<1>3. \A s : Tool(s)' = Tool(s)
  BY DEF Tool, JsTool
<1>4. \A s : Roots(s)' = Roots(s) /\ SetAside(s)' = SetAside(s)
  BY <1>2 DEF Roots, SetAside
<1>5. \A s : CandidateRoots(s)' = CandidateRoots(s) /\ ManagerOf(s)' = ManagerOf(s)
  BY <1>3, <1>4 DEF CandidateRoots, ManagerOf
<1>6. \A s : Outside(s)' = Outside(s)
  BY <1>2 DEF Outside
<1>7. \A s : Refusing(s)' = Refusing(s)
  BY DEF Refusing
<1>8. \A s : ProjectRulesRefused(s)' = ProjectRulesRefused(s)
  BY DEF ProjectRulesRefused, RuleFileRefused
<1>9. \A s, d : UnlistedFault(s, d)' = UnlistedFault(s, d)
  BY DEF UnlistedFault, RuleFileRefused
<1>10. \A s : SearchFault(s)' = SearchFault(s)
  BY <1>6, <1>7, <1>8, <1>9 DEF SearchFault, FaultMeeting
<1> QED
  BY <1>1, <1>3, <1>4, <1>5, <1>10


LEMMA UnionAdds == \A S, T : UNION (S \cup {T}) = (UNION S) \cup T
OBVIOUS

\* One more search is merged, and one more entry listed: its own.
LEMMA TallyGrows ==
    ASSUME DetectionInv, NEW s \in searching, Settle(s), SearchFault(s) = NoFault,
           Merged' = Merged \cup {s}, s \notin Merged
    PROVE  (\A m : Tallied(m)') /\ Range(managers)' = {ManagerOf(r) : r \in Merged}'
<1>1. /\ Len(managers) \in Nat /\ DOMAIN managers = 1..Len(managers) /\ s \in Searching
      /\ Range(managers) = {ManagerOf(r) : r \in Merged}
  BY DEF DetectionInv
<1>2. managers' = Append(managers, ManagerOf(s)) /\ ws' = ws
  BY DEF Settle
<1>3. PICK n : n = Len(managers) + 1
  OBVIOUS
<1>4. /\ DOMAIN managers' = 1..n /\ n \in Nat /\ n \notin DOMAIN managers
      /\ managers'[n] = ManagerOf(s)
      /\ \A i \in DOMAIN managers : managers'[i] = managers[i]
  BY <1>1, <1>2, <1>3
<1>5. \A r : ManagerOf(r)' = ManagerOf(r)
  BY <1>2, TreeStands
<1>6. \A i : i \in 1..n <=> i \in DOMAIN managers \/ i = n
  BY <1>1, <1>3
<1>7. Range(managers)' = {ManagerOf(r) : r \in Merged}'
  <2>1. Range(managers') = Range(managers) \cup {ManagerOf(s)}
    BY <1>4, <1>6 DEF Range
  <2>2. {ManagerOf(r) : r \in Merged}' = {ManagerOf(r) : r \in Merged} \cup {ManagerOf(s)}
    BY <1>5
  <2> QED
    BY <1>1, <2>1, <2>2 DEF Range
<1>8. ASSUME NEW m PROVE Tallied(m)'
  <2>1. /\ IsFiniteSet(ListedAs(m)) /\ IsFiniteSet(MergedAs(m))
        /\ Cardinality(ListedAs(m)) = Cardinality(MergedAs(m))
    BY DEF DetectionInv, Tallied
  <2>2. CASE ManagerOf(s) = m
    <3>1. ListedAs(m)' = ListedAs(m) \cup {n} /\ n \notin ListedAs(m)
      BY <1>4, <1>6, <2>2 DEF ListedAs
    <3>2. MergedAs(m)' = MergedAs(m) \cup {s} /\ s \notin MergedAs(m)
      BY <1>5, <2>2 DEF MergedAs
    <3>3. /\ IsFiniteSet(ListedAs(m) \cup {n})
          /\ Cardinality(ListedAs(m) \cup {n}) = Cardinality(ListedAs(m)) + 1
      BY <2>1, <3>1, FS_AddElement
    <3>4. /\ IsFiniteSet(MergedAs(m) \cup {s})
          /\ Cardinality(MergedAs(m) \cup {s}) = Cardinality(MergedAs(m)) + 1
      BY <2>1, <3>2, FS_AddElement
    <3> QED
      BY <2>1, <3>1, <3>2, <3>3, <3>4 DEF Tallied
  <2>3. CASE ManagerOf(s) # m
    <3>1. ListedAs(m)' = ListedAs(m)
      BY <1>4, <1>6, <2>3 DEF ListedAs
    <3>2. MergedAs(m)' = MergedAs(m)
      BY <1>5, <2>3 DEF MergedAs
    <3> QED
      BY <2>1, <3>1, <3>2 DEF Tallied
  <2> QED
    BY <2>2, <2>3
<1> QED
  BY <1>7, <1>8

LEMMA SettleKeeps ==
    ASSUME DetectionInv, NEW s \in searching, Settle(s)
    PROVE  DetectionInv'
<1>1. /\ ws' = ws /\ searching' = searching \ {s} /\ s \in Searching
      /\ searching \subseteq Searching /\ ws \in Workspaces
  BY DEF Settle, DetectionInv
<1>2. /\ Searching' = Searching
      /\ \A r : /\ SearchFault(r)' = SearchFault(r) /\ Tool(r)' = Tool(r)
                /\ Roots(r)' = Roots(r) /\ SetAside(r)' = SetAside(r)
                /\ CandidateRoots(r)' = CandidateRoots(r) /\ ManagerOf(r)' = ManagerOf(r)
  BY <1>1, TreeStands
<1>3. NoFault' = NoFault
  BY DEF NoFault, NoName
<1>4. s \notin Merged
  BY DEF Merged
<1>5. CASE SearchFault(s) # NoFault
  <2>1. /\ failures' = failures \cup {s} /\ managers' = managers
        /\ workspaces' = workspaces /\ unnameable' = unnameable
    BY <1>5 DEF Settle
  <2>2. Merged' = Merged
    BY <1>1, <1>2, <1>3, <1>5 DEF Merged
  <2>3. failures' = {r \in Searching \ searching : SearchFault(r) # NoFault}'
    BY <1>1, <1>2, <1>3, <1>5, <2>1 DEF DetectionInv
  <2>4. (\A m : Tallied(m)') /\ Range(managers)' = {ManagerOf(r) : r \in Merged}'
    <3>1. \A m : ListedAs(m)' = ListedAs(m) /\ MergedAs(m)' = MergedAs(m)
      BY <1>2, <2>1, <2>2 DEF ListedAs, MergedAs
    <3>2. (\A m : Tallied(m)) /\ Range(managers) = {ManagerOf(r) : r \in Merged}
      BY DEF DetectionInv
    <3>3. \A m : Tallied(m)'
      BY <3>1, <3>2 DEF Tallied
    <3>4. Range(managers)' = Range(managers) /\ {ManagerOf(r) : r \in Merged}' = {ManagerOf(r) : r \in Merged}
      BY <1>2, <2>1, <2>2 DEF Range
    <3> QED
      BY <3>2, <3>3, <3>4
  <2>5. /\ (UNION MergedCandidates') = (UNION MergedCandidates)
        /\ (UNION MergedLeftOut') = (UNION MergedLeftOut)
    BY <1>2, <2>2 DEF MergedCandidates, MergedLeftOut
  <2> QED
    BY <1>1, <1>2, <2>1, <2>3, <2>4, <2>5 DEF DetectionInv
<1>6. CASE SearchFault(s) = NoFault
  <2>1. /\ failures' = failures
        /\ managers' = Append(managers, ManagerOf(s))
        /\ workspaces' = workspaces \cup CandidateRoots(s)
        /\ unnameable' = unnameable \cup SetAside(s)
    BY <1>6 DEF Settle, SetAside
  <2>2. Merged' = Merged \cup {s}
    BY <1>1, <1>2, <1>3, <1>6 DEF Merged
  <2>3. failures' = {r \in Searching \ searching : SearchFault(r) # NoFault}'
    BY <1>1, <1>2, <1>3, <1>6, <2>1 DEF DetectionInv
  <2>4. (\A m : Tallied(m)') /\ Range(managers)' = {ManagerOf(r) : r \in Merged}'
    BY <1>4, <1>6, <2>2, TallyGrows
  <2>5. /\ (UNION MergedCandidates') = (UNION MergedCandidates) \cup CandidateRoots(s)
        /\ (UNION MergedLeftOut') = (UNION MergedLeftOut) \cup SetAside(s)
    <3>1. MergedCandidates' = MergedCandidates \cup {CandidateRoots(s)}
      BY <1>2, <2>2 DEF MergedCandidates
    <3>2. MergedLeftOut' = MergedLeftOut \cup {SetAside(s)}
      BY <1>2, <2>2 DEF MergedLeftOut
    <3> QED
      BY <3>1, <3>2, UnionAdds
  <2>6. DOMAIN managers' = 1..Len(managers') /\ Len(managers') \in Nat
    BY <2>1 DEF DetectionInv
  <2>7. /\ workspaces = (UNION MergedCandidates)
        /\ unnameable = (UNION MergedLeftOut)
    BY DEF DetectionInv
  <2>8. /\ workspaces' = (UNION MergedCandidates')
        /\ unnameable' = (UNION MergedLeftOut')
    BY <2>1, <2>5, <2>7
  <2> QED
    BY <1>1, <1>2, <2>1, <2>3, <2>4, <2>6, <2>8 DEF DetectionInv
<1> QED
  BY <1>5, <1>6

LEMMA DetectionStep ==
    ASSUME DetectionInv, [SetupNext]_setupVars
    PROVE  DetectionInv'
<1>1. CASE Detecting
  BY <1>1, SettleKeeps DEF Detecting
<1>2. CASE ~Detecting
  <2>1. ws' = ws /\ UNCHANGED detection
    BY <1>2 DEF SetupNext, setupVars, ClimbRoot, FindConfig, LoadConfig, Loading, PluginsLoaded, Detected,
       ResolveDeclared, DetectComponents, ReadPackages
  <2>2. /\ searching' = searching /\ managers' = managers /\ workspaces' = workspaces
        /\ unnameable' = unnameable /\ failures' = failures
    BY <2>1 DEF detection
  <2>3. /\ Searching' = Searching /\ NoFault' = NoFault
        /\ \A r : /\ SearchFault(r)' = SearchFault(r) /\ Tool(r)' = Tool(r)
                  /\ Roots(r)' = Roots(r) /\ SetAside(r)' = SetAside(r)
                  /\ CandidateRoots(r)' = CandidateRoots(r) /\ ManagerOf(r)' = ManagerOf(r)
    BY <2>1, TreeStands DEF NoFault, NoName
  <2>4. Merged' = Merged
    BY <2>2, <2>3 DEF Merged
  <2>5. \A m : ListedAs(m)' = ListedAs(m) /\ MergedAs(m)' = MergedAs(m)
    BY <2>2, <2>3, <2>4 DEF ListedAs, MergedAs
  <2>6. (\A m : Tallied(m)') /\ Range(managers)' = {ManagerOf(r) : r \in Merged}'
    <3>1. (\A m : Tallied(m)) /\ Range(managers) = {ManagerOf(r) : r \in Merged}
      BY DEF DetectionInv
    <3>2. \A m : Tallied(m)'
      BY <2>5, <3>1 DEF Tallied
    <3>3. Range(managers)' = Range(managers) /\ {ManagerOf(r) : r \in Merged}' = {ManagerOf(r) : r \in Merged}
      BY <2>2, <2>3, <2>4 DEF Range
    <3> QED
      BY <3>1, <3>2, <3>3
  <2> QED
    BY <2>1, <2>2, <2>3, <2>4, <2>6 DEF DetectionInv, MergedCandidates, MergedLeftOut
<1> QED
  BY <1>1, <1>2

LEMMA DetectionStarts ==
    ASSUME SetupInit
    PROVE  DetectionInv
<1>1. /\ ws \in Workspaces /\ searching = Searching /\ managers = <<>> /\ workspaces = {}
      /\ unnameable = {} /\ failures = {}
  BY DEF SetupInit, DetectionInit
<1>2. Merged = {}
  BY <1>1 DEF Merged
<1>3. \A m : ListedAs(m) = {} /\ MergedAs(m) = {}
  BY <1>1, <1>2 DEF ListedAs, MergedAs
<1>4. (\A m : Tallied(m)) /\ Range(managers) = {ManagerOf(r) : r \in Merged}
  <2>1. \A m : Tallied(m)
    BY <1>3, FS_EmptySet DEF Tallied
  <2>2. Range(managers) = {} /\ {ManagerOf(r) : r \in Merged} = {}
    BY <1>1, <1>2 DEF Range
  <2> QED
    BY <2>1, <2>2
<1> QED
  BY <1>1, <1>2, <1>4 DEF DetectionInv, MergedCandidates, MergedLeftOut


LEMMA RefusingFacts ==
    ASSUME ws \in Workspaces, NEW s \in Searching
    PROVE  IsFiniteSet(Refusing(s)) /\ Refusing(s) \subseteq Names
<1>1. s \in DOMAIN ws.manifests
  BY DEF Searching
<1>2. IsFiniteSet(ws.manifests[s].unlisted) /\ ws.manifests[s].unlisted \subseteq Names
  BY <1>1, ManifestsAssumption DEF Names
<1>3. Refusing(s) \in SUBSET ws.manifests[s].unlisted
  BY DEF Refusing, WalkRefusals
<1> QED
  BY <1>2, <1>3, FS_Subset

\* The faults that count for an unread directory are those of the searches that met one.
Meeting == {s \in failures : ~ws.manifests[s].malformed /\ Refusing(s) # {}}
Unlisted == UNION {Refusing(f) : f \in {g \in failures : ~ws.manifests[g].malformed}}
AtOf(d) == [code |-> "scan-directory-unreadable", at |-> d]

LEMMA UnlistedFacts ==
    ASSUME DetectionInv
    PROVE  IsFiniteSet(Unlisted) /\ Unlisted \subseteq Names
<1> DEFINE UnlistedBy(s) == IF s \in failures /\ ~ws.manifests[s].malformed THEN Refusing(s) ELSE {}
<1>1. failures \subseteq Searching /\ ws \in Workspaces
  BY DEF DetectionInv
<1>2. \A s : IsFiniteSet(UnlistedBy(s)) /\ UnlistedBy(s) \subseteq Names
  BY <1>1, RefusingFacts, FS_EmptySet
<1>3. IsFiniteSet(UnlistedBy("pnpm") \cup UnlistedBy("package.json"))
  BY <1>2, FS_Union
<1>4. IsFiniteSet((UnlistedBy("pnpm") \cup UnlistedBy("package.json")) \cup UnlistedBy("turbo"))
  BY <1>2, <1>3, FS_Union
<1>5. IsFiniteSet(((UnlistedBy("pnpm") \cup UnlistedBy("package.json")) \cup UnlistedBy("turbo")) \cup UnlistedBy("nx"))
  BY <1>2, <1>4, FS_Union
<1>6. failures \subseteq {"pnpm", "package.json", "turbo", "nx"}
  BY <1>1, SearchNames
<1>7. Unlisted = ((UnlistedBy("pnpm") \cup UnlistedBy("package.json")) \cup UnlistedBy("turbo")) \cup UnlistedBy("nx")
  BY <1>6 DEF Unlisted
<1> QED
  BY <1>2, <1>5, <1>7

LEMMA UnreadAre ==
    ASSUME DetectionInv, ~(\E d \in Unlisted : RuleFileRefused(d)),
           NEW faults, faults = [s \in failures |-> SearchFault(s)]
    PROVE  Unread(faults) = {AtOf(LowestOf(Refusing(s))) : s \in Meeting}
<1>1. failures \subseteq Searching /\ ws \in Workspaces
  BY DEF DetectionInv
<1>2. ASSUME NEW s \in Meeting PROVE SearchFault(s) = AtOf(LowestOf(Refusing(s)))
  <2>1. s \in Searching /\ Refusing(s) # {} /\ ~ws.manifests[s].malformed
    BY <1>1 DEF Meeting
  <2>2. LowestOf(Refusing(s)) \in Refusing(s)
    BY <1>1, <2>1, RefusingFacts, LowestStands
  <2>3. LowestOf(Refusing(s)) \in Unlisted
    BY <2>1, <2>2 DEF Unlisted, Meeting
  <2>4. SearchFault(s) = UnlistedFault(s, LowestOf(Refusing(s)))
    BY <2>1 DEF SearchFault, FaultMeeting
  <2> QED
    BY <2>3, <2>4 DEF UnlistedFault, AtOf
<1>3. ASSUME NEW s \in failures, s \notin Meeting
      PROVE  SearchFault(s).code # "scan-directory-unreadable"
  <2>1. CASE ws.manifests[s].malformed
    BY <2>1 DEF SearchFault, FaultMeeting
  <2>2. CASE ~ws.manifests[s].malformed
    <3>1. Refusing(s) = {}
      BY <1>3, <2>2 DEF Meeting
    <3> QED
      BY <2>2, <3>1 DEF SearchFault, FaultMeeting, NoFault
  <2> QED
    BY <2>1, <2>2
<1>4. Range(faults) = {SearchFault(s) : s \in failures}
  BY DEF Range
<1>5. \A s \in Meeting : s \in failures /\ AtOf(LowestOf(Refusing(s))).code = "scan-directory-unreadable"
  BY DEF Meeting, AtOf
<1> QED
  BY <1>2, <1>3, <1>4, <1>5 DEF Unread

LEMMA LowestIsReported ==
    ASSUME DetectionInv
    PROVE  LowestUnlisted(Unlisted)
<1> SUFFICES ASSUME Unlisted # {}, ~(\E d \in Unlisted : RuleFileRefused(d))
             PROVE  FirstFailure([s \in failures |-> SearchFault(s)]) = AtOf(LowestOf(Unlisted))
  BY DEF LowestUnlisted, AtOf
<1>1. PICK faults : faults = [s \in failures |-> SearchFault(s)]
  OBVIOUS
<1>2. Unread(faults) = {AtOf(LowestOf(Refusing(s))) : s \in Meeting}
  BY <1>1, UnreadAre
<1>3. PICK L : L = LowestOf(Unlisted)
  OBVIOUS
<1>4. /\ IsFiniteSet(Unlisted) /\ Unlisted \subseteq Names
      /\ L \in Unlisted /\ \A n \in Unlisted \ {L} : Before(L, n)
  BY <1>3, UnlistedFacts, LowestStands
<1>5. PICK s \in failures : ~ws.manifests[s].malformed /\ L \in Refusing(s)
  BY <1>4 DEF Unlisted
<1>6. s \in Meeting /\ Refusing(s) \subseteq Unlisted
  BY <1>5 DEF Meeting, Unlisted
<1>7. LowestOf(Refusing(s)) = L
  BY <1>4, <1>5, <1>6, LowestIsOne
<1>8. AtOf(L) \in Unread(faults)
  BY <1>2, <1>6, <1>7
<1>9. \A f \in Unread(faults) : f = AtOf(f.at) /\ f.at \in Unlisted
  <2> SUFFICES ASSUME NEW r \in Meeting PROVE LowestOf(Refusing(r)) \in Unlisted
    BY <1>2 DEF AtOf
  <2>1. r \in Searching /\ ws \in Workspaces /\ Refusing(r) # {} /\ Refusing(r) \subseteq Unlisted
    BY DEF Meeting, DetectionInv, Unlisted
  <2> QED
    BY <2>1, RefusingFacts, LowestStands
<1>10. AtOf(L).at = L
  BY DEF AtOf
<1>11. \A g \in Unread(faults) \ {AtOf(L)} : Before(AtOf(L).at, g.at)
  BY <1>4, <1>9, <1>10
<1>12. \A f \in Unread(faults) : (\A g \in Unread(faults) \ {f} : Before(f.at, g.at)) => f = AtOf(L)
  <2> SUFFICES ASSUME NEW f \in Unread(faults), \A g \in Unread(faults) \ {f} : Before(f.at, g.at),
                      f # AtOf(L)
               PROVE  FALSE
    OBVIOUS
  <2>1. Before(f.at, L) /\ Before(L, f.at)
    BY <1>8, <1>10, <1>11
  <2>2. f.at \in Names /\ L \in Names
    BY <1>4, <1>9
  <2> QED
    BY <2>1, <2>2, BeforeOrders
<1>13. (CHOOSE f \in Unread(faults) : \A g \in Unread(faults) \ {f} : Before(f.at, g.at)) = AtOf(L)
  BY <1>8, <1>11, <1>12
<1>14. FirstFailure(faults) = AtOf(L)
  BY <1>8, <1>13 DEF FirstFailure
<1> QED
  BY <1>1, <1>3, <1>14

LEMMA MergedIsAll ==
    ASSUME DetectionInv, searching = {}, failures = {}
    PROVE  Merged = Searching
BY DEF DetectionInv, Merged

LEMMA DetectionHolds ==
    ASSUME DetectionInv
    PROVE  DetectedAsInTurn
<1> SUFFICES ASSUME searching = {} PROVE DetectedAsInTurn
  BY DEF DetectedAsInTurn
<1>1. failures = {s \in Searching : SearchFault(s) # NoFault}
  BY DEF DetectionInv
<1>2. LowestUnlisted(UNION {Refusing(f) : f \in {g \in failures : ~ws.manifests[g].malformed}})
  BY LowestIsReported DEF Unlisted
<1>3. ASSUME failures = {}, NEW m
      PROVE  Cardinality({i \in DOMAIN managers : managers[i] = m})
               = Cardinality({s \in Searching : ManagerOf(s) = m})
  <2>1. Merged = Searching /\ Tallied(m)
    BY <1>3, MergedIsAll DEF DetectionInv
  <2>2. ListedAs(m) = {i \in DOMAIN managers : managers[i] = m}
        /\ MergedAs(m) = {s \in Searching : ManagerOf(s) = m}
    BY <2>1 DEF ListedAs, MergedAs
  <2> QED
    BY <2>1, <2>2 DEF Tallied
<1>6. ASSUME failures = {}, NEW w \in workspaces
      PROVE  \E m \in Range(managers) : m.tool = w.tool /\ w.root \in m.roots
  <2>1. PICK s \in Merged : w \in CandidateRoots(s)
    BY <1>6 DEF DetectionInv, MergedCandidates
  <2>2. w.tool = Tool(s) /\ w.root \in Roots(s)
    BY <2>1 DEF CandidateRoots
  <2>3. ManagerOf(s) \in Range(managers)
    BY <2>1 DEF DetectionInv
  <2>4. ManagerOf(s).tool = Tool(s) /\ ManagerOf(s).roots = Roots(s)
    BY DEF ManagerOf
  <2> QED
    BY <2>2, <2>3, <2>4
<1>4. ASSUME failures = {}, NEW s \in Searching, NEW d \in Candidates(s)
      PROVE  \/ \E u \in unnameable : u.root = d /\ u.search = s
             \/ \E w \in workspaces : w.root = ToNfc(d) /\ w.tool = Tool(s)
  <2>1. /\ Merged = Searching /\ workspaces = UNION MergedCandidates
        /\ unnameable = UNION MergedLeftOut
    BY <1>4, MergedIsAll DEF DetectionInv
  <2>2. CandidateRoots(s) \subseteq workspaces /\ SetAside(s) \subseteq unnameable
    BY <2>1 DEF MergedCandidates, MergedLeftOut
  <2>3. CASE LeftOutFor(d) = "none"
    <3>1. ToNfc(d) \in Roots(s)
      BY <1>4, <2>3 DEF Roots
    <3>2. PICK w : w = [root |-> ToNfc(d), tool |-> Tool(s), manifest |-> ManifestOf(s)]
      OBVIOUS
    <3>3. w \in workspaces /\ w.root = ToNfc(d) /\ w.tool = Tool(s)
      BY <2>2, <3>1, <3>2 DEF CandidateRoots
    <3> QED
      BY <3>3
  <2>4. CASE LeftOutFor(d) # "none"
    <3>1. PICK u : u = [search |-> s, root |-> d, reason |-> LeftOutFor(d)]
      OBVIOUS
    <3>2. u \in unnameable /\ u.root = d /\ u.search = s
      BY <1>4, <2>2, <2>4, <3>1 DEF SetAside
    <3> QED
      BY <3>2
  <2> QED
    BY <2>3, <2>4
<1>5. ASSUME failures = {}, NEW v \in workspaces, NEW w \in workspaces, v.root = w.root, v.tool = w.tool
      PROVE  v = w
  <2>1. Merged = Searching /\ workspaces = UNION MergedCandidates /\ ws \in Workspaces
    BY <1>5, MergedIsAll DEF DetectionInv
  <2>2. PICK r \in Searching, s \in Searching : v \in CandidateRoots(r) /\ w \in CandidateRoots(s)
    BY <1>5, <2>1 DEF MergedCandidates
  <2>3. /\ v = [root |-> v.root, tool |-> Tool(r), manifest |-> ManifestOf(r)]
        /\ w = [root |-> w.root, tool |-> Tool(s), manifest |-> ManifestOf(s)]
    BY <2>2 DEF CandidateRoots
  <2>4. v.tool = Tool(r) /\ w.tool = Tool(s)
    BY <2>3
  <2>5. ManifestOf(r) = ManifestOf(s)
    BY <1>5, <2>1, <2>4, ToolFacts
  <2> QED
    BY <1>5, <2>3, <2>4, <2>5
<1> QED
  BY <1>1, <1>2, <1>3, <1>4, <1>5, <1>6 DEF DetectedAsInTurn

\* Whatever the workspace declares and in whatever order the four searches settle: the detection
\* fails exactly when a search is refused, naming the lowest unlisted directory, and else lists each
\* search's manager, as often as searches come to it, and each package directory that has a name. In
\* which order it lists two managers of one tool is no part of it (detectManagers).
THEOREM DetectedAsInTurnHolds == ScanSpec => []DetectedAsInTurn
<1>1. PipelineInit => DetectionInv
  BY DetectionStarts DEF PipelineInit
<1>2. DetectionInv /\ [ScanNext]_<<setupVars, pipeline>> => DetectionInv'
  <2> SUFFICES ASSUME DetectionInv, [ScanNext]_<<setupVars, pipeline>> PROVE DetectionInv'
    OBVIOUS
  <2>1. [SetupNext]_setupVars
    BY DEF ScanNext
  <2> QED
    BY <2>1, DetectionStep
<1>3. DetectionInv => DetectedAsInTurn
  BY DetectionHolds
<1> QED
  BY <1>1, <1>2, <1>3, PTL DEF ScanSpec
===============================================================================
