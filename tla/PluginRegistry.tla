---------------------------- MODULE PluginRegistry ----------------------------
(***************************************************************************)
(* Loading the plugins a config lists (packages/cli/src/plugin-loader.ts)  *)
(* into the registry of who owns which vocabulary                          *)
(* (packages/plugin-registry/src/registry.ts): each is imported, its       *)
(* manifest checked on its own and against all registered before it, then  *)
(* written into the registry's maps, one after another; the config's       *)
(* framework hints come last. A name such as framework:acme:job is the     *)
(* sequence of its segments, and a prefix owns what extends it.            *)
(***************************************************************************)
EXTENDS Integers, Sequences, FiniteSets

CONSTANTS
    Entries,    \* the plugins a config can list: [field, loads, manifest]
    Hints,      \* manifests synthesized from frameworkHints
    Configs     \* [refs |-> Seq(Entries), hints |-> Seq(Hints)], refs in the order of PLUGIN_FIELDS

Vocabularies == {"effect", "extKind", "framework", "derivedBy"}
Types == {"lang", "framework", "effects"}

\* provides: what it declares by id and what it owns by prefix, in the manifest's order. A framework
\* is only declared by name, a derivedBy tag only owned by prefix.
Manifests == {m \in [name : STRING, type : STRING, root : STRING, plain : BOOLEAN,
                     ids : [Vocabularies -> Seq(Seq(STRING))],
                     prefixes : [Vocabularies -> Seq(Seq(STRING))]] :
                m.prefixes["framework"] = <<>> /\ m.ids["derivedBy"] = <<>>}

ASSUME PluginRegistryAssumption ==
    /\ Hints \subseteq Manifests
    /\ \A e \in Entries : e.manifest \in Manifests
    /\ \A c \in Configs : c.refs \in Seq(Entries) /\ c.hints \in Seq(Hints)

VARIABLES
    refs,        \* the entries still to load, in order
    hints,       \* the hints still to register
    config,      \* what the config listed
    registered,  \* pluginsByName, pluginsStable: the manifest of each name
    ids,         \* owner of each declared id, per vocabulary
    prefixes,    \* owner of each prefix, per vocabulary
    loaded,      \* LoadedPlugins: the manifests routed, in order
    outcome      \* "resolving", "loading", "loaded", "config-error" or "plugin-error"

registry == <<registered, ids, prefixes>>
vars == <<refs, hints, config, registry, loaded, outcome>>

-----------------------------------------------------------------------------
\* isUnderPrefix: value is the prefix, or extends it by whole segments.
Under(value, prefix) ==
    /\ Len(prefix) <= Len(value)
    /\ \A i \in 1..Len(prefix) : value[i] = prefix[i]

IdsOf(m, v) == {m.ids[v][i] : i \in DOMAIN m.ids[v]}
PrefixesOf(m, v) == {m.prefixes[v][i] : i \in DOMAIN m.prefixes[v]}
Declared(m, v) == IdsOf(m, v) \cup PrefixesOf(m, v)

HintNamespace == <<"framework", "hint">>
Reserved == {<<"core">>, <<"aburi">>, <<"_">>, HintNamespace}

BelowGranted(value, granted) == \E g \in granted : value # g /\ Under(value, g)

\* granted: the reserved namespaces it may hold below, never at.
ReservedKept(m, granted) ==
    \A v \in Vocabularies : \A value \in Declared(m, v) :
        BelowGranted(value, granted) \/ \A r \in Reserved : ~Under(value, r)

ExtKindRoots(type) ==
    CASE type = "lang" -> {<<"fp">>, <<"oop">>, <<"meta">>}
      [] type = "framework" -> {<<"framework">>}
      [] OTHER -> {}

TypeAllows(m) ==
    /\ m.type \in Types
    /\ m.type # "effects" => Declared(m, "effect") = {}
    /\ m.type # "framework" => IdsOf(m, "framework") = {}
    /\ \A value \in Declared(m, "extKind") : \E r \in ExtKindRoots(m.type) : Under(value, r)

\* An effects plugin's ids lie below x-<xPrefix>, and that is the one prefix it may own.
RootKept(m) ==
    m.type = "effects" =>
        /\ \A id \in IdsOf(m, "effect") : Len(id) > 1 /\ id[1] = m.root
        /\ PrefixesOf(m, "effect") \subseteq {<<m.root>>}

OnceIn(values) == \A i, j \in DOMAIN values : i # j => values[i] # values[j]
Nested(p, q) == p # q /\ (Under(p, q) \/ Under(q, p))
NoneNested(set) == \A p, q \in set : ~Nested(p, q)

NoOwnDuplicates(m) ==
    /\ OnceIn(m.ids["effect"])
    /\ OnceIn(m.ids["extKind"])
    /\ NoneNested(PrefixesOf(m, "extKind"))
    /\ NoneNested(PrefixesOf(m, "derivedBy"))

RulesKept(m, granted) ==
    ReservedKept(m, granted) /\ TypeAllows(m) /\ RootKept(m) /\ NoOwnDuplicates(m)

-----------------------------------------------------------------------------
\* A declared id that is another's, or that another's prefix owns.
TakenId(m, v) ==
    \E id \in IdsOf(m, v) :
        id \in DOMAIN ids[v] \/ \E p \in DOMAIN prefixes[v] : Under(id, p)

\* Not the code: refuseTakenPrefixes with its ids left to their default, an empty map.
TakenPrefixIgnoringIds(m, v) ==
    \E p \in PrefixesOf(m, v) :
        \E q \in DOMAIN prefixes[v] : Under(p, q) \/ Under(q, p)

\* A prefix that is another's, nests with another's, or owns an id another declared.
TakenPrefix(m, v) ==
    \E p \in PrefixesOf(m, v) :
        \/ \E q \in DOMAIN prefixes[v] : Under(p, q) \/ Under(q, p)
        \/ \E id \in DOMAIN ids[v] : Under(id, p)

Conflicts(m) == \E v \in Vocabularies : TakenId(m, v) \/ TakenPrefix(m, v)

\* Not the code: a name is known whatever its manifest says.
KnownByName(m) == m.name \in DOMAIN registered

Known(m) == m.name \in DOMAIN registered /\ registered[m.name] = m

Refuses(m, granted) ==
    \/ ~m.plain
    \/ /\ ~Known(m)
       /\ \/ m.name \in DOMAIN registered
          \/ ~RulesKept(m, granted)
          \/ Conflicts(m)

\* Map.set of each key.
Put(map, keys, m) ==
    [k \in DOMAIN map \cup keys |-> IF k \in keys THEN m ELSE map[k]]

Write(m) ==
    /\ registered' = Put(registered, {m.name}, m)
    /\ ids' = [v \in Vocabularies |-> Put(ids[v], IdsOf(m, v), m)]
    /\ prefixes' = [v \in Vocabularies |-> Put(prefixes[v], PrefixesOf(m, v), m)]

Register(m) == IF Known(m) THEN UNCHANGED registry ELSE Write(m)

-----------------------------------------------------------------------------
NoOwner == [k \in {} |-> k]
FieldOf(type) ==
    CASE type = "lang" -> "languages"
      [] type = "framework" -> "frameworks"
      [] OTHER -> "effects"

\* Nothing is loaded of what the config lists.
Unloaded ==
    /\ refs = config.refs
    /\ hints = config.hints
    /\ registered = NoOwner
    /\ ids = [v \in Vocabularies |-> NoOwner]
    /\ prefixes = [v \in Vocabularies |-> NoOwner]
    /\ loaded = <<>>
    /\ outcome = "resolving"

Init == config \in Configs /\ Unloaded

\* Every ref is resolved before any module is imported.
Resolve ==
    /\ outcome = "resolving"
    /\ outcome' = IF \E i \in DOMAIN refs : refs[i].loads = "unresolvable"
                  THEN "config-error" ELSE "loading"
    /\ UNCHANGED <<refs, hints, config, registry, loaded>>

\* The module fails to import, is no module, or exports nothing with a manifest.
ImportFails ==
    /\ outcome = "loading" /\ refs # <<>>
    /\ Head(refs).loads = "fails"
    /\ outcome' = "plugin-error"
    /\ UNCHANGED <<refs, hints, config, registry, loaded>>

RegisterRefused ==
    /\ outcome = "loading" /\ refs # <<>>
    /\ Head(refs).loads = "yes"
    /\ Refuses(Head(refs).manifest, {})
    /\ outcome' = "plugin-error"
    /\ UNCHANGED <<refs, hints, config, registry, loaded>>

\* Registered, then routed by type to the list its field feeds.
LoadPlugin ==
    /\ outcome = "loading" /\ refs # <<>>
    /\ Head(refs).loads = "yes"
    /\ ~Refuses(Head(refs).manifest, {})
    /\ Register(Head(refs).manifest)
    /\ IF FieldOf(Head(refs).manifest.type) = Head(refs).field
       THEN /\ loaded' = Append(loaded, Head(refs).manifest)
            /\ refs' = Tail(refs)
            /\ UNCHANGED outcome
       ELSE /\ outcome' = "plugin-error"
            /\ UNCHANGED <<refs, loaded>>
    /\ UNCHANGED <<hints, config>>

HintRefused ==
    /\ outcome = "loading" /\ refs = <<>> /\ hints # <<>>
    /\ Refuses(Head(hints), {HintNamespace})
    /\ outcome' = "config-error"
    /\ UNCHANGED <<refs, hints, config, registry, loaded>>

LoadHint ==
    /\ outcome = "loading" /\ refs = <<>> /\ hints # <<>>
    /\ ~Refuses(Head(hints), {HintNamespace})
    /\ Register(Head(hints))
    /\ loaded' = Append(loaded, Head(hints))
    /\ hints' = Tail(hints)
    /\ UNCHANGED <<refs, config, outcome>>

Finish ==
    /\ outcome = "loading" /\ refs = <<>> /\ hints = <<>>
    /\ outcome' = "loaded"
    /\ UNCHANGED <<refs, hints, config, registry, loaded>>

Next ==
    \/ Resolve \/ ImportFails \/ RegisterRefused \/ LoadPlugin
    \/ HintRefused \/ LoadHint \/ Finish

Spec == Init /\ [][Next]_vars

-----------------------------------------------------------------------------
(* Lookups *)
OwningPrefixes(v, id) == {p \in DOMAIN prefixes[v] : Under(id, p)}

\* uniquePrefixOwner raises on a second match: the invariant register() is to keep.
LookupRaises(v, id) ==
    id \notin DOMAIN ids[v] /\ \E p, q \in OwningPrefixes(v, id) : p # q

Finds(v, id, m) ==
    IF id \in DOMAIN ids[v]
    THEN ids[v][id] = m
    ELSE \E p \in OwningPrefixes(v, id) : prefixes[v][p] = m

Owns(m, v, id) == id \in IdsOf(m, v) \/ \E p \in PrefixesOf(m, v) : Under(id, p)

TypeOK ==
    /\ outcome \in {"resolving", "loading", "loaded", "config-error", "plugin-error"}
    /\ \E i \in 0..Len(config.refs) : refs = SubSeq(config.refs, i + 1, Len(config.refs))
    /\ \E i \in 0..Len(config.hints) : hints = SubSeq(config.hints, i + 1, Len(config.hints))
    /\ DOMAIN ids = Vocabularies /\ DOMAIN prefixes = Vocabularies
    /\ \A n \in DOMAIN registered : registered[n] \in Manifests /\ registered[n].name = n

\* Whatever a registered plugin declared, by id or by a prefix over it, the registry finds as that
\* plugin's, and no lookup of it can raise: no later registration took it over or came to share it,
\* in whichever order ids and prefixes arrived (registry.ts validateConflicts before the writes).
ClaimsAreHonoured ==
    \A n \in DOMAIN registered : \A v \in Vocabularies :
        \A o \in DOMAIN registered : \A id \in Declared(registered[o], v) :
            Owns(registered[n], v, id) => Finds(v, id, registered[n]) /\ ~LookupRaises(v, id)

\* What two manifests may not both claim, said without an order.
Compatible(m, o) ==
    \/ m = o
    \/ /\ m.name # o.name
       /\ \A v \in Vocabularies :
            /\ IdsOf(m, v) \cap IdsOf(o, v) = {}
            /\ \A id \in IdsOf(m, v), p \in PrefixesOf(o, v) : ~Under(id, p)
            /\ \A id \in IdsOf(o, v), p \in PrefixesOf(m, v) : ~Under(id, p)
            /\ \A p \in PrefixesOf(m, v), q \in PrefixesOf(o, v) : ~Under(p, q) /\ ~Under(q, p)

Listed == {config.refs[i] : i \in DOMAIN config.refs}
Hinted == {config.hints[i] : i \in DOMAIN config.hints}

\* A config loads exactly when each of its plugins stands on its own and no two of them claim one
\* name, whatever the order they are listed in (docs/design/extension-vocab.md section 6.1), and
\* then its lists hold each entry, once for each time it is listed.
LoadedIffCompatible ==
  /\ TypeOK
  /\ outcome \in {"loaded", "config-error", "plugin-error"} =>
      LET all == {e.manifest : e \in Listed} \cup Hinted
      IN /\ outcome = "loaded" <=>
              /\ \A e \in Listed : /\ e.loads = "yes"
                                   /\ FieldOf(e.manifest.type) = e.field
                                   /\ e.manifest.plain /\ RulesKept(e.manifest, {})
              /\ \A h \in Hinted : h.plain /\ RulesKept(h, {HintNamespace})
              /\ \A m, o \in all : Compatible(m, o)
         /\ outcome = "loaded" =>
              /\ Len(loaded) = Len(config.refs) + Len(config.hints)
              /\ all = {registered[n] : n \in DOMAIN registered}

=============================================================================
