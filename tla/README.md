# A formal model of Aburi

Aburi scans a workspace into an IR document (Symbols, calls, effects, Components), diffs two of
them, reports the difference in Markdown and gates CI on it. These modules model the parts whose
correctness depends on the order in which things happen, on what fails between two steps, or on an
algorithm a unit test samples thinly. Every definition is translated from the source under
`packages/`; `PROJECT.json` maps each one to its lines, and lists what is hard to test there
("hazards") with the properties that would catch it going wrong.

## Inventory

| Component | State it keeps | Operations | Interacts with | Hard behaviour |
|---|---|---|---|---|
| LSP file pass (`core/src/lsp/file-pass.ts`, `fallback.ts`, `hover-jobs.ts`) | per-file failure streak, per-language fallback streak, job queue, held hovers, hints, statistics | open, documentSymbol, concurrent hovers, apply, close | one language server through `client.ts` | concurrent settles, timeouts, spent budget, server exit, throws |
| LSP session (`lsp/enrich.ts`, `client.ts`, `transport.ts`) | one client and process per language, disabled languages, warnings | spawn, initialize, pass, shutdown, kill | server processes | a bounded shutdown racing a longer one, exits at any time |
| Revision scan (`cli/src/commands/diff-revisions.ts`, `scan-thread.ts`, `signal-cleanup.ts`) | worktree, temporary directory, held log, thread messages, signal listeners | checkout, scan both sides together or in turn, remove | git, worker thread, file system, signals | interleaved logs, failure precedence, late events, signals at any await |
| Set-up of a scan (`core/src/workspace*.ts`, `component-*.ts`, `config/src`, `cli/src/plugin-loader.ts`) | root, config, registry, managers, Components, packages | climb, load, register, detect, name | file system, plugin modules | searches that settle in any order, colliding names, faults at each step |
| Plugin registry (`plugin-registry/src/registry.ts`) | plugins, owners of ids and prefixes | register, look up | manifests, config | claims that overlap, order of loading |
| Scan pipeline (`core/src/scan/`) | files, skip reasons, census, origins, Symbols, words | walk, read, parse, extract, classify, follow origins, assemble | language, framework and effect plugins | a plugin that throws, hangs or overruns at any step; a vanishing file; re-export cycles |
| Effect propagation (`core/src/propagate.ts`, `propagate-graph.ts`) | confidence per node, aggregate per component, worklist | condense, sweep, settle a recursion, emit | the call graph | cycles, two traversals that must agree |
| Call resolution (`core/src/callgraph*.ts`) | name, import and owner indexes, buckets, hints | resolve a call, project | LSP hints, import origins | precedence of scopes, stale hints |
| Matching and diff (`diff/src/`) | two shrinking sets of Symbols, deltas, dependencies, Slices | five matching stages, statuses, deltas, WCC | IR documents | a Symbol claimed twice or lost, maximum matching, endpoints renamed |
| Report and gate (`markdown-projection/src/diff/`, `cli/src/fail-on.ts`) | sections, trees, what the cap took | partition, fold, draw, cap, count | the diff, exit code | an item listed twice or nowhere, a cap that puts back |
| Commands (`cli/src/commands/`, `run.ts`, `output-file.ts`) | written files, exit code | scan, diff, explain | file system, the action | stale reports, torn writes, kills between two writes |
| GitHub Action (`github-action/`) | one marked comment, an exit code | resolve the refs, list pages, create or update | GitHub API, git, other runs, people | concurrent runs, paging over a changing list, lost answers |
| Integrity (`core/src/integrity*.ts`, `id.ts`) | none | check a document | the scan | what is written must be read back |
| Parsing and plugins' pattern tables (`lang-typescript`, `framework-*`, `effects-*`) | syntax trees | extract, classify | the pipeline | not modelled: functions of a syntax tree |

## How the modules fit together

    PluginRegistry ─► HintRules, WorkspaceManagers, ComponentIds ─► ScanSetup ─► SymbolPipeline
    DocumentPath ─► Integrity, ComponentAttribution, Gitignore ─► ScanDocument
    MatchStages, DroppedWeak, ElementDelta, WeakComponents ─► DiffReport ─► ReportPage
    NameSimilarity ─ its tables ─► MatchStages        SizeCap, SliceTrees ─────┘
    ScanInTurn ◄── implemented by ── RevisionScan        PullRequestRefs ─► ActionRun
    LspFilePass   LspSession   Propagate   CallGraph   Commands      (on their own)

`MC*` modules give the constants for a run; a run whose constants fit in a `.cfg` has no such module.
`*_proofs` modules hold the theorems. Definitions that start with "Not the code" or "Mutant of" are
plausible bugs: each property of a run is violated when one of them takes the code's place.

### LspFilePass

One action per step of `enrichLanguageFiles`: `Open` (didOpen, budget check, documentSymbol issued),
`Symbols` (its end, `applyDocumentSymbols`, second budget check), then the worker pool of
`runJobsWithConcurrency` with `Take`, `Settle`, `Stop` per worker, then `Apply` and `HoversDone` (the
`finally` after `Promise.all`), and `Close` (didClose, counters, `FallbackState.onFileClose`).
`BudgetSpent` and `ServerExits` are the environment. A turn of the JavaScript event loop is atomic,
so everything between two awaits is one action. `refused` remembers which requests were issued to a
client that knew of its server's exit; they can only end in an error. A hover's answer is the member
it was read to or one of the three rejections of `applyHover`; `"throw"` is an exception out of
`requestJobHover` or `applyDocumentSymbols`. `answered` and `closed` are history variables.

| Property | Says |
|---|---|
| `RequestsAccounted` | each request issued ends in exactly one counter, hints and rejections add up to the hovers applied, and none is in flight when its file is closed |
| `HintsInJobOrder` | a call site's hint is of the first job in job order, never of the first answer |
| `FallbacksCounted` | a language is disabled exactly after `filesToLanguage` straight fallbacks, and a file opened after the server's exit is known is closed as fallen back |
| `PassEnds` | the pass ends |

Run `lsp_file_pass`: four files, one without content, one without jobs, two jobs on one call-site key,
two workers, thresholds of 2 (132,000 states). Two workers give every overlap of two requests;
thresholds of 2 let a streak be started, broken and reached within one file or the file list.

Run `lsp_fallback_order` is a finding. `docs/design/lsp-enrichment.md` §10 rule 6 promises that, given
identical responses, identical files fall back alike. The streak counts requests in the order they
settle, so with two workers and the default threshold of 3 the responses *error, error, type, error*
fall back or not depending on which of the last two comes first. The run closes two such files, one
fallen back and one enriched.

### LspSession

`enrichWithLsp`'s loop over languages and each server's life. `safeShutdown` gives a shutdown three
grace periods; its steps (request, exit notification, wait, wait after SIGKILL) may last four, so
the loop may move on (`GiveUp`, with a warning) while the shutdown goes on behind the next language, and
behind the rest of the scan until its thread is ended (`Terminate`: `scan-thread.ts:66`, or the end of the
process), which drops the timers. A server whose connection has closed (`ConnectionCloses`) while its
process lives is another way out: `sendRequest` throws at `client.ts:154` before there is a promise whose
failure `.catch` could drop, so `shutdown()` rejects, neither `exit` nor SIGKILL follows, and
`safeShutdown` warns (`ShutdownRejected`). `elapsed` counts ticks within a shutdown; `Grace` ticks make a
grace period. The run `lsp_session` has three languages, one not configured, and two ticks.

`ServerAccountedFor`: a server the loop has left is gone, killed or reported; one warning per language
given up on; none is sent shutdown twice, and one still running was sent it unless its connection had
closed. `EveryServerStopped`: even a shutdown given up on reaches its SIGKILL, except behind a rejected
`shutdown()` or an end of the thread before the SIGKILL was due, and then the server was warned about.
The rejected path is at odds with the comment at `client.ts:151` ("the kill is what ends the process")
and with `docs/design/lsp-enrichment.md:194` (rule 7: `shutdown` is sent on every exit); rule 8 and
`server-lifecycle.test.ts` accept it with its warning. A thread or process that dies in the middle of
enrichment is left to `RevisionScan`.

### ScanInTurn and RevisionScan

`ScanInTurn` is the abstract specification: which lines reach stderr in which order, and whose failure
ends the run, when the base is scanned and then the head. `RevisionScan` is `scanRevisions` with both
ways of scanning, the worker thread's messages and events (a FIFO channel; each receipt is one turn
of the main thread's event loop), the held log, the `finally` block, and the fatal signals'
listeners with their synchronous cleanup. `AsInTurn == Turn!Spec` is the refinement: scanning
together says and decides nothing that scanning in turn would not. The mapping reads the sequential
position off `main` and `released`; `logged` is what has been said of the side under way.

`NothingLeftBehind` is about the temporary worktree, however the run ends, signals included; a scan
that writes into the directory is never running when the `finally` block removes it. The documented
exception (a `git worktree add` that a signal did not reach) is the variable `addCut`, set only when a
signal finds git adding. `RunEnds`: the run returns or is ended by a signal. The run `revision_scan` has
two log lines per side and up to two signals at any point: two lines tell order, duplication and loss,
and a second signal is the only one that behaves differently.

### Propagate

One effect key over the call graph: `Sweep` starts a component at its members' local effects and what
comes from below, `Settle` takes one worklist entry, `Close` computes the component's aggregate. Which
ready component is next and which worklist entry is taken is left open, so the result is shown not to
depend on the code's choices. Strongly connected components are defined by the closed sets of nodes;
what `tarjanSCC` and the heap compute is taken by its result.

`NeverOverstated` and `NothingLeftToRaise` together say the result is the least solution of the
propagation equations. `EffectsSurface`: the sweep ends, and from then on the per-component aggregate and
the per-node confidences agree (the code throws `propagation-invariant-violated` when they do not).
The run `propagate` has four Symbols, two overlapping cycles, edges given twice, three places for the
effect.

### MatchStages, NameSimilarity, DroppedWeak, ElementDelta, WeakComponents, SizeCap, SliceTrees, DiffReport, ReportPage

`MatchStages` is the abstract specification of `buildDiff`'s five stages, one action per step that
consumes Symbols: `MatchById`, `MatchByRename`, the logic groups with their rounds (`OpenGroup`,
`PairLone`, `ScoreGroup`, `AcceptByLogic`, `LeaveGroup`), the names (`ScoreNames`, `AcceptByName`),
`MatchDropped`, and `Report`. `AcceptBest` is one turn of `acceptInScoreOrder`. Groups are opened in any
order; the code takes them in document order. Stage 4 collects its candidates as the code does, by an
index of the tokens of a name's member and a floor below the threshold, while `Comparable` says which
pairs it promises to weigh, shortcuts aside. How alike two names or signatures are comes in tables of
whole parts of `Scale`, which `NameSimilarity` computes for the run: Jaccard scores, the evidence a name
gives, the thresholds by token count, corresponding owners (a perfect matching of same words), and
`signatureSimilarity`. A name is given as the tokens it splits into. Its last stage keeps *some* maximum set of the pairs its keys identify; `DroppedWeak` is the walk of
`maximumMatching` that finds one. `DiffReport` runs the stages with that walk, then the deltas of pairs
(`ElementDelta`: every field of `computeSymbolDelta`, which of them the two fingerprints hash, and the rows
and notes the page prints of a changed Symbol), the dependencies under the head's ids, Components and the Slices (`WeakComponents`:
union-find by rank with halved paths); `MatchesInStages == MatchStages!Spec` is checked of it.
`ReportPage` lists the diff in sections with the test fold, draws the Slice View (`SliceTrees`), caps its
size (`SizeCap`) and counts what the gate counts.

| Property | Says |
|---|---|
| `EachSymbolOnce` | each Symbol of either document stands in exactly one verdict: an entry, or what a counter stands for |
| `NothingPassedOver` | no pair is passed over, by its body or by its name, that nothing better stood against, stage 4's shortcuts included |
| `AbsenceIsEvidence` | added and removed are only said against a side that read the file, under every name it goes by there |
| `MatchesInStages` | with the walked last stage the diff still is one of `MatchStages` |
| `DeltasAreTrue` | a pair's element delta takes, pass by pass, the best set of pairs that do not cross, and the page prints as a base's value only that of the element it was paired with; each field is in the delta exactly if it differs, and a changed Symbol's body tells each of its changes or says that none explains it |
| `EdgesAccounted` | each edge of either document is kept, added, removed or unknown once, added or removed only against a document that read its files, and no two Symbols' ids come to be one |
| `SlicesDrawnWhole` | Slices are what calls join, each call between two changes stands in one row under its caller, and each member is described once |
| `CapHonoured` | a page is over its cap only where nothing fits at all, nothing left out would fit back, and no list is whole below one cut to names |
| `ListedAndGated` | each change is listed once above the test fold or in it, under the first of its axes (API, logic, confidence, syntax), and a gate counts what is listed above |

Run `diff_report` (607,000 states): ten families of documents, each varying what one part of the code
tells apart: matching documents of at most three Symbols out of seven or eight a side, chosen so that
every two stages compete for some Symbol; pairs of names of one to eight tokens, with owners that
correspond up to plurals and order, without a token, of one and of two words' worth of Han characters,
under each threshold; three dropped Symbols a side with any keys (all paths of up to five pairs, all
cycles of up to six); three Symbols with their fates and up to two calls a side; two Components; four
changed Symbols with up to four calls, or a chain of three cut and up to three new ones; up to three
elements in the base and two in the head; signatures, exports, middleware and the other facts of a pair,
one or two of which differ; pairs whose API, logic, confidence and syntax differ in every combination; and four sections at 8,704 page sizes. A third Symbol is what a second round
of a group, a stable matching that is not the first pair, and a claimant that loses need. `MAX_DEPTH` of
a tree is 1 for 5, so that four Symbols reach it. `Parts` is 126, which makes `Scale` a multiple of
every denominator up to 10. A finished report has no next step, so deadlock is not checked. Abstracted:
a call's line is the place of its callee's id, and the bytes of a section are an input.

Run `test_callers` is a finding: a comment (`packages/markdown-projection/src/diff/test-files.ts:31`) says
a call edge that comes or goes moves its caller's calls, so the caller is a change the fold lists. A
pair's status is read from its fingerprints only (`diff/src/status.ts:7`), which do not cover what a
call resolved to: an unchanged test calls a removed Symbol, and its edge is listed outside the fold.

### Commands

`scan`, `diff` and `explain` over one output directory, step by step, each of which can be refused, be
killed (also within a write, which leaves a torn file) or be ended by a plugin's `process.exit`. A
file holds which command wrote it and in what form. Basis: `docs/design/cli-spec.md` §5.3 and
`docs/design/github-action.md` §4. `ReportIsOneRuns`: `diff.json`, `diff.md` and `diff.full.md` are never
of two runs, and what the action posts its own run finished. `ScanOutputIsOneScans`: a scan removes what
an earlier one wrote only when all its own is on disk, and after a scan returned the directory is that
scan's alone. `ExitIsEarned`: 0 means no fault and no tripped gate, and a command that returned wrote
all it was asked for. The run `commands` has three commands (an earlier one, one that stops, one that must
not take what it finds for its own), one Component's page, and at most one path occupied by a file of
the caller's (`MCCommands`; `Commands` itself lets any set of paths be). The scan behind the commands is
one step; `explain --output` outside the directory is left out.

### PluginRegistry, HintRules, WorkspaceManagers, ComponentIds, ComponentAttribution, ScanSetup, SymbolPipeline

`ScanSetup` takes a scan through its stages (root, config, load, plugins, managers, Components,
packages), each with the ways `run.ts` refuses it and the exit code it then has. `PluginRegistry` is the
loader and `register()`; `WorkspaceManagers` the four searches, which settle in any order;
`ComponentIds` the rounds in which contended ids are told apart; `HintRules` the plugins made of
`frameworkHints`. `SymbolPipeline` continues with one file of one or two candidates: the frameworks'
classifications, the drop rules, the calls through the effect plugins, whose clocks run out at any
look, and the vocabulary check.

| Property | Says |
|---|---|
| `RootedAlike` | commands run anywhere in a workspace settle on one root; the search is refused exactly for a probe that failed at or below it, with the code of the lowest, and never for one above |
| `ClaimsAreHonoured` | what a registered plugin declared is found as its own and no lookup raises |
| `LoadedIffCompatible` | a config loads exactly when each plugin stands on its own and no two claim one name, whatever the order (`docs/design/extension-vocab.md` §6.1) |
| `DetectedAsInTurn` | whichever search settles first, the detection fails for the same reason or lists each manager as often as searches come to it and each package directory; the order of two managers of one tool is left open |
| `ComponentsStand` | what a set-up hands on a document can hold, each package directory has its Component, and no id moves but those that contend (`docs/design/component-detect.md` §4.1) |
| `WordsAccounted` | each word in the document is declared by the plugin that said it or on record against it, and the record names no Symbol of a withdrawn or abandoned file (`extension-vocab.md` §6) |
| `AnswersStand` | a Symbol is what the plugins said, never how long they took (`docs/design/effect-plugin.md` EP13) |

Run `scan_setup` (80,000 states): six families, in `MCScanSetup`. Left out: a `--config` path given,
languages, frameworks and display names of a Component, depth limits of walks, changes to the tree
between two looks at it, confidence, middleware, signatures, and the callees an effect plugin has dropped
(`dropCallees`, `extract-files.ts:71`).

`DetectedAsInTurn` cannot say that the list of managers is the tree's: `workspace.ts:93` sorts it by tool
only, nothing sorts it again on its way into the document, and with `pnpm-lock.yaml` beside a
`package.json#workspaces` both manifests spell `pnpm` (`docs/design/component-detect.md`), so the two
entries stand as their searches settled. It counts entries instead, and the order is named below as a
divergence from `docs/roadmap.md:40`.

### DocumentPath, Integrity, Gitignore, ScanDocument

`ScanDocument` is the scan from the walk to the document: discovery with its ignore rules, each file's
turn with every way a plugin can fail it, import origins followed through re-exports (a file asked
about before its turn is peeked at), import edges of Components, assembly. Names are sequences of
characters, because ids and paths are parsed back. `Gitignore` is the matcher, checked against a
reference reading of globs; `Integrity` the checks a document must pass.

`CensusAgrees`: each file stands in the document, the census or the unnameable files once, and the
counts say so. `RulesDecide`: discovery lets pass what git's reading of the rules leaves in.
`OneFileNotTheRun`: what a plugin does to one file costs at most that file, its trees included (but for a
malformed id, which no file's turn catches: `integrity.ts:141` fails the run). `IdsReadBack`: an id is read
back as the parts it was composed of, so no two files share one. `OriginsAgree`: an origin depends on
the files alone, not on the order of the scan. Run `scan_document`: four families of three files,
one of which may vanish; rules of up to three pieces over five paths (217,000 states).

### CallGraph

Every call of a small workspace through the scopes of `callgraph-scopes.ts` and the hints of a server;
path arithmetic and the id grammar are abstracted. The sites are taken in the one order the code takes
them. `ResolvedSoundly`: edges, calls and buckets agree (`docs/design/call-resolution.md` §4.3, integrity
rules 12 to 15), each site that came to a hint is counted for one outcome, consumed exactly where it got
its edge (`docs/design/lsp-enrichment.md` §7.2), and a name a file binds is never taken for a namesake
elsewhere. Run `call_graph`: one caller with every form of target, one
name declared in as many places as the scopes look at (285,000 states).

### PullRequestRefs and ActionRun

`PullRequestRefs` is what the resolver reads from a clone: a history is a constant graph of commits, a
commit's `History` the least set that holds it and the parents of what it holds. `ActionRun` is the
action's runs side by side on one pull request: inputs, set-up, refs, diff, `upsert-comment.mjs` one
request at a time over a paged list that people and bots change meanwhile, and the exit code. A run
may stop at any step (a failed or cancelled one), and a write's answer may be lost after the server
did it. Steps on a run's own runner are taken before requests: they touch nothing shared, so no order
of the requests is left out.

`GreenHasSaidIt`: a run that was asked to comment and ends green has its report on the pull request.
`OneOwnComment`: no second comment of the account's unless something changed behind a listing, and no
one else's is ever rewritten (`docs/design/github-action.md` §5). `RefspecIsThePullRequest`: the two trees
compared are the pull request's head and nothing of the base branch is reported as its own (§2.1).
Run `action_run`: two runs, pages of two, two changes by others, a history with a merge of the base into
the head and merge refs (154,000 states). Which of two concurrent runs' reports is last is not
promised by the code. `RefspecIsThePullRequest` is checked for histories in which two commits have one
merge base (of several git names one, and the code cannot know which) and for merge refs whose first
parent is no older than what the head had merged, as GitHub makes them.

## Fairness

`LspFilePass`, `LspSession`: every await of the pass and of the loop is bounded by a timer
(`raceTimeout`, `raceExit`, `delay`), so an enabled step of the loop or of a worker is eventually
taken, and so is a step of a shutdown that got its request out, as long as its thread lives; neither the
clock running out nor a server's exit, a connection's closing or the end of the thread is fair. `RevisionScan`: git, the file
system and each scan end, and the event loop delivers its messages; signals, thread deaths and a git
the signal missed are not fair. `Propagate` is a sequential loop. The other modules state safety only.

## Proofs

The proof system proves these for every value of the constants that satisfies the assumptions named.
Each theorem that states a property of a run names it; the inductive invariants were model-checked
on the run's constants first.

| Module | Theorems | From |
|---|---|---|
| `Propagate_proofs` | `TypeCorrect`, `NeverOverstatedHolds`, `NothingLeftToRaiseHolds` | `InputsAssumption`: finite Symbols, typed edges and local effects |
| `ReportPage_proofs` | of `MatchStages!Spec`: `TypeCorrect`, `EachSymbolOnceHolds`, `EndpointsStayApartHolds`, `AbsenceIsEvidenceHolds`, `NothingPassedOverHolds`; of `DiffSpec`: `WalkKeepsTheStages`, `DiffKeepsTheStages`, `EdgesAccountedHolds`; of `ReportSpec`: `ReportKeepsTheDiff`, `ListedAndGatedHolds` | `InputsAssumption` (finite documents, no id twice in a document, a rename gives a file one new name), `OrderAssumption`, `ScoreAssumption` (scores are ratios up to 1, the thresholds 17/20, 19/20 and 1, and members that score share a token), `EdgesAssumption` (no edge or Component twice, no id both a Symbol's and a Component's) |
| `ScanSetup_proofs` | of `PluginRegistry!Spec`: `EveryClaimIsHonoured`, `LoadedIffCompatibleHolds`; of `ScanSpec`: `ScanLoadsTheRegistry`, `ClaimsHonouredInAScan`, `LoadedIffCompatibleInAScan`, `RootedAlikeHolds`, `DetectedAsInTurnHolds` | `PluginRegistryAssumption` (manifests have their types), `ConfigsAssumption` (a workspace's config is one the registry may be given), `WorkspacesAssumption` (a chain of directories, not empty), `ManifestsAssumption` (a manifest is one search's; finitely many directories cannot be listed), `CodeUnitsAssumption` (characters have one order) |
| `LspSession_proofs` | `ServerAccountedForHolds` | the number of languages and of ticks are numbers |
| `LspFilePass_proofs` | `RequestsAccountedHolds`, `HintsInJobOrderHolds`, `DisabledAfterStraightFallbacksHolds` (the safety half of `FallbacksCounted`) | jobs and keys are typed and a key names its file (`makeCallSiteKey`), thresholds are positive, replies are replies |
| `RevisionScan_proofs` | `NothingLeftBehindHolds`, `RunsAsInTurn` | the numbers of lines are numbers |
| `Commands_proofs` | `ReportIsOneRunsHolds`, `ExitIsEarnedHolds`, `ScanOutputIsOneScansHolds` | `CommandsAssumption`: any number of commands, any pages, anything in the way at first |
| `ActionRun_proofs` | `GreenHasSaidItHolds`, `OneOwnCommentHolds` | `ActionRunAssumption`: comments are numbered in order; any runs, pages, meddling |

**Propagate.** `NeverOverstated` is inductive as it stands, from monotonicity of `Offer`
(`OfferBelow`). `NothingLeftToRaise` is not: it says nothing before the end. `SweepInv` says of every
node swept or under way that its local effect is taken, its callees are settled, and each call's
offer is taken or its callee is still on the worklist. Neither needs that the components are strongly
connected, only that they are swept callees first.

**ReportPage: the stages.** All but the last follow from `IInv`: the pairs are one to one (`OneToOne`), a scored pair still to
decide holds no claimed Symbol (`CandidatesFree`: it makes every later acceptance one to one), after the
first stage Symbols of one id are a pair (`SameIdsPaired`: an unpaired base Symbol's id is then nobody's
in the head, which keeps endpoints apart), what each stage finds (`StageShape`), and a report holds
the verdicts (`Reported`). The order of the ids is used once, for the one winner of a rename.
`NothingPassedOver` needs `LeftInv` beside it. A logic group that is done stays exhausted
(`GroupsExhausted`), since a later pair takes its Symbols from one group only (`OtherGroups`); and in the
name stage a comparable pair no earlier stage touched is still a candidate or has lost a Symbol to a
pair that scores at least as high (`NamesWeighed`), which the order of acceptance keeps. That its
candidates are all the comparable pairs is `ShortcutsLeaveNoneOut`: a pair that reaches its threshold has
members that score above 0 and above the floor, whatever its signatures say, so it shares a token, and
the index reaches it.

**ReportPage: the diff.** `WalkKeepsTheStages` is the refinement of `MatchStages` by the walk of its last stage.
On each side a pair shares its Symbol with one other at most, which the other key identified
(`OneNeighbour`), so the pairs form paths and cycles. `OnWay` says of a walk under way that all it passed
is closed but for two ways out, where it started and where it stands; started at the end of a path, the
first leads nowhere (`WalkCloses`). The taken pairs of one walk are those of one key, so no two share a
Symbol (`TakenApart`), and each pair left out is answered for by the taken one just before it, which
answers for no other (`Answered`). That is an injection from any other set of pairs that share no Symbol
into those taken, so none is larger (`WalkedIsMaximum`). `DiffKeepsTheStages` carries the theorems of
`MatchStages` over to the diff. `EdgesAccounted` rests on `HeadIdReads`, that `headIdsByBaseId`, built from the
report's entries, reads every id as the pairs do although unchanged pairs are not in it, and on
`IdsStayApart`, that it is one to one on the ids of Symbols and Components, which is why a collision
takes an end that is neither.

**ReportPage: the page.** Nothing changes the diff once it is built, so `PageInv` says what the page lists and
folds of the entries as they stand; `ReportKeepsTheDiff` makes each step of the report one of the diff or a
stutter. `ListedAndGated` is then counting: which section and group an entry stands in is a function of it
(`ListedAs`, `FoldedAs`), a pair called changed has moved on one of the four axes (`ContentHasAxis`,
from `classifyStatus`; `OneAxis`), so that `routeChanged` lists it somewhere, no two entries go by one id
(`OneEntryPerId`), and the two sums of a gate are the
cardinalities of two parts of the entries.

**ScanSetup: the registry.** `Owned`: the maps hold exactly what the registered manifests declare, no two prefixes
of a vocabulary nest (`Flat`), no id lies under another's prefix (`Unshadowed`). `PrefixesComparable` (two
prefixes of one name nest) turns that into one owner for each lookup.
`LoadedIffCompatible` needs `LoadInv`: what the loader has passed of the two lists stands on its own and
fits with the rest of it (`PassedStands`), the registry holds exactly that until a refusal (`Settled`), and
the maps hold nothing no registered manifest declared (`Sourced`). `ConflictsIffIncompatible` turns the
code's ordered check against the maps into the symmetric relation of the property.
`ScanLoadsTheRegistry` shows that a scan's set-up leaves the registry alone or takes one of its steps, so
both hold of a scan.

**ScanSetup: root and managers.** `ClimbInv` says what the climb has seen of the chain below where it
stands (`Climbed`): the outermost marker, the lowest failed probe. Where it ends depends on the
repository's root alone, which is the same from every directory below; a search that was refused has
ended there too, with its lowest failed probe at or below the root (`FailedInside`). For the searches, `DetectionInv`
says that at any moment the managers, package directories and failures are what the searches settled so
far come to, each once; when none is left that does not depend on the order. The lowest of several
unlisted directories is one because `Before` is a strict total order on names (`BeforeOrders`), which
takes a minimum over a finite set of them.

**LspSession.** `SessionInv` follows a language through three stations: not reached, started, and from
`shutdown()` on, where it says which of exited, killed or reported the remaining steps still owe; a call
that was rejected owes nothing but its warning, and found the connection closed.

**LspFilePass.** `PassInv` keeps the two sums of `RequestsAccounted` beside what makes them move: which
jobs are in flight and which are held (`AtRest`, `AtWork`) and that the hints filed so far are those of
the jobs applied (`Filed`), in job order.
`Streak` adds that `langStreak` is the length of the run of fallbacks that ends the closed files.

**RevisionScan.** `CheckoutInv` says at each station of the main thread what is on disk, who can still
write there and which listener is armed. The refinement needs `TurnInv`: what the base has said plus
what is still on the channel is what it logged, in that order, and the head's lines are withheld
until the base's are out. Each action then maps to one step of `ScanInTurn` or to a stutter.

**Commands.** `CmdInv` says for each phase of a command what of its list is still to do and what is on
disk: after the removals nothing of an earlier report is, and a file written is whole until the
command ends. A kill may come anywhere, so each phase's part must hold of what a torn write leaves.

**ActionRun.** `ActionInv` says, run by run, what a listing has established of comments that change
behind it. `UnseenBy`: an undisturbed run that could read every row has passed none it may rewrite. A
deletion moves the rest of the list up under the pages read, so `InStepWith` (such a run has asked
for no page past the end) is needed beside it, and a deletion within what was read counts as a
disturbance. `FoundBy`: the comment a run is about to rewrite is the account's, or gone.

The proofs changed the models in a few places, each checked again: overlapping `CASE` arms became
chains of `IF`s; recursive operators became recursive functions; `History` is defined by closed sets; `said` in
`ActionRun` records a comment of the account's whoever posts it; `Commands` starts from any occupied paths.

Only model-checked:

- liveness (`PassEnds`, `EveryServerStopped`, `RunEnds`, `EffectsSurface`, `FallbacksCounted` as far as it
  is temporal), which is out of the proof system's reach;
- what recursive functions compute of their data, which would take an induction the provers cannot
  instantiate: `DeltasAreTrue` (the best pairing of two lists), `SlicesDrawnWhole` (the forest of
  `WeakComponents` and the trees of `SliceTrees`), `CapHonoured` (the rounds of `SizeCap`), `RulesDecide` (the
  glob matcher), `IdsReadBack`, `OriginsAgree` (re-exports followed);
- `WordsAccounted` and `AnswersStand`, whose calls come sorted, and `ComponentsStand`, whose rounds are folds:
  the same induction;
- `CensusAgrees`, `OneFileNotTheRun` and `ResolvedSoundly`: within reach, but each needs an invariant over
  a whole document, and none is written yet;
- `RefspecIsThePullRequest`, which holds only of the histories named above; and `NameSimilarity`, whose
  tables the theorems take as given under `ScoreAssumption`.

## Plan

1. Prove `ResolvedSoundly`, whose tallies are sums over sets of calls, then `CensusAgrees`.
2. Model tsconfig paths (`lang-typescript/src/tsconfig-paths.ts`) as a source of import origins.
3. Document shape and effect vocabulary checks of integrity.

## Not modelled

Parsing and syntax-tree extraction, the pattern tables of framework and effect plugins, the config's
schema, canonical serialization, the wording of Markdown and the changelog: functions of their input
with no interleaving, whose state space is their data. The file system below the temporary directory
is one flag; a scan still creating files while a signal's cleanup removes them is therefore not shown.
Divergences between docs and code met on the way that no run decides: `component-detect.md` §4.4 says
more than 5% and more than 10 files where the code takes 10 and 5% in; two managers of one
tool are listed in the order their searches settled (`workspace.ts:93` sorts by the tool only), against
`docs/roadmap.md:40`'s byte-identical IR of three scans of one tree.
