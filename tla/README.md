# dbt-tools-ts in TLA+

Models, model-checking runs and machine-checked proofs about the programs of
this repository: a TypeScript monorepo that loads the artifacts a dbt run leaves
(`manifest.json`, `run_results.json`, optionally `catalog.json` and
`sources.json`) from a directory or an object store, builds an analysis snapshot
of them, and answers questions about it from an MCP server, a command line and a
web application. Paths below are relative to `src/`.

`tlc -config <cfg> <module>` repeats a run (§3), `tlapm <module>.tla` a proof (§4).

## 1. The system

| Component | State | Operations | Hard behaviour | What makes it correct |
|---|---|---|---|---|
| Artifact root (directory, S3 or GCS prefix; outside the repository) | two required files, two optional ones, overwritten in place | list, read | rewritten by dbt without a lock, files written one after the other, may disappear | - |
| `ArtifactWorkspace` (`packages/core/src/artifact-workspace/index.ts`) | bound root, epoch, runs, snapshot, stale flags, pending run, LRU cache, three promises | setTarget, unsetTarget, clearCachedTargets, initialize, refreshIfChanged, listRuns, selectRun, acceptPendingRun, getLoadedWorkspace, runUseCase | callers overlap at every await; some operations are chained, some are not, refreshes are coalesced; loads fail | the snapshot belongs to the bound root; an outdated snapshot says so; every call settles |
| Location, discovery, load pipeline (`core/src/io`, `artifact-workspace/load-pipeline.ts`) | - | parse a target, list a place, read files | several reads per load, any of which may fail | what is opened is what is stored at the place named; the snapshot is what the version token names |
| Load progress (`artifact-workspace/progress.ts`, MCP `progress/`) | callback, subscribers | subscribe, emit | swapped around overlapping calls | a caller hears of its own load only |
| MCP server (`packages/mcp`) | the workspace, a poll timer | ten tools, resources, prompts | tool calls and the timer overlap | as for the workspace |
| Web artifact source service (`packages/web/src/artifact-source/source-service.ts`) | configured source, generation, run selection, pending run, payload cache | configure, status, refresh, accept, switch, read payload | HTTP handlers overlap at every await | a configured source is not undone by older work; the payload is of the loaded version |
| Page session and analysis worker (`packages/web/src/services`, `workers`, `hooks`) | page analysis, load generation, worker cache | preload, load, accept, reload, poll, search | messages between two threads and a server; superseded loads | the newest request wins; nothing waits for ever |
| Results query worker and Runs view | rows, controls, page of matches | set a control, scroll | late answers, a worker that is replaced | the rows shown answer the controls as they stand |
| Navigation and URL | view state, URL, history | navigate, Back, Forward | state and URL written from each other | Back shows what one left |
| Explorer, lineage, timeline | expansion, filters, depth, window | select, filter, expand, zoom, hover | effects that react to each other | what is drawn agrees with the controls and the graph |
| Manifest graph, dependency query (`analysis/manifest`, `dependencies`) | a graph | build, upstream/downstream with depth, build order, tree, subgraph, columns | diamonds, cycles, depth limits | agrees with reachability |
| Execution analysis, snapshot (`analysis/execution`, `analysis/snapshot`) | - | critical path, threads, run summary, timeline | partial runs, rows that stand for others | agrees with the definition |
| Search, ranking, result queries (`analysis/search`, `discovery`, `intent`) | - | filter, rank, sort, page | ties, page boundaries | pages partition the matches; a target is the unambiguous best |
| CLI, options, configuration (`packages/cli`, `config`, web `server`) | none between commands | one query per process; flags and environment | precedence; artifacts missing or changing | the same words mean the same place at every entry |
| Use cases, contracts, errors, formatting, introspection | - | parse, dispatch, print | - | - |

The MCP server and the CLI use `ArtifactWorkspace` through `runUseCase`. The web
server has its own service (`ArtifactSourceService`) over the same discovery
code, and the browser parses the files it fetches from it in a worker. All three
follow one stale-load rule (`packages/core/src/session-binding.ts`, ADR-0011):
capture epoch and scope before an await, commit after it only if both are
unchanged.

## 2. Modules

| Module | Models |
|---|---|
| `SessionBinding` | `captureSessionBinding` and `isSessionBindingCurrent` |
| `ArtifactStore` | the artifact roots: dbt's two writes, removal, request faults, and what a listing and its version token tell |
| `ArtifactWorkspace` | the class of that name over `ArtifactStore` |
| `ArtifactSession` | the abstract session: bind, serve a snapshot once published at that root, keep up to `Capacity` of them; no promises, queues or files |
| `ArtifactSourceService` | the web server's session over `ArtifactStore`: bootstrap, configure, refresh, accept and switch, artifact reads |
| `PageSession` | one browser tab: page, analysis worker, and the server as what it answers |
| `Lists` | JavaScript's `filter` and stable `sort`, of sets instead of tests, so that proofs can unfold them |
| `ManifestGraph` | building the graph; traversals, build order, tree, subgraph, summary, column lineage |
| `ExecutionAnalysis` | executions, critical path, summary, snapshot with its timeline rows, resources and breakdowns |
| `ResultQuery` | `runs.query` and the commands that list executions |
| `ResourceDiscovery` | query parsing, ranking, target resolution, `impact`, `explain`, `inventory` |
| `RunsResults` | the Runs view, its hook, and the results query worker |
| `WorkspaceUrl` | navigation, the URL and the browser's history |
| `ExplorerTree` | the tree of the explorer, its filters and its expansion effects |
| `LineageModel` | nodes, columns, cards and edges of the lineage, its legend, and the panel's controls |
| `TimelineChart` | rows, neighbourhood, layout, hit test, brush and keyboard of the timeline |
| `ArtifactOpening` | from flags and environment to a place, and from the place to the files a command or session opens |
| `Investigation` | composes the last ten: questions asked of a bundle, and one view or opening at a time |
| `MC...` | the operation sets, instances and symmetries TLC needs |
| `InductionLemmas`, `ArtifactStoreProofs`, `ArtifactWorkspaceProofs`, `ArtifactSourceServiceProofs`, `PageSessionProofs`, `InvestigationProofs`, `QuestionProofs`, `TimelineProofs` | the theorems of §4 |

`ArtifactStore` and `SessionBinding` are shared by the workspace and the service.
The page composes with the service through its promises (a request is answered,
each bundle is of one source): `PageSession` has the server answer with a source,
a version and a pending run, not with the service's protocol.

Operators marked *Mutant of* (`TouchedInPlace` and the like) are plausible bugs
the properties must be able to tell from the code; nothing else uses them.

### ArtifactWorkspace

JavaScript runs one continuation at a time, so an action is the code between two
awaits. A *process* is a caller with at most one outstanding call, or `InitJob`,
the work behind `initializePromise`. `pc` says where it stands:

- `queued`: behind others on `serializedOps` (`queue`; its head is running);
- `joined`: awaiting the `refreshPromise` of `refreshOwner`;
- `initializing`, then `initialized` or `initFailed`: awaiting `initializePromise`;
- `discovering`: the listing is under way; `loading`: the two reads are, in
  either order, each an action of its own (`ReadManifest`, `ReadRunResults`);
- `returned`, `threw`: settled.

`job` holds what the work captured: the root it lists, the binding, the run it
compares with or reads, and what it has read. Each operation is a `Start...`
action (the synchronous part once it is its turn), `...Discovers` (after the
listing), `...Commits` (after the load) and `...Fails`. The names of variables
and operators follow the source.

Data is abstract: a root holds which dbt invocation wrote each file, a version
token is the pair of those, a snapshot remembers the run it was loaded as and
what its bytes came from. The run id is always `current`, as the root-only
layout of discovery makes it. `idle` of a cache entry is `now - lastAccessedAtMs`
in ticks, saturating past the ttl. Optional files, parsing, progress callbacks,
debug logs and the contents of snapshots are left out here. `runUseCase` is
`getLoadedWorkspace` and a pure query of its result.

### ArtifactSourceService

Nothing queues the routes: a *process* is a tab or timer with at most one HTTP
request outstanding, or `Boot`, the promise every request awaits
(`ensureReady`). `pc`: `awaitingReady`, then `discovering` (a configure's
listing), `joined` (to the one `refresh`) or `reading` (both files, in either
order), then `returned` or `threw`. `source` stands for mode, location, client
and configuration, which are always assigned together; `runs` is empty exactly
when the last applied discovery was not ok. Tokens are strings made of mtimes,
etags and generations; the model takes those of two roots as different and keeps
the whole run in `loadedVersion`. `accept` and `switch` share `StartSelect`, the
local-source check apart. An applied configure keeps its `request` and `job`
after its answer, for `ConfigureTakesEffect`.

### PageSession

The page, the worker and the server take turns. `jobs` are the operations of the
page that await something (the preload, loads, an accept, refetches announced by
the dev server): `ask` and `fetch` wait for the server, `parse` for the worker.
Page and worker are joined by two FIFO channels, `inbox` and `outbox`; every
answer is a step of its own, so operations overtake each other. React runs the
effects of a render before the next message, so a render belongs to the step
that causes it. The server's answers include a status with an error of discovery
and no source, none at all, and that of the fallback for older servers; the worker's
`error` event may come at any time and rejects whatever waits then. `page.gen` is `loadGenerationRef`, `page.shownBy` (a history
variable) the generation of the operation whose analysis is shown.

### Investigation and its modules

A behaviour of `Investigation` plays one *scene* (`questions`, `runs`,
`navigation`, `explorer`, `lineage`, `timeline`, `opening`); the variables of the
others stay idle. The question modules are pure operators translated from the
core; a question is one action, and a list is followed page by page. The views
are state machines: an event of the user, its render and the effects the render
runs are one step; the results worker has its own steps and messages. Names,
words and texts are numbers or short sequences, times small integers. The
reference definitions the answers are compared with (`Reached`, `IsChain`,
`ListMatches` ...) are written from the meaning of the question, over edges and
sets, and share no traversal with the modelled code.

## 3. Runs

| Run | Shows |
|---|---|
| `workspace_mcp` | two MCP calls and the poll timer on two roots, cache of one, one fault: what is served is of the bound root, and a refresh, queued or joined, leaves a snapshot |
| `workspace_cache` | one caller, three roots, cache of two with ttl: LRU order, expiry, refinement of `ArtifactSession` |
| `workspace_liveness` | calls settle and the snapshot catches up, with faults, under fairness |
| `workspace_public` | every public operation, without automatic reload, on one root: the snapshot is the root's |
| `web_service` | a page that waits for its answers, a second tab that fetches, the poll timer: what is pinned fits the loaded version |
| `web_tabs` | two tabs that configure at any time, and the timer: the last configure wins |
| `web_liveness` | requests are answered and polling notices a new run, with a fault, under fairness |
| `web_page` | one tab: preload, two loads, accept, refetch, polling and the omnibox overlap, with a failing request, parse or worker |
| `investigation` | every question over three graphs and three run results, and every view under a few events |
| `workspace_pending`, `web_revert`, `page_retry` | findings 1 to 3 below |

Bounds. `MaxRuns` dbt invocations per root: two let a root change once while it
is being read, which is what a torn read, a changed token and a newer snapshot
need. `MaxFaults` counts failing requests and removals together. `MaxGeneration`
bounds the calls that start a new binding (also the queued ones): two allow a
load of the first binding to finish under the second and the third. Two clients
and the timer are the fewest with one running, one queued and one joined:
a client joins the other's refresh or the timer's, and the timer a client's. Three
roots over a cache of two make an eviction with a choice of victim. Clients and
roots are symmetric; the liveness run uses no symmetry.

The web runs have one prefix and one directory, the least with a remote source to
poll and another to configure; `MaxGeneration` there bounds configure requests:
two in `web_tabs`, whose question is which of two wins, one elsewhere (after the
bootstrap's source, so a first source is still replaced by a second). One tab
waits for each answer in `web_service` because the page disables its buttons
meanwhile; the second tab of that run only fetches, as the page does with several
requests at once.

`web_page`: two clicks (`MaxClicks`) of loads or accepts besides the preload and
a refetch make three generations, so that an answer of the first can come after
the second and the third; `MaxVersion` of two lets a bundle change once. Loads
are symmetric.

`investigation`: the manifests have a chain with an ephemeral model and a test, a
fork (diamond), and a cycle; the results run all, some in another order, or two
of them with several statuses; depths are 1, 2 and unlimited. The lists are cut
into pages of one and two over at most ten rows, so first, middle, last and empty
pages occur. The Runs view sends at most `MaxRequests` queries with batches of one
row, over an analysis that is replaced once. The history has `MaxHistory` entries,
which is Back, Forward and a truncated future. The controls of a view are used
with the values the configuration lists; each is one that shows, hides or
combines with something in the instance. `ChartW`, `MinBrushWindow`,
`MaxDirectEdges`, `MaxExtendedEdges`, `BatchSize` stand for larger constants of
the code (`MIN_BRUSH_WINDOW_MS`, `TIMELINE_MAX_UPSTREAM_EDGES`,
`TIMELINE_EXTENDED_MAX_EDGES_PER_DIRECTION`, `RESULTS_BATCH_SIZE`), small enough
here to be reached.

Deadlock is checked where something can always happen; `web_page` and
`investigation` end when nobody acts any more (`CHECK_DEADLOCK FALSE`).

Fairness (`Fairness`): the event loop runs every ready continuation and every
request settles, so each caller's operation and `InitJob` are weakly fair; the
interval timer keeps firing, so the poller's call is (and in the web service the
request of a handler whose only operation is `refresh`). Clients, dbt, time and
faults owe nothing. `SnapshotCatchesUp` holds only because faults are finitely
many (`MaxFaults`), as the code retries at each poll for ever.

### Properties worth a remark

Sessions:

- `LoadedBelongsToTarget`, `RunsBelongToTarget`, `CacheBelongsToKey`: the
  stale-load rule seen from outside, over all overlaps.
- `UnchangedTokenMeansExact`: the token is taken before the bytes are read, so a
  snapshot may be newer than its token but never older; equality with what is
  listed now then proves the bytes exact. This is why skipping a reload on an
  equal token is safe although loads can be torn.
- `OutdatedIsStale`: at rest, a snapshot other than the run last discovered is
  reported stale.
- `CacheIsLRU`, `NoExpiredHit`: the victim is the least recently used root and
  not the one in use; what has expired is never served.
- `ImplementsSession`: refinement of `ArtifactSession` under
  `snapshot <- loaded.run`, `saved <- targetCache`.
- `RefreshLoads`: a refresh is answered only when a snapshot is in memory, also
  for whoever joined it, however bindings, removals and failures are queued
  around it; what joined the poll's refresh is excepted (finding 4).
- `SnapshotCatchesUp`, `NewRunIsNoticed`, `EveryCallSettles`,
  `EveryRequestSettles`: leads-to, under the fairness above.
- `CacheBelongsToVersion`, `UnchangedVersionIsExact`: the first and third idea
  for the web server's pinned payload. They survive even the revert of finding 2,
  because a refresh touches neither the payload nor the loaded version.
- `ConfigureTakesEffect`: a configure that was answered and not superseded stays
  in effect, whatever was in flight when it was sent.

Page:

- `NewerClickWins`: what is shown never gives way to an operation started
  earlier. `NoAutoSwitch`: a remote analysis is replaced only by the user.
- `ReloadIsNotBlocked`, `CardIsBacked`: flags that a superseded operation leaves
  set do no harm (as far as they do none; see the observations).
- `EveryWaitIsAnswered`: whatever waits has its message under way in one of the
  channels, also after the worker failed; with FIFO channels nothing waits for
  ever. `ShownIsSearchable`: a page with an analysis has a worker with one.

Questions and views (compared with a reference definition in `Investigation` or
in the view's module):

- `DependenciesAreReachable`, `CriticalPathIsExecutedChain`: the graph's answers,
  over chains, diamonds and cycles.
- `TimelineIsConsistent`: the rows are exactly the executions that were timed and
  the sources that stand for some of them: each with tests among the rows, and of
  the others, in the project, each with dependents among them. The row of such a
  source is compared with just those, start, end and status.
- `PagesPartitionMatches`: whoever follows the offsets gets every match once. Some
  results of the run name a resource that is gone from the manifest: a query of
  executions whose page comes to one of them throws (`Failed`), and the property
  says that nothing else makes it fail and that no such row is given.
- `SearchIsDiscoverable`, `ResolvedIsUnambiguousBest`: the two rankings agree;
  a target named by words is not one of several that fit as well. Both are about
  scores without the bonus for eight neighbours (`rank.ts:320`). It makes no
  difference to the first, as it is added to what scores already; the second says
  so (`HasHub`), see the observations.
- `ResultsAreCurrent`: when all is answered, the rows shown are those of the
  controls as they stand, although older queries were under way.
- `BackShowsWhatWasLeft`: for entries the page wrote itself; what comes back is
  `Restored`, in which a depth above 10 is 10 (the observations say why).
- `SelectedIsRevealed`: the explorer's two expansion effects. `IssuesAreMarked`:
  badges over collapsed branches, while no filter is set and for problems of tests.
- `LineageIsConnected`, `TimelineShowsNeighbourhood`: what is left after filters,
  merging and caps hangs together with the selection; edges join shown rows.
- `RowsAreFound`, `DragKeepsWindow`: layout and hit test are inverse; the brush
  keeps a window inside the run.
- `EntriesAgree`: CLI, MCP and web open the same place for the same words.
- `OpenedIsStored`: while nothing changes, a command is refused exactly when one of
  the files it `Needs` is absent, and otherwise has loaded exactly those it `Shows`
  that are there; under changes and faults, what it loads or misses was so at some
  time. `Needs` and `Shows` are written from what the commands print, not from the
  plan that `Decide` computes.

Each property of a passing run is violated when one modelled definition is
replaced by a plausible bug (`mutants` in `PROJECT.json`).

### Findings

1. `workspace_pending`: `pendingRun` outlives a switch of the root, and
   `acceptPendingRun` then serves and caches the old root's snapshot as the new
   one's. Only with `autoReloadOnPoll: false`, which no surface in the repository
   sets today; `LoadedBelongs` (§4) proves that with `true` it cannot happen.
2. `web_revert`: a poll that starts while a configure is discovering binds to the
   generation the configure has already bumped, and if it ends last it puts the
   old source back (loaded version and payload stay the new ones).
3. `page_retry`: after an accept whose files could not be fetched the page keeps
   the run to offer it again, but the poll that starts right away answers with the
   server's status, in which that run is no longer pending.

Three more have no run of their own:

4. A tool refresh that joins the poll's queued refresh inherits its
   `coldLoadIfUnloaded: false` (`index.ts:306`) and is answered with nothing loaded,
   though the `refresh-snapshot` skill (`SKILL.md:15`) promises a loaded snapshot.
   That promise is `RefreshIsDone`, violated with the constants of
   `WorkspaceMcp.cfg`; `RefreshLoads` is the promise with this one exception, for
   every other way to join.
5. A workspace refresh that finds the token unchanged does not clear `stale` and
   `lastRefreshError`; after one transient failure the status stays stale until
   dbt runs again (`RefreshClearsStale`, violated with the constants of
   `WorkspaceMcp.cfg`).
6. The error of a failed poll outlives a configure of a local directory, whose
   status then has that error and no current source until the server restarts or
   a remote poll succeeds (`RefreshErrorIsOfRemote`, violated with the constants
   of `WebRevert.cfg` and one fault).

### Observations

What the models say that no text of the repository contradicts:

*Workspace.* `listRuns` commits without a binding check (no caller; left out of
the runs of `RunsBelongToTarget`). `selectRun` records the selection before a
load that may fail. A load during a dbt run can pair the files of two
invocations; it heals with the next refresh.

*Web server.* A bootstrap that rejects (an unparsable target, one failed
request) fails every later request for good. Two overlapping accepts can pin the
older bytes. A prefix that was empty at the bootstrap never gets a pending run.

*Page.* `remoteRefreshError` is cleared only by a remote refresh that succeeds
(`source-service.ts:367`), so after a failed one a directory that was configured
reports no current source, and the page ends its load with "Artifacts are not
ready to load." although configure succeeded. When the fallback of the older
servers fails too, the page shows no source and no error. A preload superseded by a load that fails leaves the loading card. The
worker keeps the analysis it processed last, so after a rejected load it may
search another bundle than the one shown. The results worker has no `onerror`: an
exception while indexing leaves "indexing" for ever.

*Graph and analysis.* The critical path is longest by nodes, not by time. An
executed node whose only dependents did not run ends no path. Tree recursion has
no end on a cycle through the root. Two spellings of a status each get the whole
duration of the label. "runtime error" has the tone danger but severity 0.
A query of executions fails as a whole for the pages that come to an executed id
which is not in the manifest (`run-results.ts:349`), and other pages of the same
query do not. A metric sort or minimum without a warehouse subcommand is dropped silently by the
CLI.

*Navigation.* The depths of the first URL are taken as they are
(`workspace-url-sync.ts:163`), those of Back and Forward are clamped to 10
(`app-navigation.ts:177`): from `up=50` an entry the page wrote says 50, Back onto
it shows 10, and the URL that is then written is another one, so that it is pushed
and the entries ahead are dropped.

*Resolution.* `resolveIntentTarget` compares the first two matches only, and
refuses only when name and type are both the same; the bonus of hubs can put a
resource of another name between two namesakes, which hides that they are
ambiguous. Discovery is called a superset of `search`; for no words, or an empty one
(`owner:`), search finds everything and discovery nothing.

*Runs and explorer.* The default sort `attention` descending puts danger last.
Facets count the current matches only. Badges come from the filtered resources
while the status filter uses the scoped ones. The tests section says all tests
pass when some were skipped, which the explorer counts as attention. The project
root cannot be collapsed while nothing else is expanded.

*Lineage.* The "longest-path rank" is computed in breadth-first order and is not
the longest; a node that is up- and downstream gets the last of two columns.
Legend keys persist when the selection changes.

*Timeline.* A parent's bar is hit without a look at the height, so a test chip
that overlaps it cannot be reached. A zoom window persists while filtering
shortens the run, and dragging it may then hide every row. The brush cannot
create a window while unzoomed, nor zoom runs under a second. A hovered item that
is filtered away is still selected by Enter. "Failures only" also keeps what was
skipped. The failed filter is case-sensitive.

*Opening.* `status` of a remote target reports the age of a temporary file. A
failed remote read counts as absence. `graph --field-level` refuses a bad catalog
and passes over a missing one, `deps --field` passes over both. Keys with a
doubled slash are found and then joined to keys that do not exist
(`HasOddKeys`, excepted by `OpenedIsStored`). The web's `--target ~/x` is not
expanded; web and MCP refuse different option-like values.

## 4. Proofs

For any values of the constants that satisfy the named assumptions. They are:
`StoreAssumption`, `WorkspaceAssumption`, `ServiceAssumption`, `PageAssumption`
(distinct process names, naturals as bounds); `NoneIs...` (`None` is no run, run
id, snapshot, request or payload); and for the views, what a program could not be
given otherwise: `SortIsNamed` (a question sorts by something), `CatalogsOfResources`
(catalogs are finite, `Missing` is no id), `ControlsOfLineage` (depths are numbers),
`RunsOfBars` (the times of a timeline and the points of its brush are numbers, the
least window is positive), `RunsOfGraphs` (the adjacency of a run has an entry for each
of its rows, with each neighbour once and every edge seen from both of its ends, as
`executions.ts:31` and `build.ts:131` make it of the graph; nothing within three hops is
both above and below a row; depth and direction are among those the page offers, the
caps are numbers and that of the farther edges is positive), `LineageIsOfResources` (of each resource the lineage has
the resources beside it, as `mapDependencyNeighbors` lists neighbours in the graph of
all of them), `BundlesAreRuns` (lists are lists, an id starts with the
type dbt gives the resource, no name reads like an id, dbt reports once on each
resource, a metric is a natural, a step ends no earlier than it starts, a unit test
is not attached to a test, the columns of a catalog are numbered from 1, and no id is
given twice to the graph, which would throw), `DepthsArePositive` (a depth asked for
is positive or without limit), `SearchesAreQueries` (a query is a list of tokens), `ListingsAreRequests` (a list is asked for with some types, from its
first page, with the block of one warehouse at most and minima of its metrics),
`OpeningsAreTexts` (flags, environment and keys are texts, stored files have a
version; `Names` are the words texts are made of, of which there may be any number).

| Theorem | States | Also assumes |
|---|---|---|
| `ArtifactWorkspaceProofs!TypeCorrect` | `[]TypeOK` | - |
| `ArtifactWorkspaceProofs!LoadedBelongs` | `[]LoadedBelongsToTarget` | `AutoReloadOnPoll` |
| `ArtifactWorkspaceProofs!RunsBelong`, `!CacheBelongsTheorem` | `[]RunsBelongToTarget`, `[]CacheBelongsToKey` | the same, and nobody calls `listRuns` |
| `ArtifactWorkspaceProofs!CacheIsLRUAlways`, `!NoExpiredHitEver` | `[]CacheIsLRU`, `NoExpiredHit` | - |
| `ArtifactWorkspaceProofs!UnchangedTokenMeansExactAlways` | `[]UnchangedTokenMeansExact` | - |
| `ArtifactWorkspaceProofs!ImplementsSessionAlways` | `ImplementsSession` (refinement) | `AutoReloadOnPoll`, nobody calls `selectRun` |
| `ArtifactWorkspaceProofs!OutdatedIsStaleAlways` | `[]OutdatedIsStale` | the same, and nobody calls `listRuns` |
| `ArtifactWorkspaceProofs!RefreshLoadsAlways` | `RefreshLoads` | `AutoReloadOnPoll`, nobody calls `initialize` or `selectRun` |
| `ArtifactSourceServiceProofs!TypeCorrect` | `[]TypeOK` of the service | - |
| `ArtifactSourceServiceProofs!ConfigureTakesEffectAlways` | `[]ConfigureTakesEffect` | `NoSelection`: no accept or switch |
| `ArtifactSourceServiceProofs!CacheBelongsToVersionAlways`, `!UnchangedVersionIsExactAlways` | `[]CacheBelongsToVersion`, `[]UnchangedVersionIsExact` | `OneChooses(s)`: all but one tab only poll and fetch |
| `PageSessionProofs!TypeCorrect` | `[]TypeOK` of the page | - |
| `PageSessionProofs!CardIsBackedAlways`, `!ReloadIsNotBlockedEver` | `[]CardIsBacked`, `[]ReloadIsNotBlocked` | - |
| `PageSessionProofs!ShownIsSearchableAlways`, `!EveryWaitIsAnsweredAlways` | `[]ShownIsSearchable`, `[]EveryWaitIsAnswered` | - |
| `PageSessionProofs!NewerClickWinsAlways`, `!NoAutoSwitchEver` | `NewerClickWins`, `NoAutoSwitch` | - |
| `InvestigationProofs!ResultsAreCurrentAlways` | `[]ResultsAreCurrent` | - |
| `InvestigationProofs!SelectedIsRevealedAlways`, `!IssuesAreMarkedAlways` | `SelectedIsRevealed`, `[]IssuesAreMarked` | - |
| `InvestigationProofs!BackShowsWhatWasLeftAlways` | `BackShowsWhatWasLeft` | - |
| `InvestigationProofs!DragKeepsWindowAlways` | `DragKeepsWindow` | - |
| `InvestigationProofs!PagesPartitionMatchesAlways` | `[]PagesPartitionMatches` | - |
| `InvestigationProofs!SearchIsDiscoverableAlways` | `[]SearchIsDiscoverable` | - |
| `InvestigationProofs!ResolvedIsUnambiguousBestAlways` | `[]ResolvedIsUnambiguousBest` | - |
| `QuestionProofs!TimelineIsConsistentAlways` | `[]TimelineIsConsistent` | - |
| `QuestionProofs!DependenciesAreReachableAlways` | `[]DependenciesAreReachable` | - |
| `QuestionProofs!CriticalPathIsExecutedChainAlways` | `[]CriticalPathIsExecutedChain` | - |
| `QuestionProofs!LineageIsConnectedAlways` | `[]LineageIsConnected` | - |
| `TimelineProofs!RowsAreFoundAlways` | `[]RowsAreFound` | - |
| `TimelineProofs!TimelineShowsNeighbourhoodAlways` | `[]TimelineShowsNeighbourhood` | - |
| `InvestigationProofs!EntriesAgreeAlways`, `!OpenedIsStoredAlways` | `[]EntriesAgree`, `[]OpenedIsStored` | - |

*Workspace, types.* `TypeOK` is not inductive: that a commit stores a run, or
that the queue is not empty when an operation finishes, needs to know who is
where. `ControlInv` adds it: a caller past the start of the chain is its head, a
process that discovers or loads has a job, a loading one has a run. Control
changes only through six operators (`FinishSerialized`, `Finish`, `Discover`,
`StartLoading`, `EnsureInitialized`, `SettleInitialize`); a lemma each, then one
per group of actions.

*Workspace, belonging.* `BelongInv` adds that every job's binding names the root
it lists, that a loading job reads a run of that root, that a cache entry belongs
to its key and that nothing is pending; `KeyInv` that the runs in force, and those
in the cache, are of the root they stand for. `listRuns` would break `KeyInv`: it
commits without looking at its binding.

*Cache.* `LruInv`: the order lists the cached roots, each once, and is that of the
counter of accesses; the lemmas are what removing a root by its index, and evicting
from the front until there is room, leave of an order. `NoExpiredHit` needs only
`TypeInv`: two actions bind a root together with a snapshot.

*Exactness.* `ArtifactStoreProofs` has the argument about the files. `StoreInv`:
dbt writes invocations in order, the manifest first. `Listed(run)` and `NotNewer`
say that a version was there at some time: if a file is there now it is that one
or a later one, and every step of the store keeps this. `NotOlder` says that what
was read under a token is of the token's invocations or later. When the token is
listed again both together leave equality. `ExactInv` (workspace) and `VersionInv`
(service) carry these facts through jobs, cache, pending run and payload. No
option matters for the workspace. For the service one tab must be the only one
that chooses: neither accept nor the second half of configure bumps the
generation, so that two choosers can leave one's bytes under the other's version.

*Refinement.* The workspace implements `ArtifactSession` step by step: a commit is
`Adopt`, a changed binding `Bind`, `Unbind` or `Clear`, a second write of dbt
`Publish`; the rest stutters. What a step may not do is adopt something older than
what is in use, so `RefineInv` says who may adopt: whoever revalidates a snapshot
holds the chain from the moment it read that snapshot, and nobody else on the
chain can change the binding; the job behind `initializePromise` is not on the
chain, but while its binding is in force nothing is in use or saved for its root.
With `selectRun` the theorem is false: TLC finds `setTarget`, `initialize` and
`selectRun` overlapping so that the job of `initialize` commits an older run over
the selected one. No code of the repository calls `selectRun`.

*Workspace, outdated and refresh.* `ListedInv`: the runs in force are those that
anyone still entitled to commit is loading, and a snapshot that is not of them is
marked stale unless a caller is revalidating it. A failing `selectRun` replaces
the runs and leaves the mark as it was (TLC finds it), and `listRuns` replaces the
runs and loads nothing. `WaitInv`: who owns the refresh that others joined is
refreshing; the job behind `initializePromise` is in force and awaited by the head
of the chain, so nothing else is bound before it commits, and whoever it has
returned to finds a snapshot. An `initialize` that is not on the chain may
supersede that load. Polls are on it: whoever joined one shares its outcome and is
excepted, and the others are as with any other caller.

*Configure.* `PhaseInv`: nothing starts before the bootstrap has ended, and what a
request may be at each stage. `EffectInv`: each configure has an epoch of its own,
and while a returned one has the current epoch, nobody else at that epoch will
write anything but bytes of its version. With selections the theorem is false:
after the revert of finding 2, accepting a run of the old source leaves the
configured location; `web_tabs` therefore lets the tabs only configure.

*Page.* The invariant is `TypeInv`, `PageInv` and `ChannelInv` together.
`TypeInv` adds to the types that an accept never asks for run 0. `PageInv` is
about generations: no operation and nothing shown is newer than the page; before
the first click nothing is superseded or in flight, and the preload belongs to
generation 0; an accept is marked and ends in a remote source; a refetch that
would be applied is of the preloaded target; a run is offered over a remote
source only. `ChannelInv`: an operation waits for the worker exactly when one
live message for it is on the way, and then in one of the two channels; an
analysis sent or answered is not empty; a load answered has left the worker an
analysis. `CardIsBacked` and `ReloadIsNotBlocked` are parts of `PageInv`;
`ShownIsSearchable` and `EveryWaitIsAnswered` follow from `ChannelInv`. Steps
that neither start nor end an operation go through `CarriesKeeps` and
`ChannelsStay`, the four ends through `FinishKeeps` and `FinishChannels`, then
one lemma per group of actions. The two action properties follow from what an
end may put on the page (`ShownByEnds`, `EndsSwitch`). A cancelled search is taken
out of its channel by its index (`WithoutSearchLive`): at most one is ever live.

*Runs.* That what is shown is current when nothing is asked needs to know what
every message on the way is worth (`RunsInv`). Before it is ready a worker was
asked to index the rows of the page, or has done so (`Indexing`); from then on it
knows them, and the matches of what it was asked last (`WorkerKnows`). Of the
queries on the way, the one with the newest id is for the controls as they stand,
and so is its answer; the others are older (`QueriesAsked`, `ResultsGiven`). What
is shown answers the controls unless something is being asked (`ShownIsCurrent`).

*Explorer.* Branches are paths and a branch above a resource is a prefix of its
path, so both properties are about prefixes: whichever of the two effects runs
adds every prefix of the path of the selection (`Reveals`), and the badge of a
branch counts the problems of whatever has it as a prefix, collapsed or not
(`IssuesMarked`). A badge is a sum over the leaves below the branch, and positive
just when one of them counts (`SumExists`, `SumIsPositive`). `ExplorerInv` says
that the catalog is finite and that its ids are not `Missing`.

*Navigation.* `UrlInv`: an entry the page wrote says what was shown, up to what
`Shown` leaves out. Reading such an entry gives back what was written: that is a
case per parameter (defaults are not written); what is read is `Restored` of it, as
depths are clamped then and were not at first (`LineageIsRestored`).

*Opening, the settings.* `AgreeOn`: each entry point that finds a place opens
`OpenedAt(ParseTarget(t))` for one and the same target `t` (`CliOpensGiven`,
`McpOpensGiven`, `WebOpensGiven`), where the web's way over the environment gives
a flag the precedence that the other two give it by overlaying.

*Opening, the files.* `OpeningInv` keeps, for each file looked for: when it was
found, that version was held by the place; when it was not and no read failed, it
was away at some time (`Away`); and as long as nothing changes (`Quiet`) the
outcome is what is there now. What a command requires is what it `Needs`
(`RequiresIsNeeds`), and its plan is what it `Shows` of what was found
(`PlanRight`). What is loaded and what is still to be loaded make up that plan, each
load of a file that is there or may be gone or bad (`LoadsRight`), so that at the end
nothing of it is left (`EndedRight`). `held` only grows, so `Publish` and `Withdraw` keep the first two
and end `Quiet`. For a session, `SessionFinds`: where no key has a doubled slash,
listing, the relative keys, the filter of names, the grouping by run and the join
lead back to the keys of the files directly at the place.

*Filters and sorts.* `SelectSeq` and `SortSeq` take an operator, of which the
prover knows nothing; `Lists` states both by a set (of members, of pairs) and by
iteration. By induction over the iteration a filter keeps exactly the members that
are in the set (`OnlyKeeps`), a sort keeps all (`SortedKeeps`), and where ids were
distinct they stay so.

*Brush.* `TimelineInv`: what is listed are bars of the run, so that the chart ends
at a number, at least 1 (`ChartEnds`), and the window is two numbers. Only
`DragBrush` and `ResetZoom` move the window; a case for each kind of drag
(`DraggedIs`, `DragEndsInside`).

*Pages.* `AllRows` is a list before it is cut. Its ids are the matches and distinct
(`AllRowsHold`): for a query, through filters, two sorts and the warehouse block,
which the tool call drops when it says nothing and the command line rebuilds from
its flags (`CallKeeps`, `CommandKeeps`); for `inventory`, from the graph having each
entry of the manifest once (`GraphNodes`). A request for the next page differs by
its offset only, which does not change `AllRows` (`SameMatches`), so that each page
is a slice of one list (`ListingIsPage`), and what was collected is its beginning
(`PagesInv`). Each row knows whether the graph has it: what a query has collected is
known, and one that failed has an unknown row after that (`Stopped`). The order of the rows plays no part.

*Words.* A word that the older search finds in a resource is one of discovery's
reasons (`ReasonsAreScores`), and a query scores when each of its words does
(`SumIsScore`, `RawIsScore`); so each row of the older search is a ranked row
(`RankedRowsHold`), and an unfilled list holds them all (`DiscoveredAreFirst`). Here
the order does matter for what words resolve to: `SortedInOrder` says that a sort by
comparisons that agree with a number sorts by that number. `Standing` is the number
for ranked rows, the score and then the rank of the type, with `operation` beside
`model`, as it reads. A name scores 100 for its resource and less for any other
(`NameScores`), so a namesake of the best match, of the same type, would have put
one right behind it (`NamesakeIsNext`), and `resolveIntentTarget` would have called
that ambiguous (`TargetIsUnambiguous`). Of the distance between words only that it
is a number is used (`DistanceIsNumber`).

*Timeline.* `AnalysisInv`: an analysis is the snapshot of the bundle in hand; the
rest is about that snapshot. The rows of what was timed start and end inside the run
(`ClockSpans`, `GanttHolds`). A test's parent is no test (`ParentIsNoTest`): it is
taken from neighbours and dependencies of another type, or from the resource that a
unit test is attached to. The rows that are added stand for sources that have none
(`SyntheticHolds`), first those that tests point at, then those that dependents do;
each starts, ends and fares as its members do (`SourceRowStands`). Added rows are no
tests, and the second ones are of sources without tests, so what a source stands for
in the finished timeline is what it was made of (`UnsortedHolds`). Sorting keeps
all of this (`TimelineHasRows`).

*Dependencies.* What is built of a manifest is a graph: its edges end at its nodes,
and no two nodes have the same id (`BuiltIsGraph`, and with the lineage of columns
`LineageIsGraph`). `Reached` is a walk of one more edge at a time (`ReachedUnfolds`).
`Visited` is what holds of a breadth-first search after its first `k` entries:
distinct nodes in the order of their depth, each at its distance, each found from a
neighbour one nearer, and all neighbours of those looked at are there unless they are
too far. There are no more entries than nodes, so the search ends, and then it found
what walks lead to (`AllVisited`, `TraverseReaches`). For the build order: walks longer
than there are nodes lead to nothing new (`WalksEnd`), so that a node none of whose
ancestors is below itself has fewer ancestors than its children
(`NeighborReachesLess`), and among nodes that are not yet sorted one with fewest has
all its parents sorted (`SomeIsReady`). The entries of a tree at level `k` are those
at depth `k`, as each was found from a parent one nearer (`TreeHasLevels`).

*Critical path.* The paths to a leaf are prolonged at the front one node at a time
(`PathsUnfold`): those of `n` nodes are exactly the chains of `n` distinct nodes that
ran and that end there (`PathsAre`). A chain of distinct nodes is no longer than there
are nodes that ran, so there is a longest, and the first longest of them is taken
(`LongestIsPath`). On one path no node is visited twice, and so a chain of the property
has none twice (`PathsAreChains`). Trying the leaves one by one keeps the path of the greatest time
(`CriticalIsLongest`), which thus is the longest of its own leaf and not of all.

*Rows.* The offsets add up the heights, so that rows follow one another without a gap
(`OffsetsAreRows`). `Searching` is the invariant of the search for a row: the row looked
for is among those left, and after `n` turns at most `N - n` are, so that `N` turns find
it (`RowIsFound`); for the first row in view, that all rows before it begin above the
view (`FirstIsVisible`). `AreLanes` is the invariant of the lanes: the tail of a lane is
not before the end of any test in it (`NextIsPlaced`), which holds for tests in any
order. What a row lists comes from the run through filters and the zoom
(`ListedAreItems`, `ZoomKeeps`). The theorem assumes of a run that its bars end no
earlier than they start, as `TimelineIsConsistent` says of those an analysis has.

*Lineage.* `IsCollected` is the invariant of the search by depth: what is within `n` steps
is found, and of what is within, only what was found last can lead to anything new, so
that looking only at that misses nothing (`NextIsCollected`). Ranks are at least one and
at most as many as there are nodes (`RankedAreShown`), so each node that is no test is in
a column of its side (`ColumnsAreDrawn`). A move of the reordering permutes one column,
whatever means it compares (`MovedIsDrawn`). A card is in the last column that has its id,
and no column has an id twice, so two cards differ in column or in place, and a column or
a place further there is room for a card (`GeometryHasRoom`, `CardsAreApart`). What is
reached along the edges: let a part of it be joined to the rest by no edge; at the first
step that leaves the part an edge does (`ReachedAreConnected`). The canvas has room for
its longest column (`TallestIsLongest`).

*Neighbourhood.* `ChartInv` adds to `TimelineInv` that the run is a graph and that the
depth and the direction are among those there are. The rows that the focus leaves are
those near the selected one (`HalfIsNear`, `RowsAreNear`), and from it the edges between
rows lead to each of them, as the last hop to a row starts at one that was left too
(`NearHasEdge`, `RowsAreConnected`). For the edges, `Visiting` is the invariant of a
hop: an edge found leads one hop farther than where the hop began, no two have the same
ends, and every pair looked at was seen, unless the cap cut the search short, and then
there are as many edges as the cap allows (`NextVisiting`). `HasVisited` is that of the
whole walk: all edges as near as the hops so far were found (`HopIsVisited`,
`ExtendedAreVisited`). The two legs have no edge in common (`LegsAreApart`), and so
merging drops none (`EdgesDiffer`, `MergeKeepsAll`); this is where a cycle matters, in
which an edge can be on both legs: dbt refuses such a project, though the code counts
`has_cycles`. What is found is drawn, as both its rows are (`DrawnAre`).

*Induction.* The library's induction theorems take a predicate as a parameter and
cannot be instantiated; `InductionLemmas` states induction over the members of a
set (a claim about `n` is the set of the numbers it holds for), from the
well-foundedness of `<`, and that a function defined by iteration exists.
`ResolvePath` (`PathIsText`), the sums of the explorer's badges, filters, sorts,
searches and traversals rest on it. A recursive function is unfolded by a lemma of its own
(`...Unfolds`): it exists up to each argument, so the one that is chosen has the
values that its definition gives it.

Only model-checked: liveness (`EveryCallSettles`, `SnapshotCatchesUp`,
`EveryRequestSettles`, `NewRunIsNoticed`), which the prover does not support. Every
invariant and every action property of a passing run has a theorem.

## 5. Not modelled

- Load progress (`progress.ts`, `map-load-progress.ts`): informs of a load and
  never changes it. Overlapping calls can inform the wrong caller.
- MCP resources and prompts, tool schemas, the wording of messages; formatting,
  introspection, the `schema` command: stateless text.
- Parsing and validating JSON, path safety, SQL parsing (its result is an input of
  the column lineage), adapter metrics: conversions without control of their own.
- The client's separate request per file of a bundle (`artifact-source-api.ts`):
  `PageSession` fetches a bundle in one step.
- Uploading files, browsing for a location, requests for a resource's code,
  toasts; drawing, colours, scrolling, coordinates other than those of the lineage's
  cards and of the timeline's rows, chips and bars.
- Serving static files; tests, fixtures, plugins and scripts.

## 6. Plan

1. `PageSession` over the service's own protocol, with one request per file.
2. `LoadProgress`: subscribers and the swapped callback.
