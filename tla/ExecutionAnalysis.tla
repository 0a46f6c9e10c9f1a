------------------------- MODULE ExecutionAnalysis -------------------------
(***************************************************************************)
(* What the run results say over the graph: executions, critical path      *)
(* (core analysis/execution/analyzer.ts), materialization semantics        *)
(* (semantics.ts) and the snapshot built of them (analysis/snapshot).      *)
(*                                                                         *)
(* A result is [id, status, time, thread, compile, execute, message,   *)
(* metrics].  A status is <<word, spelling>>: its label keeps the word     *)
(* only.  A timing is <<start, end>> or NoTiming; times are small numbers. *)
(***************************************************************************)
EXTENDS ManifestGraph, FiniteSetsExt

NoTiming == <<>>
Nobody == <<>>

StatusLabel(status) == status[1]
StatusTone(status) ==
    CASE status[1] \in {"success", "pass"} -> "positive"
      [] status[1] = "warn" -> "warning"
      [] status[1] \in {"error", "fail", "runtime error"} -> "danger"
      [] status[1] = "skipped" -> "skipped"
      [] OTHER -> "neutral"
(* "runtime error" and its like have no severity here, although their tone is danger. *)
StatusSeverity(status) ==
    CASE status[1] \in {"error", "fail", "run error"} -> 3
      [] status[1] = "warn" -> 2
      [] status[1] \in {"success", "pass"} -> 1
      [] OTHER -> 0

NodeExecutions(results) ==
    [i \in DOMAIN results |->
        LET r == results[i]
            timing == IF r.execute # NoTiming THEN r.execute ELSE r.compile
        IN [id |-> r.id, status |-> r.status, time |-> r.time, thread |-> r.thread,
            started |-> timing, message |-> r.message, metrics |-> r.metrics]]
TotalOf(executions) == FoldLeft(LAMBDA sum, e : sum + e.time, 0, executions)
ExecutionOf(executions, id) == Last(Only(executions, {e \in ToSet(executions) : e.id = id}))
Executed(executions) == {executions[i].id : i \in DOMAIN executions}

-----------------------------------------------------------------------------
(* Depth first up the parents within a set, without repeating a node: the paths to a leaf of a   *)
(* number of edges, in the order they are found in, and the first of those with the most nodes. *)
WithParents(graph, path, within) ==
    LET parents == Only(Inbound(graph, path[1]), within \ ToSet(path))
    IN [j \in DOMAIN parents |-> <<parents[j]>> \o path]
Prolonged(graph, paths, within) ==
    FlattenSeq([i \in DOMAIN paths |-> WithParents(graph, paths[i], within)])
PathsTo(graph, leaf, within) ==
    LET OfEdges[n \in 0 .. Cardinality(within)] ==
            IF n = 0 THEN <<<<leaf>>>> ELSE Prolonged(graph, OfEdges[n - 1], within)
    IN OfEdges
FirstLongest(paths) == paths[Max({n \in DOMAIN paths : paths[n] # <<>>})][1]
(* Mutant of LongestPathToRoot: a parent that did not run is followed as well. *)
LongestPathOfAll(graph, leaf, executed) ==
    LET path == FirstLongest(PathsTo(graph, leaf, FoundIds(graph.nodes)))
    IN Only(path, executed)
LongestPathToRoot(graph, leaf, executed) == FirstLongest(PathsTo(graph, leaf, executed))

SumOf(numbers) == FoldLeft(LAMBDA sum, n : sum + n, 0, numbers)
PathTime(path, executions) == SumOf([i \in DOMAIN path |-> ExecutionOf(executions, path[i]).time])
Leaves(graph, executed) ==
    Only(graph.nodes, {n \in ToSet(graph.nodes) : Outbound(graph, n.id) = <<>> /\ n.id \in executed})
PathFrom(graph, executions, leaf) ==
    LET path == LongestPathToRoot(graph, leaf, Executed(executions))
    IN [path |-> path, time |-> PathTime(path, executions)]
Longer(best, found) == IF found.time > best.time THEN found ELSE best
CriticalPath(graph, executions) ==
    LET leaves == Leaves(graph, Executed(executions))
        Best[k \in 0 .. Len(leaves)] ==
            IF k = 0 THEN [path |-> <<>>, time |-> 0]
            ELSE Longer(Best[k - 1], PathFrom(graph, executions, leaves[k].id))
    IN Best[Len(leaves)]

ByStatus(executions) ==
    [s \in {executions[i].status : i \in DOMAIN executions} |->
        Cardinality({i \in DOMAIN executions : executions[i].status = s})]
ExecutionSummary(graph, executions) ==
    [totalTime |-> TotalOf(executions), totalNodes |-> Len(executions),
     byStatus |-> ByStatus(executions), criticalPath |-> CriticalPath(graph, executions)]
RunStartedAt(executions) ==
    LET timed == {i \in DOMAIN executions : executions[i].started # NoTiming}
    IN IF timed = {} THEN NoTiming ELSE <<Min({executions[i].started[1] : i \in timed})>>

-----------------------------------------------------------------------------
(* Materialization: what a node leaves in the warehouse. *)
Materializations == {"table", "view", "incremental", "ephemeral", "materialized_view"}
MaterializationKind(type, materialized) ==
    CASE type \in {"seed", "snapshot", "operation"} -> type
      [] type \in TestTypes -> "test"
      [] type \notin {"seed", "snapshot", "operation"} \cup TestTypes
            /\ materialized \in Materializations -> materialized
      [] OTHER -> "unknown"
SemanticsFlags(kind, type) ==
    [persisted |-> type = "source" \/ kind \in (Materializations \ {"ephemeral"})
                                               \cup {"seed", "snapshot"},
     createsRelation |-> type # "source" /\ kind \in (Materializations \ {"ephemeral"})
                                                     \cup {"seed", "snapshot"},
     compiledIntoParent |-> type # "source" /\ kind = "ephemeral"]
Provenance(known, configured, related) ==
    IF known /\ (configured \/ related) THEN "manifest" ELSE "derived"
Semantics(type, entry) ==
    LET kind == MaterializationKind(type, entry.materialized)
    IN [kind |-> kind, flags |-> SemanticsFlags(kind, type),
        source |-> Provenance(entry.known, entry.materialized # "", entry.relation # <<>>)]

-----------------------------------------------------------------------------
(* The entries a node is looked up in: a disabled one replaces an enabled one of its id. *)
ManifestEntryLookup(manifest) ==
    manifest.nodes \o manifest.source \o manifest.unit_test \o manifest.disabled
Looked(lookup, id) == Only(lookup, {e \in ToSet(lookup) : e.id = id})
NoEntry == [known |-> FALSE, materialized |-> "", relation |-> <<>>]
EntryOf(graph, lookup, id) ==
    LET found == Looked(lookup, id)
        materialized == IF HasNode(graph, id) THEN Attributes(graph, id).materialized
                        ELSE IF found = <<>> THEN "" ELSE Last(found).materialized
    IN IF found = <<>> THEN [NoEntry EXCEPT !.materialized = materialized]
       ELSE [known |-> TRUE, materialized |-> materialized, relation |-> Last(found).relation]
InferResourceType(id) ==
    IF Prefix(id) \in (KnownTypes \ {"function"}) \cup {"source_freshness"} THEN Prefix(id)
    ELSE "operation"
TypeOf(graph, lookup, id) ==
    CASE HasNode(graph, id) -> Attributes(graph, id).type
      [] ~HasNode(graph, id) /\ Looked(lookup, id) # <<>> -> Last(Looked(lookup, id)).type
      [] OTHER -> InferResourceType(id)

FirstNonTest(graph, lookup, ids) ==
    LET others == Only(ids, {id \in ToSet(ids) : TypeOf(graph, lookup, id) \notin TestTypes})
    IN IF others = <<>> THEN Nobody ELSE others[1]
ResolveTestParent(graph, lookup, test) ==
    LET direct == Inbound(graph, test)
        entry == Looked(lookup, test)
        inGraph == FirstNonTest(graph, lookup, direct)
    IN CASE inGraph # Nobody -> inGraph
         [] inGraph = Nobody /\ entry # <<>> /\ Last(entry).attached # Nobody ->
                Last(entry).attached
         [] inGraph = Nobody /\ entry # <<>> /\ Last(entry).attached = Nobody ->
                FirstNonTest(graph, lookup, Last(entry).nodes)
         [] OTHER -> Nobody
(* The short label of what a test exercises: model and column, whichever is known. *)
TestTarget(graph, lookup, entry) ==
    LET named == SelectSeq(entry.nodes, LAMBDA id : HasNode(graph, id)
                                                    /\ Attributes(graph, id).type \notin TestTypes)
        model == IF entry.attached # Nobody /\ HasNode(graph, entry.attached)
                 THEN entry.attached ELSE IF named = <<>> THEN Nobody ELSE named[1]
    IN <<model, entry.column>>

-----------------------------------------------------------------------------
(* The timeline: compile and execute spans relative to the earliest, and rows for sources. *)
WallClock(result) ==
    LET spans == {result.compile, result.execute} \ {NoTiming}
    IN IF spans = {} THEN NoTiming ELSE <<Min({s[1] : s \in spans}), Max({s[2] : s \in spans})>>
GanttData(results) ==
    LET timed == Only(results, {r \in ToSet(results) : WallClock(r) # NoTiming})
        origin == Min({WallClock(timed[i])[1] : i \in DOMAIN timed})
        Relative(span) == IF span = NoTiming THEN NoTiming ELSE <<span[1] - origin, span[2] - origin>>
    IN [i \in DOMAIN timed |->
           [id |-> timed[i].id, status |-> timed[i].status,
            start |-> Relative(WallClock(timed[i]))[1], end |-> Relative(WallClock(timed[i]))[2],
            compile |-> Relative(timed[i].compile), execute |-> Relative(timed[i].execute)]]
CompareGanttItems(a, b) ==
    \/ a.start < b.start
    \/ a.start = b.start /\ a.end > b.end
    \/ a.start = b.start /\ a.end = b.end /\ a.id[3] < b.id[3]
PackageOf(graph, lookup, id) ==
    CASE HasNode(graph, id) -> Attributes(graph, id).package
      [] ~HasNode(graph, id) /\ Looked(lookup, id) # <<>> -> Last(Looked(lookup, id)).package
      [] OTHER -> InferPackageName(id)
EnrichGanttItem(graph, lookup, item) ==
    LET type == TypeOf(graph, lookup, item.id)
    IN [id |-> item.id, status |-> item.status, start |-> item.start, end |-> item.end,
        compile |-> item.compile, execute |-> item.execute, type |-> type,
        parent |-> IF type \in TestTypes THEN ResolveTestParent(graph, lookup, item.id) ELSE Nobody,
        package |-> PackageOf(graph, lookup, item.id),
        semantics |-> Semantics(type, EntryOf(graph, lookup, item.id))]

SortedRows(rows) == Sorted(rows, {p \in Pairs(rows) : CompareGanttItems(p[1], p[2])})
(* The first one of the worst, in the order of the rows. *)
RepresentativeStatus(items) ==
    LET severities == {StatusSeverity(items[i].status) : i \in DOMAIN items}
    IN items[Min({i \in DOMAIN items : StatusSeverity(items[i].status) = Max(severities)})].status
SyntheticSourceRow(graph, lookup, source, members) ==
    LET rows == SortedRows(members)
    IN [id |-> source, status |-> RepresentativeStatus(rows),
        start |-> Min({rows[i].start : i \in DOMAIN rows}),
        end |-> Max({rows[i].end : i \in DOMAIN rows}),
        compile |-> NoTiming, execute |-> NoTiming, type |-> "source", parent |-> Nobody,
        package |-> PackageOf(graph, lookup, source),
        semantics |-> Semantics("source", EntryOf(graph, lookup, source))]
SourcesOf(graph) == Only(graph.nodes, {n \in ToSet(graph.nodes) : n.type = "source"})
SourcesIn(graph, project) ==
    Only(SourcesOf(graph), {n \in ToSet(SourcesOf(graph)) : project \in {0, n.package}})
SyntheticRows(graph, lookup, sources, rows, members) ==
    LET missing == Only(sources, {n \in ToSet(sources) : n.id \notin FoundIds(rows)
                                                         /\ members[n.id] # <<>>})
    IN [i \in DOMAIN missing |->
           SyntheticSourceRow(graph, lookup, missing[i].id, members[missing[i].id])]
TestsAbout(graph, rows) ==
    [s \in FoundIds(graph.nodes) |->
        Only(rows, {r \in ToSet(rows) : r.type \in TestTypes /\ r.parent = s})]
(* Mutant of DependentsOf: the rows a source comes from. *)
DependentsInbound(graph, rows) ==
    [s \in FoundIds(graph.nodes) |->
        Only(rows, {r \in ToSet(rows) : r.id \in ToSet(Inbound(graph, s)) /\ r.type \notin TestTypes})]
DependentsOf(graph, rows) ==
    [s \in FoundIds(graph.nodes) |->
        Only(rows, {r \in ToSet(rows) : r.id \in ToSet(Outbound(graph, s)) /\ r.type \notin TestTypes})]
SyntheticSourceRows(graph, lookup, rows) ==
    SyntheticRows(graph, lookup, SourcesOf(graph), rows, TestsAbout(graph, rows))
(* Mutant of SyntheticRowsFromDependents: it does not see which sources already have a row. *)
SyntheticRowsRepeated(graph, lookup, project, rows) ==
    SyntheticRows(graph, lookup, SourcesIn(graph, project),
                  Only(rows, {r \in ToSet(rows) : r.type # "source"}), DependentsOf(graph, rows))
SyntheticRowsFromDependents(graph, lookup, project, rows) ==
    SyntheticRows(graph, lookup, SourcesIn(graph, project), rows, DependentsOf(graph, rows))

(* The package in scope: the one the metadata names, unless nothing of it ran; 0 if there is none. *)
Unscoped == TestTypes \cup {"macro", "operation", "sql_operation"}
Elementary == 9
ScopedPackages(graph, executions) ==
    LET scoped == SelectSeq(executions, LAMBDA e : TypeOf(graph, <<>>, e.id) \notin Unscoped)
    IN [i \in DOMAIN scoped |-> PackageOf(graph, <<>>, scoped[i].id)]
DominantPackage(scoped) ==
    LET packages == SelectSeq(scoped, LAMBDA p : p # Elementary)
        Count(p) == Len(SelectSeq(packages, LAMBDA q : q = p))
        Wins(p, q) == Count(p) > Count(q) \/ (Count(p) = Count(q) /\ p <= q)
    IN IF packages = <<>> THEN 0
       ELSE CHOOSE p \in ToSet(packages) : \A q \in ToSet(packages) : Wins(p, q)
ProjectAmong(project, scoped) ==
    LET dominant == DominantPackage(scoped)
    IN IF project = 0 \/ (project \notin ToSet(scoped) /\ dominant # 0) THEN dominant ELSE project
ProjectName(graph, manifest, executions) ==
    ProjectAmong(manifest.project, ScopedPackages(graph, executions))

WithTestedSources(graph, lookup, rows) == rows \o SyntheticSourceRows(graph, lookup, rows)
WithDependedSources(graph, lookup, project, rows) ==
    rows \o SyntheticRowsFromDependents(graph, lookup, project, rows)
TimedRows(graph, lookup, data) == [i \in DOMAIN data |-> EnrichGanttItem(graph, lookup, data[i])]
Timeline(graph, manifest, results) ==
    LET lookup == ManifestEntryLookup(manifest)
        timed == TimedRows(graph, lookup, GanttData(results))
    IN SortedRows(WithDependedSources(graph, lookup,
                                      ProjectName(graph, manifest, NodeExecutions(results)),
                                      WithTestedSources(graph, lookup, timed)))
TimelineAdjacency(graph, rows) ==
    [id \in {rows[i].id : i \in DOMAIN rows} |->
        [inbound |-> Inbound(graph, id), outbound |-> Outbound(graph, id)]]

-----------------------------------------------------------------------------
(* Breakdowns.  A label may have several spellings, and each row carries the label's whole time. *)
StatusBreakdown(executions) ==
    LET statuses == {executions[i].status : i \in DOMAIN executions}
        TimeOf(label) == TotalOf(SelectSeq(executions, LAMBDA e : StatusLabel(e.status) = label))
    IN {[status |-> s, count |-> ByStatus(executions)[s], duration |-> TimeOf(StatusLabel(s))] :
            s \in statuses}
ThreadStats(executions) ==
    LET On(t) == SelectSeq(executions, LAMBDA e : e.thread = t)
    IN {[thread |-> t, count |-> Len(On(t)), time |-> TotalOf(On(t))] :
            t \in {executions[i].thread : i \in DOMAIN executions}}

(* Resources, sorted by type and name, with their immediate neighbours. *)
ResourceTypeOrder == <<"model", "source", "test", "metric", "semantic_model", "exposure", "seed",
                       "snapshot", "unit_test", "analysis", "macro">>
TypeRank(type) == IF type \in ToSet(ResourceTypeOrder)
                  THEN CHOOSE i \in DOMAIN ResourceTypeOrder : ResourceTypeOrder[i] = type
                  ELSE Len(ResourceTypeOrder) + 1
SortResources(a, b) ==
    \/ TypeRank(a.type) < TypeRank(b.type)
    \/ TypeRank(a.type) = TypeRank(b.type) /\ a.id[3] < b.id[3]
NotRun == <<"not run", 0>>
ResourceNode(graph, lookup, executions, node) ==
    LET ran == node.id \in Executed(executions)
        entry == Looked(lookup, node.id)
    IN [id |-> node.id, type |-> node.type, package |-> node.package,
        status |-> IF ran THEN ExecutionOf(executions, node.id).status ELSE NotRun,
        time |-> IF ran THEN ExecutionOf(executions, node.id).time ELSE 0,
        message |-> IF ran THEN ExecutionOf(executions, node.id).message ELSE "",
        semantics |-> Semantics(node.type, EntryOf(graph, lookup, node.id)),
        target |-> IF node.type \in TestTypes /\ entry # <<>>
                   THEN TestTarget(graph, lookup, Last(entry)) ELSE <<Nobody, "">>]
Resources(graph, manifest, executions) ==
    LET lookup == ManifestEntryLookup(manifest)
    IN SortSeq([i \in DOMAIN graph.nodes |->
                   ResourceNode(graph, lookup, executions, graph.nodes[i])], SortResources)
DependencyIndex(graph) ==
    [id \in {graph.nodes[i].id : i \in DOMAIN graph.nodes} |->
        [upstream |-> Upstream(graph, id, 1), downstream |-> Downstream(graph, id, 1)]]
ResourceGroups(resources) ==
    LET types == {resources[i].type : i \in DOMAIN resources}
        Of(t) == SelectSeq(resources, LAMBDA r : r.type = t)
    IN {[type |-> t, count |-> Len(Of(t)),
         attention |-> Len(SelectSeq(Of(t), LAMBDA r : StatusTone(r.status)
                                                       \in {"danger", "warning"}))] : t \in types}
SelectedResource(resources) ==
    LET models == SelectSeq(resources, LAMBDA r : r.type = "model")
    IN IF resources = <<>> THEN Nobody
       ELSE IF models = <<>> THEN resources[1].id ELSE models[1].id
SnapshotOf(graph, manifest, executions, resources, rows) ==
    [graph |-> graph, summary |-> ExecutionSummary(graph, executions),
     project |-> ProjectName(graph, manifest, executions),
     runStartedAt |-> RunStartedAt(executions), gantt |-> rows,
     adjacency |-> TimelineAdjacency(graph, rows),
     graphSummary |-> GraphSummary(graph), resources |-> resources,
     groups |-> ResourceGroups(resources),
     executions |-> Sorted(executions, {p \in Pairs(executions) : p[1].time > p[2].time}),
     statusBreakdown |-> StatusBreakdown(executions), threadStats |-> ThreadStats(executions),
     dependencyIndex |-> DependencyIndex(graph), selected |-> SelectedResource(resources)]
SnapshotOver(graph, manifest, results, executions) ==
    SnapshotOf(graph, manifest, executions, Resources(graph, manifest, executions),
               Timeline(graph, manifest, results))
Snapshot(manifest, results) ==
    SnapshotOver(BuildGraph(manifest), manifest, results, NodeExecutions(results))
=============================================================================
