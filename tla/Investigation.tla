---------------------------- MODULE Investigation ----------------------------
(***************************************************************************)
(* What one asks of a pair of artifacts.  The questions of the tools and   *)
(* commands (core queries and analyses) are asked one at a time of a       *)
(* bundle; a list is followed page by page.  The views of the page have    *)
(* modules of their own.  A behaviour plays one scene: the questions, a    *)
(* view (runs, navigation, explorer, lineage, timeline) or the opening of  *)
(* a target; what the other scenes are made of is idle.                    *)
(***************************************************************************)
EXTENDS ResourceDiscovery, RunsResults, WorkspaceUrl, ExplorerTree, LineageModel,
        TimelineChart, ArtifactOpening

CONSTANTS
    Bundles,        \* [manifest, results, warehouse, columns, analyses]
    QueryDepths,    \* depths asked for
    Listings,       \* lists asked for, as [list, request]
    Searched        \* what is searched for: sequences of tokens

(* An id starts with the type that dbt gives a resource, and no name reads like an id.  dbt     *)
(* reports once on each resource; a graph throws when it is given a node twice.                 *)
ManifestTypes == ToSet(TypeAlphabet) \ {"field"}
IsResource(node) ==
    /\ node.id \in ManifestTypes \X Nat \X Nat
    /\ node.type = ExtractResourceType(node.id[1])
    /\ node.text.name \in Seq(Nat)
IsSequence(s) == s \in Seq(ToSet(s))
IsEntered(entry) ==
    /\ entry.type = Prefix(entry.id) /\ IsSequence(entry.nodes) /\ IsSequence(entry.macros)
    /\ entry.attached = Nobody \/ Prefix(entry.attached) \notin TestTypes
IsManifest(manifest) ==
    LET nodes == AllEntries(manifest)
        entered == ManifestEntryLookup(manifest) \o manifest.exposure \o manifest.metric
    IN /\ \A c \in Collections : IsSequence(manifest[c])
       /\ \A i \in DOMAIN nodes : IsResource(nodes[i])
       /\ \A i, j \in DOMAIN nodes : nodes[i].id = nodes[j].id => i = j
       /\ \A i, j \in DOMAIN nodes : nodes[i].text.name # IdText(nodes[j])
       /\ IsSequence(manifest.disabled) /\ \A e \in ToSet(entered) : IsEntered(e)
       /\ IsSequence(manifest.parentMap)
       /\ \A row \in ToSet(manifest.parentMap) : IsSequence(row.parents)
(* A step ends no earlier than it starts. *)
IsTiming(timing) == timing = NoTiming \/ (timing \in Int \X Int /\ timing[1] <= timing[2])
IsRun(results) ==
    /\ IsSequence(results)
    /\ \A i \in DOMAIN results : /\ results[i].metrics \in [Metrics -> Nat]
                                  /\ IsTiming(results[i].compile) /\ IsTiming(results[i].execute)
    /\ \A i, j \in DOMAIN results : results[i].id = results[j].id => i = j
(* The columns of the catalog, numbered from 1, and what the analyses of the SQL derive. *)
AreColumns(rows) ==
    /\ IsSequence(rows) /\ \A row \in ToSet(rows) : row.columns \in Seq(Nat \ {0})
AreDerivations(analyses) ==
    /\ IsSequence(analyses)
    /\ \A a \in ToSet(analyses) : /\ IsSequence(a.dependencies)
                                   /\ \A d \in ToSet(a.dependencies) : IsSequence(d.sources)
ASSUME BundlesAreRuns ==
    \A b \in Bundles : /\ IsManifest(b.manifest) /\ IsRun(b.results)
                        /\ AreColumns(b.columns) /\ AreDerivations(b.analyses)
ASSUME DepthsArePositive == QueryDepths \subseteq {Unlimited} \cup (Nat \ {0})

(* What a list is asked for: some types, the first page, and of one warehouse at most, by name, *)
(* what may be the least of the metrics it has.                                                 *)
Blocks == [warehouse : STRING \ {None}, sort : STRING, min : [Metrics -> Int]]
Requests == [types : (SUBSET STRING) \ {{}}, status : SUBSET STRING, min : Int, max : Int,
             pattern : Seq(Seq(STRING \cup Nat)), sort : STRING, limit : Nat \cup {Unset},
             offset : {0}, blocks : SUBSET Blocks]
ASSUME ListingsAreRequests ==
    \A l \in Listings :
        /\ l.request \in Requests /\ \A b, c \in l.request.blocks : b = c
        /\ \A b \in l.request.blocks : \A metric \in Metrics \ Profile(b.warehouse) :
               b.min[metric] = Unset

(* A query is a sequence of tokens; what is no filter is a word. *)
IsQuery(tokens) ==
    /\ tokens \in Seq(ToSet(tokens))
    /\ \A t \in ToSet(tokens) : t[1] \notin FilterKeys => t[2] \in Seq(Nat)
ASSUME SearchesAreQueries == \A tokens \in Searched : IsQuery(tokens)

VARIABLES
    scene, bundle, answer
investigationVars == <<scene, bundle, answer, runsVars, urlVars, explorerVars, lineageVars, timelineVars, openingVars>>

NoAnswer == [kind |-> "none"]
NoBundle == [kind |-> "none"]
Scenes == {"questions", "runs", "navigation", "explorer", "lineage", "timeline", "opening"}

-----------------------------------------------------------------------------
(* The tools over a bundle. *)
Graph == BuildGraph(bundle.manifest)
NodeIds(graph) == FoundIds(graph.nodes)
TypedExecutions ==
    LET executions == NodeExecutions(bundle.results)
        Typed(e) == [f \in DOMAIN e \cup {"type", "known"} |->
                        CASE f = "type" -> TypeOf(Graph, <<>>, e.id)
                          [] f = "known" -> HasNode(Graph, e.id)
                          [] OTHER -> e[f]]
    IN [i \in DOMAIN executions |-> Typed(executions[i])]

OptionsOf(request) ==
    [types |-> request.types, status |-> request.status, limit |-> request.limit,
     offset |-> request.offset, min |-> request.min, max |-> request.max,
     pattern |-> request.pattern,
     sort |-> IF request.blocks = {} THEN request.sort ELSE ActiveBlock(request).sort,
     warehouse |-> ActiveBlock(request).warehouse, mins |-> ActiveBlock(request).min]
PageOfReport(report) == IF report = Refused THEN Refused ELSE report.page
ListingPage(list, request, executions) ==
    CASE list = "runs.query" -> RunsQuery(executions, request, bundle.warehouse)
      [] list = "query-executions" ->
             QueryCommand(executions, OptionsOf(request), bundle.warehouse)
      [] list = "failures" ->
             Failures(executions, request.status, request.limit, request.offset)
      [] list = "run-report" ->
             PageOfReport(RunReport(executions,
                 [top |-> Unset, threshold |-> Unset, limit |-> request.limit,
                  offset |-> request.offset, mins |-> NoMin, metric |-> "slot_ms"]))
      [] list = "timeline" ->
             LET rows == TimelineCommand(executions, FALSE, request.status, "start", 0)
             IN [rows |-> rows, total |-> Len(rows), more |-> FALSE]
      [] OTHER -> Inventory(Graph, request.types, 0, request.limit, request.offset)
PagesGiven(list, request) == {ListingPage(list, request, TypedExecutions)} \ {Refused}

-----------------------------------------------------------------------------
(* The questions. *)
Asks == scene = "questions" /\ answer = NoAnswer
Answers(kind, asked, given) == answer' = [kind |-> kind, asked |-> asked, given |-> given]

AskDependencies ==
    /\ Asks
    /\ \E id \in NodeIds(Graph), direction \in {"upstream", "downstream"},
          depth \in QueryDepths, tree, buildOrder \in BOOLEAN :
           LET options == [direction |-> direction, depth |-> depth, tree |-> tree,
                           buildOrder |-> buildOrder]
           IN Answers("dependencies", <<id, options>>,
                      Deps(Graph, id, 0, bundle.columns, bundle.analyses, options))
AskFieldDependencies ==
    /\ Asks /\ bundle.columns # <<>>
    /\ \E row \in ToSet(bundle.columns), direction \in {"upstream", "downstream"} :
       \E column \in ToSet(row.columns) :
           LET options == [direction |-> direction, depth |-> Unlimited, tree |-> FALSE,
                           buildOrder |-> FALSE]
           IN Answers("field", <<FieldId(row.id, column), options>>,
                      Deps(Graph, row.id, column, bundle.columns, bundle.analyses, options))
AskSubgraph ==
    /\ Asks
    /\ \E id \in NodeIds(Graph), direction \in {"upstream", "downstream", "both"},
          depth \in QueryDepths, types \in {KnownTypes, {"model"}} :
           Answers("subgraph", [id |-> id, direction |-> direction, depth |-> depth, types |-> types],
                   Subgraph(Graph, id, direction, depth, types))
Analyze == Asks /\ Answers("analysis", <<>>, Snapshot(bundle.manifest, bundle.results))
AskImpact ==
    /\ Asks
    /\ \E id \in NodeIds(Graph) : Answers("impact", id, Impact(Graph, id, <<>>))
Search ==
    /\ Asks
    /\ \E tokens \in Searched :
           Answers("search", tokens,
                   [search |-> SearchResources(Graph, tokens, NoFilter, ListMaxLimit, 0),
                    discover |-> DiscoverResources(Graph, tokens, NoFilter, ListMaxLimit)])
AskExplain ==
    /\ Asks
    /\ \E tokens \in Searched : Answers("explain", tokens, Explain(Graph, Nobody, tokens))

(* A list, and its next page at the offset where the last one ended.  A page that fails is *)
(* answered by the error alone.                                                             *)
RowIds(page) == [i \in DOMAIN page.rows |-> page.rows[i].id]
TurnTo(page, asked, collected) ==
    IF page = Failed THEN Answers("failure", asked, [collected |-> collected])
    ELSE Answers("list", asked, [page |-> page, collected |-> collected \o RowIds(page)])
AskPage ==
    /\ Asks
    /\ \E listing \in Listings : \E page \in PagesGiven(listing.list, listing.request) :
           TurnTo(page, listing, <<>>)
FollowPage ==
    /\ answer.kind = "list" /\ answer.given.page.more
    /\ \E page \in PagesGiven(answer.asked.list, [answer.asked.request EXCEPT
                                                  !.offset = Len(answer.given.collected)]) :
           TurnTo(page, answer.asked, answer.given.collected)

QuestionsNext ==
    \/ AskDependencies \/ AskFieldDependencies \/ AskSubgraph \/ Analyze \/ AskImpact
    \/ Search \/ AskExplain \/ AskPage \/ FollowPage

-----------------------------------------------------------------------------
(* The scenes.  What is idle stays as it starts, of nothing. *)
IdleQuestions == bundle = NoBundle /\ answer = NoAnswer
IdleRuns == RunsStart(<<>>)
IdleNavigation == UrlStart([url |-> NoParameters, metrics |-> FALSE])
IdleExplorer ==
    ExplorerStart([resources |-> {}, upstreamOf |-> <<>>, project |-> 1, executed |-> <<>>], Missing)
IdleLineage ==
    LineageStart([nodes |-> <<[type |-> "model", name |-> 1, tone |-> "neutral", described |-> FALSE]>>,
                  up |-> <<<<>>>>, down |-> <<<<>>>>], 1)

IdleTimeline ==
    TimelineStart([items |-> <<>>, adjacency |-> <<>>, issues |-> <<>>, project |-> NoItem],
                  [showTests |-> FALSE, failuresOnly |-> FALSE, direction |-> "both", depth |-> 2],
                  NoItem)

StartOpening == \E o \in Openings : OpeningStart(o)
StartQuestions == bundle \in Bundles /\ answer = NoAnswer
StartRuns == \E rows \in RunAnalyses : RunsStart(rows)
StartNavigation == \E page \in FirstPages : UrlStart(page)
StartExplorer == \E cat \in Catalogs : \E id \in Ids(cat) \cup {Missing} : ExplorerStart(cat, id)
StartLineage == \E g \in LineageGraphs : \E id \in DOMAIN g.nodes : LineageStart(g, id)
StartTimeline ==
    \E g \in TimelineRuns, defaults \in TimelineDefaults :
        \E selected \in ItemIds(g.items) \cup {NoItem} : TimelineStart(g, defaults, selected)
Init ==
    /\ scene \in Scenes
    /\ IF scene = "questions" THEN StartQuestions ELSE IdleQuestions
    /\ IF scene = "runs" THEN StartRuns ELSE IdleRuns
    /\ IF scene = "navigation" THEN StartNavigation ELSE IdleNavigation
    /\ IF scene = "explorer" THEN StartExplorer ELSE IdleExplorer
    /\ IF scene = "lineage" THEN StartLineage ELSE IdleLineage
    /\ IF scene = "timeline" THEN StartTimeline ELSE IdleTimeline
    /\ IF scene = "opening" THEN StartOpening ELSE IdleOpening

Next ==
    \/ /\ QuestionsNext
       /\ UNCHANGED <<scene, bundle, runsVars, urlVars, explorerVars, lineageVars, timelineVars, openingVars>>
    \/ /\ scene = "runs" /\ RunsNext
       /\ UNCHANGED <<scene, bundle, answer, urlVars, explorerVars, lineageVars, timelineVars, openingVars>>
    \/ /\ scene = "navigation" /\ UrlNext
       /\ UNCHANGED <<scene, bundle, answer, runsVars, explorerVars, lineageVars, timelineVars, openingVars>>
    \/ /\ scene = "explorer" /\ ExplorerNext
       /\ UNCHANGED <<scene, bundle, answer, runsVars, urlVars, lineageVars, timelineVars, openingVars>>
    \/ /\ scene = "lineage" /\ LineageNext
       /\ UNCHANGED <<scene, bundle, answer, runsVars, urlVars, explorerVars, timelineVars, openingVars>>
    \/ /\ scene = "timeline" /\ TimelineNext
       /\ UNCHANGED <<scene, bundle, answer, runsVars, urlVars, explorerVars, lineageVars, openingVars>>
    \/ /\ scene = "opening" /\ OpeningNext
       /\ UNCHANGED <<scene, bundle, answer, runsVars, urlVars, explorerVars, lineageVars, timelineVars>>
Spec == Init /\ [][Next]_investigationVars

-----------------------------------------------------------------------------
(* What a traversal should find: the ids a number of edges away, in the sense of the edges. *)
Parents(graph, ids) == {graph.edges[i].from : i \in {j \in DOMAIN graph.edges : graph.edges[j].to \in ids}}
Children(graph, ids) == {graph.edges[i].to : i \in {j \in DOMAIN graph.edges : graph.edges[j].from \in ids}}
Steps(graph, direction, ids) == IF direction = "upstream" THEN Parents(graph, ids) ELSE Children(graph, ids)
(* The ids a walk of 1 .. n edges leads to. *)
Reached(graph, direction, id, n) ==
    LET Walk[k \in 0 .. n] == IF k = 0 THEN {}
                              ELSE LET before == Walk[k - 1]
                                   IN before \cup Steps(graph, direction, before \cup {id})
    IN Walk[n]
Bounded(graph, depth) == IF Within(Len(graph.nodes), depth) THEN Len(graph.nodes) ELSE depth
IsDistance(graph, direction, id, entry) ==
    /\ entry.id \in Reached(graph, direction, id, entry.depth)
    /\ entry.depth > 1 => entry.id \notin Reached(graph, direction, id, entry.depth - 1)
NoneTwice(rows) == Cardinality(ToSet(rows)) = Len(rows)
(* The nodes of a tree at each level, below what has the tree itself for its dependencies. *)
Level(tree, k) ==
    LET At[n \in 0 .. k] == IF n = 0 THEN {[dependencies |-> tree]}
                            ELSE UNION {ToSet(t.dependencies) : t \in At[n - 1]}
    IN At[k]

(* Who is upstream or downstream: the answers to a question about dependencies (flat, in build *)
(* order, a subgraph, the counts of impact, the origins of a column) hold each resource that a *)
(* chain of edges within the depth leads to, once, and no other, with its distance; the build  *)
(* order puts each after what it depends on, and is empty exactly when that is cyclic; a tree  *)
(* has no end exactly on a cycle through its root (graph.ts:210, dependencies/service.ts:59).  *)
FieldGraph == AddFieldLevelLineage(Graph, bundle.columns, bundle.analyses)
AreDistances(graph, id, direction, depth, entries) ==
    /\ NoneTwice(entries)
    /\ FoundIds(entries) = Reached(graph, direction, id, Bounded(graph, depth))
    /\ \A i \in DOMAIN entries : IsDistance(graph, direction, id, entries[i])
IsBuildOrder(graph, id, depth, entries) ==
    LET wanted == Reached(graph, "upstream", id, Bounded(graph, depth))
        within == Induced(graph, wanted)
        cyclic == \E n \in wanted : n \in Reached(within, "upstream", n, Len(graph.nodes))
    IN /\ NoneTwice(entries)
       /\ FoundIds(entries) = IF cyclic THEN {} ELSE wanted
       /\ \A i, j \in DOMAIN entries : entries[i].id \in Parents(graph, {entries[j].id}) => i < j
IsTree(graph, id, direction, depth, tree) ==
    LET found == Reached(graph, direction, id, Bounded(graph, depth))
        size == Cardinality(found)
    IN /\ tree = Endless <=> id \in found
       /\ tree # Endless =>
              /\ found = UNION {{t.id : t \in Level(tree, k)} : k \in 1 .. size}
              /\ \A k \in 1 .. size : \A t \in Level(tree, k) :
                     /\ IsDistance(graph, direction, id, t) /\ t.depth = k
                     /\ \A c \in ToSet(t.dependencies) : c.id \in Steps(graph, direction, {t.id})
AreDependencies(graph, id, options, given) ==
    CASE options.direction = "downstream" /\ options.buildOrder -> given = Refused
      [] options.direction = "upstream" /\ options.buildOrder ->
             IsBuildOrder(graph, id, options.depth, given)
      [] ~options.buildOrder /\ options.tree ->
             IsTree(graph, id, options.direction, options.depth, given)
      [] OTHER -> AreDistances(graph, id, options.direction, options.depth, given)
IsSubgraph(asked, given) ==
    LET Found(direction) == IF asked.direction \in {direction, "both"}
                            THEN Reached(Graph, direction, asked.id, Bounded(Graph, asked.depth))
                            ELSE {}
    IN NodeIds(given) = {asked.id} \cup {n \in Found("upstream") \cup Found("downstream") :
                                            Attributes(Graph, n).type \in asked.types}
DependenciesAreReachable ==
    LET size == Len(Graph.nodes)
    IN CASE answer.kind = "dependencies" ->
                AreDependencies(Graph, answer.asked[1], answer.asked[2], answer.given)
         [] answer.kind = "field" ->
                AreDependencies(FieldGraph, answer.asked[1], answer.asked[2], answer.given)
         [] answer.kind = "subgraph" -> IsSubgraph(answer.asked, answer.given)
         [] answer.kind = "impact" ->
                /\ answer.given.upstream = Cardinality(Reached(Graph, "upstream", answer.asked, size))
                /\ answer.given.downstream = Cardinality(Reached(Graph, "downstream", answer.asked, size))
                /\ ToSet(answer.given.critical)
                       \subseteq Reached(Graph, "downstream", answer.asked, size)
         [] OTHER -> TRUE

(* The critical path of a summary is a chain of edges whose nodes all ran, up to a node that   *)
(* nothing depends on; its time is the sum of theirs, and no other such chain to that node has *)
(* more nodes (analyzer.ts:180).                                                               *)
IsChain(graph, ids, path) ==
    /\ NoneTwice(path) /\ ToSet(path) \subseteq ids
    /\ \A i \in 1 .. Len(path) - 1 : HasEdge(graph, path[i], path[i + 1])
CriticalPathIsExecutedChain ==
    answer.kind = "analysis" =>
        LET graph == answer.given.graph
            executions == answer.given.executions
            critical == answer.given.summary.criticalPath
            ran == Executed(executions)
            leaf == Last(critical.path)
        IN critical.path # <<>> =>
               /\ IsChain(graph, ran, critical.path)
               /\ Children(graph, {leaf}) = {}
               /\ critical.time = PathTime(critical.path, executions)
               /\ \A n \in Len(critical.path) + 1 .. Cardinality(ran) :
                      \A chain \in [1 .. n -> ran] :
                          ~(IsChain(graph, ran, chain) /\ Last(chain) = leaf)

(* The timeline has a row for each execution that was timed and for each source of the graph   *)
(* that stands for others, none twice and no other.  A source stands for its tests, or else,   *)
(* if it is of the project, for those of its dependents that have a row and are no tests; it   *)
(* starts with the first of them, ends with the last and has the worst of their statuses.  The *)
(* rows start at 0, are in the order of their start, none ends before it starts, and no parent *)
(* of a test is a test (gantt.ts:245, 331).                                                    *)
StandsFor(s, members) ==
    /\ s.type = "source"
    /\ \E m \in members : s.start = m.start
    /\ \E m \in members : s.end = m.end
    /\ \E m \in members : s.status = m.status
    /\ \A m \in members : /\ s.start <= m.start /\ m.end <= s.end
                          /\ StatusSeverity(m.status) <= StatusSeverity(s.status)
TimelineIsConsistent ==
    answer.kind = "analysis" =>
        LET bars == answer.given.gantt
            rows == ToSet(bars)
            ran == {r.id : r \in {x \in ToSet(bundle.results) : WallClock(x) # NoTiming}}
            sources == {n \in ToSet(Graph.nodes) : n.type = "source"}
            TestsOn(id) == {r \in rows : r.type \in TestTypes /\ r.parent = id}
            Dependents(n) ==
                {r \in rows : /\ answer.given.project \in {0, n.package}
                             /\ r.id \in Children(Graph, {n.id}) /\ r.type \notin TestTypes
                             /\ (r.id \in ran \/ TestsOn(r.id) # {})}
            StoodFor(n) == IF TestsOn(n.id) # {} THEN TestsOn(n.id) ELSE Dependents(n)
        IN /\ NoneTwice(RowIds([rows |-> bars]))
           /\ {r.id : r \in rows} = ran \cup {n.id : n \in {x \in sources : StoodFor(x) # {}}}
           /\ \A n \in sources : \A s \in rows :
                  s.id = n.id /\ n.id \notin ran => StandsFor(s, StoodFor(n))
           /\ bars # <<>> => bars[1].start = 0
           /\ \A i, j \in DOMAIN bars : i < j => bars[i].start <= bars[j].start
           /\ \A r \in rows : r.start <= r.end
           /\ \A t \in rows : t.type \in TestTypes /\ t.parent # Nobody
                              => TypeOf(Graph, <<>>, t.parent) \notin TestTypes

(* Whoever follows the offsets of a list to its end gets every match once: no row is left out, *)
(* none comes twice, each page says the same total, and one without rows is the last.  A query *)
(* of executions gives only rows that the graph knows, and fails only for one of the matches   *)
(* to come that it does not know: a list with such a match is never followed to its end        *)
(* (run-results.ts:348, 355, cli-pagination.ts:53, failures-action.ts:278).                    *)
MeetsRequest(e, request) ==
    /\ e.type \in request.types
    /\ request.status = {} \/ StatusLabel(e.status) \in request.status
    /\ (request.min = Unset \/ e.time >= request.min) /\ (request.max = Unset \/ e.time <= request.max)
    /\ request.pattern = <<>> \/ MatchesGlob(e.id, request.pattern)
    /\ \A b \in request.blocks, metric \in Metrics : b.min[metric] <= e.metrics[metric]
ListMatches(list, request) ==
    CASE list \in {"runs.query", "query-executions"} ->
             {e.id : e \in {x \in ToSet(TypedExecutions) : MeetsRequest(x, request)}}
      [] list \in {"failures", "timeline"} ->
             {e.id : e \in {x \in ToSet(TypedExecutions) :
                               IF request.status # {} THEN StatusLabel(x.status) \in request.status
                               ELSE list = "timeline" \/ IsNonSuccessStatus(x.status)}}
      [] list = "run-report" -> Executed(TypedExecutions)
      [] OTHER -> {n \in NodeIds(Graph) : Attributes(Graph, n).type \in request.types}
QueryLists == {"runs.query", "query-executions"}
PagesPartitionMatches ==
    LET matches == ListMatches(answer.asked.list, answer.asked.request)
        collected == answer.given.collected
    IN /\ answer.kind \in {"list", "failure"} =>
              /\ NoneTwice(collected) /\ ToSet(collected) \subseteq matches
              /\ answer.asked.list \in QueryLists => ToSet(collected) \subseteq NodeIds(Graph)
       /\ answer.kind = "list" =>
              /\ answer.given.page.total = Cardinality(matches)
              /\ ~answer.given.page.more => ToSet(collected) = matches
              /\ answer.given.page.more => answer.given.page.rows # <<>>
       /\ answer.kind = "failure" =>
              /\ answer.asked.list \in QueryLists
              /\ ~(matches \ ToSet(collected) \subseteq NodeIds(Graph))

(* Whatever the older search finds, discovery finds too ("superset of `search`",               *)
(* discover-action.ts:2), unless its list is full; of nothing, and of an empty word ("owner:"), *)
(* the search finds everything and discovery nothing.                                           *)
SearchIsDiscoverable ==
    answer.kind = "search" =>
        LET query == ParseQueryTokens(answer.asked)
            words == ToSet(query.terms)
        IN /\ <<>> \notin words /\ (words # {} \/ query.filter # NoFilter)
           /\ Len(answer.given.discover) < ListMaxLimit
           => FoundIds(answer.given.search.rows) \subseteq FoundIds(answer.given.discover)

(* Words resolve to a match that no other one has a higher score than; when they are the name  *)
(* of a resource there is no other one of that name and type that scores about the same; and   *)
(* what is explained is what the manifest says of it (resolve-target.ts:18).  This is of the   *)
(* graphs whose scores have no bonus: nothing has eight neighbours on a side (rank.ts:320).    *)
HasHub(graph) == \E id \in NodeIds(graph) : Len(Inbound(graph, id)) >= 8 \/ Len(Outbound(graph, id)) >= 8
IsUnambiguousBest(tokens, target, matches) ==
    \E best \in matches :
        /\ best.id = target
        /\ \A m \in matches : m.score <= best.score
        /\ tokens = <<<<None, best.name>>>> =>
               \A m \in matches \ {best} :
                   m.name = best.name /\ m.type = best.type => best.score - m.score >= 50
ResolvedIsUnambiguousBest ==
    answer.kind = "explain" /\ Resolves(answer.given.target) /\ ~HasHub(Graph) =>
        /\ answer.given.type = Attributes(Graph, answer.given.target).type
        /\ IsUnambiguousBest(answer.asked, answer.given.target,
                             ToSet(DiscoverResources(Graph, answer.asked, NoFilter, ListMaxLimit)))
=============================================================================
