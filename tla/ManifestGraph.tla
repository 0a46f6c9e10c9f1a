--------------------------- MODULE ManifestGraph ---------------------------
(***************************************************************************)
(* The dependency graph of a manifest (core analysis/manifest/graph.ts)    *)
(* and the dependency query over it (analysis/dependencies/service.ts).    *)
(*                                                                         *)
(* A unique id is <<resource type, package, name>>, the dotted parts of    *)
(* the string, with numbers for packages and names (their order is the     *)
(* alphabet's); a field id appends the column.  A graph has its nodes and  *)
(* edges in insertion order, which graphology keeps and traversals follow. *)
(* A manifest is a record of sequences of entries and its parent_map.      *)
(***************************************************************************)
EXTENDS Lists, FiniteSets

Prefix(id) == id[1]
InferPackageName(id) == id[2]
KnownTypes == {"model", "source", "seed", "snapshot", "test", "analysis", "macro", "exposure",
               "metric", "semantic_model", "unit_test", "function"}
TestTypes == {"test", "unit_test"}
Unlimited == -1

HasNode(graph, id) == \E i \in DOMAIN graph.nodes : graph.nodes[i].id = id
Attributes(graph, id) == CHOOSE n \in ToSet(graph.nodes) : n.id = id
HasEdge(graph, from, to) == \E i \in DOMAIN graph.edges :
                               graph.edges[i].from = from /\ graph.edges[i].to = to
Inbound(graph, id) ==
    LET into == Only(graph.edges, {e \in ToSet(graph.edges) : e.to = id})
    IN [i \in DOMAIN into |-> into[i].from]
Outbound(graph, id) ==
    LET outOf == Only(graph.edges, {e \in ToSet(graph.edges) : e.from = id})
    IN [i \in DOMAIN outOf |-> outOf[i].to]

-----------------------------------------------------------------------------
(* What a node keeps of its entry: only a node of the manifest names its own type.  The text is *)
(* what a search reads: name, path, description and tags, sequences of letters.                  *)
NoText == [name |-> <<>>, path |-> <<>>, description |-> <<>>, tags |-> {}]
ExtractResourceType(type) == IF type \in KnownTypes THEN type ELSE "model"
NodeAttributes(entry, collection) ==
    [id |-> entry.id, package |-> entry.package, materialized |-> entry.materialized,
     text |-> entry.text,
     type |-> IF collection = "nodes" THEN ExtractResourceType(entry.type) ELSE collection]

Collections == {"nodes", "source", "macro", "exposure", "metric", "semantic_model", "unit_test"}
ManifestEntries(manifest, collection) ==
    [i \in DOMAIN manifest[collection] |-> NodeAttributes(manifest[collection][i], collection)]
AllEntries(manifest) ==
    ManifestEntries(manifest, "nodes") \o ManifestEntries(manifest, "source")
        \o ManifestEntries(manifest, "macro") \o ManifestEntries(manifest, "exposure")
        \o ManifestEntries(manifest, "metric") \o ManifestEntries(manifest, "semantic_model")
        \o ManifestEntries(manifest, "unit_test")
RegisterRelationNames(entries) ==
    LET named == Only(entries, {e \in ToSet(entries) : e.relation # <<>>})
    IN [i \in DOMAIN named |-> <<named[i].relation, named[i].id>>]
AddNode(graph, node) == [graph EXCEPT !.nodes = Append(@, node)]
AddNodes(graph, manifest) ==
    [graph EXCEPT !.nodes = @ \o AllEntries(manifest),
                  !.relations = @ \o RegisterRelationNames(manifest.nodes \o manifest.source)]

(* The first edge between two nodes stays: a type that a later source gives it is dropped. *)
AddEdge(graph, edge) ==
    IF HasNode(graph, edge.from) /\ HasNode(graph, edge.to) /\ ~HasEdge(graph, edge.from, edge.to)
    THEN [graph EXCEPT !.edges = Append(@, edge)]
    ELSE graph

(* What there is to join, in the order of the loops, and then one edge after the other. *)
Edge(from, to, type) == [from |-> from, to |-> to, type |-> type]
InferDependencyType(id) == IF Prefix(id) \in {"macro", "source"} THEN Prefix(id) ELSE "node"
Inferred == "inferred"
EdgesInto(child, parents, type) ==
    [i \in DOMAIN parents |->
        Edge(parents[i], child, IF type = Inferred THEN InferDependencyType(parents[i]) ELSE type)]
AddEdgesFromParentMap(parentMap) ==
    FlattenSeq([i \in DOMAIN parentMap |->
                   EdgesInto(parentMap[i].child, parentMap[i].parents, Inferred)])
AddEdgesFromDependsOn(entries) ==
    FlattenSeq([i \in DOMAIN entries |->
                   EdgesInto(entries[i].id, entries[i].nodes, "node")
                       \o EdgesInto(entries[i].id, entries[i].macros, "macro")])
ManifestEdges(manifest) ==
    AddEdgesFromParentMap(manifest.parentMap) \o AddEdgesFromDependsOn(manifest.nodes)
        \o AddEdgesFromDependsOn(manifest.exposure) \o AddEdgesFromDependsOn(manifest.metric)
Joined(graph, edges) ==
    LET After[n \in 0 .. Len(edges)] == IF n = 0 THEN graph ELSE AddEdge(After[n - 1], edges[n])
    IN After[Len(edges)]
AddEdges(graph, manifest) ==
    [graph EXCEPT !.edges = Joined(graph, ManifestEdges(manifest)).edges]

EmptyGraph == [nodes |-> <<>>, edges |-> <<>>, relations |-> <<>>]
BuildGraph(manifest) == AddEdges(AddNodes(EmptyGraph, manifest), manifest)

-----------------------------------------------------------------------------
(* Columns: the catalog's become field nodes, and an SQL analysis joins them. *)
FieldId(parent, column) == Append(parent, column)
EnsureFieldNode(graph, parent, column) ==
    LET id == FieldId(parent, column)
        node == [id |-> id, type |-> "field", materialized |-> "", text |-> NoText,
                 package |-> Attributes(graph, parent).package]
    IN IF HasNode(graph, id) THEN graph
       ELSE AddEdge(AddNode(graph, node), Edge(parent, id, "internal"))

(* A relation is its quoted path; the unqualified alias matches the first one that ends in it. *)
NotResolved == <<>>
ResolveRelation(graph, relation) ==
    LET Named(name) == Only(graph.relations, {r \in ToSet(graph.relations) : r[1] = name})
        aliased == Only(graph.relations, {r \in ToSet(graph.relations) : IsSuffix(relation, r[1])})
        Mapped(name) == Last(Named(name))[2]
    IN CASE Named(relation) # <<>> -> Mapped(relation)
         [] Named(relation) = <<>> /\ aliased # <<>> -> Mapped(aliased[1][1])
         [] OTHER -> NotResolved

(* A column of the catalog, of a node in the graph, becomes a field.  An analysis has rows of a  *)
(* target column, a field too, and the (table, column) pairs it is computed from: what they      *)
(* name is joined to it.  The loops over them, one after the other, as a list of columns.        *)
AddFieldNodes(catalog) ==
    FlattenSeq([i \in DOMAIN catalog |->
                   [j \in DOMAIN catalog[i].columns |->
                       [node |-> catalog[i].id, column |-> catalog[i].columns[j], source |-> <<>>]]])
AddFieldEdges(child, dependencies) ==
    FlattenSeq([i \in DOMAIN dependencies |->
        <<[node |-> child, column |-> dependencies[i].target, source |-> <<>>]>>
            \o [j \in DOMAIN dependencies[i].sources |->
                   [node |-> child, column |-> dependencies[i].target,
                    source |-> dependencies[i].sources[j]]]])
LineageColumns(catalog, analyses) ==
    AddFieldNodes(catalog)
        \o FlattenSeq([i \in DOMAIN analyses |-> AddFieldEdges(analyses[i].id, analyses[i].dependencies)])
JoinField(graph, parent, column, field) ==
    IF parent = NotResolved THEN graph
    ELSE AddEdge(EnsureFieldNode(graph, parent, column), Edge(FieldId(parent, column), field, "field"))
AddField(graph, c) ==
    CASE ~HasNode(graph, c.node) -> graph
      [] HasNode(graph, c.node) /\ c.source = <<>> -> EnsureFieldNode(graph, c.node, c.column)
      [] OTHER -> JoinField(graph, ResolveRelation(graph, c.source.table), c.source.column,
                            FieldId(c.node, c.column))
AddFields(graph, columns) ==
    LET After[n \in 0 .. Len(columns)] ==
            IF n = 0 THEN graph ELSE AddField(After[n - 1], columns[n])
    IN After[Len(columns)]

-----------------------------------------------------------------------------
(* Breadth first: the queue is the found entries whose depth is below the limit, in order. *)
Neighbors(graph, id, direction) ==
    IF direction = "upstream" THEN Inbound(graph, id) ELSE Outbound(graph, id)
FoundIds(entries) == {entries[i].id : i \in DOMAIN entries}
VisitNode(found, id, parent, depth) ==
    IF id \in FoundIds(found) THEN found
    ELSE Append(found, [id |-> id, depth |-> depth, parent |-> parent])
EnqueueNeighbors(found, ids, parent, depth) ==
    LET After[n \in 0 .. Len(ids)] ==
            IF n = 0 THEN found ELSE VisitNode(After[n - 1], ids[n], parent, depth)
    IN After[Len(ids)]
Within(depth, maxDepth) == maxDepth = Unlimited \/ depth < maxDepth
TakeNext(graph, found, k, maxDepth, direction) ==
    IF k > Len(found) \/ ~Within(found[k].depth, maxDepth) THEN found
    ELSE EnqueueNeighbors(found, Neighbors(graph, found[k].id, direction), found[k].id,
                          found[k].depth + 1)
Traverse(graph, root, maxDepth, direction) ==
    LET size == Len(graph.nodes)
        After[k \in 0 .. size] ==
            IF k = 0 THEN EnqueueNeighbors(<<>>, Neighbors(graph, root, direction), root, 1)
            ELSE TakeNext(graph, After[k - 1], k, maxDepth, direction)
    IN IF HasNode(graph, root) THEN After[size] ELSE <<>>

(* Mutant of Upstream: the depth limit is off by one. *)
UpstreamOneFurther(graph, id, maxDepth) == Traverse(graph, id, maxDepth + 1, "upstream")
Upstream(graph, id, maxDepth) == Traverse(graph, id, maxDepth, "upstream")
Downstream(graph, id, maxDepth) == Traverse(graph, id, maxDepth, "downstream")

Induced(graph, ids) ==
    [graph EXCEPT !.nodes = Only(@, {n \in ToSet(@) : n.id \in ids}),
                  !.edges = Only(@, {e \in ToSet(@) : e.from \in ids /\ e.to \in ids})]
HasCycles(graph) ==
    \E i \in DOMAIN graph.nodes :
        graph.nodes[i].id \in FoundIds(Upstream(graph, graph.nodes[i].id, Unlimited))

(* graphology-dag: ready nodes first; it throws on a cycle (here <<>>, as for nothing upstream). *)
ReadyNodes(graph, done) ==
    {i \in DOMAIN graph.nodes : /\ graph.nodes[i].id \notin ToSet(done)
                                /\ ToSet(Inbound(graph, graph.nodes[i].id)) \subseteq ToSet(done)}
TopologicalSort(graph) ==
    LET Ordered[k \in 0 .. Len(graph.nodes)] ==
            IF k = 0 THEN <<>>
            ELSE Append(Ordered[k - 1], graph.nodes[Min(ReadyNodes(graph, Ordered[k - 1]))].id)
    IN IF HasCycles(graph) THEN <<>> ELSE Ordered[Len(graph.nodes)]
DepthOf(entries, id) == entries[CHOOSE i \in DOMAIN entries : entries[i].id = id].depth
UpstreamBuildOrder(graph, id, maxDepth) ==
    LET entries == Upstream(graph, id, maxDepth)
        order == TopologicalSort(Induced(graph, FoundIds(entries)))
    IN [i \in DOMAIN order |-> [id |-> order[i], depth |-> DepthOf(entries, order[i])]]

(* The focus stays whatever its type; the type filter applies to what the traversal found. *)
Subgraph(graph, focus, direction, maxDepth, types) ==
    LET up == IF direction \in {"upstream", "both"} THEN FoundIds(Upstream(graph, focus, maxDepth))
              ELSE {}
        down == IF direction \in {"downstream", "both"}
                THEN FoundIds(Downstream(graph, focus, maxDepth)) ELSE {}
    IN Induced(graph, {focus} \cup {n \in up \cup down : Attributes(graph, n).type \in types})

GraphSummary(graph) ==
    LET types == {graph.nodes[i].type : i \in DOMAIN graph.nodes}
    IN [totalNodes |-> Len(graph.nodes), totalEdges |-> Len(graph.edges),
        hasCycles |-> HasCycles(graph),
        nodesByType |-> [t \in types |-> Cardinality({i \in DOMAIN graph.nodes :
                                                          graph.nodes[i].type = t})]]

-----------------------------------------------------------------------------
(* The dependency query: flat, in build order, or a tree of the traversal's parents. *)
Entries(graph, id, direction, maxDepth) ==
    IF direction = "upstream" THEN Upstream(graph, id, maxDepth)
    ELSE Downstream(graph, id, maxDepth)
GetDependencies(graph, id, direction, maxDepth, buildOrder) ==
    IF direction = "upstream" /\ buildOrder THEN UpstreamBuildOrder(graph, id, maxDepth)
    ELSE Entries(graph, id, direction, maxDepth)

(* The tree nests each entry under its parent.  The recursion of buildNode has no end when the *)
(* root is among its own entries (a cycle): Endless, the exceeded stack.                        *)
Endless == <<[id |-> <<>>, depth |-> 0, dependencies |-> <<>>]>>
ChildrenOf(entries, id) == Only(entries, {e \in ToSet(entries) : e.parent = id})
BuildNodes(entries, id, below) ==
    LET children == ChildrenOf(entries, id)
    IN [i \in DOMAIN children |->
           [id |-> children[i].id, depth |-> children[i].depth, dependencies |-> below[children[i].id]]]
Nested(entries, id) ==
    LET ids == {id} \cup FoundIds(entries)
        Nest[k \in 0 .. Len(entries)] ==
            IF k = 0 THEN [n \in ids |-> <<>>]
            ELSE [n \in ids |-> BuildNodes(entries, n, Nest[k - 1])]
    IN Nest[Len(entries)][id]
GetDependenciesTree(graph, id, direction, maxDepth) ==
    LET entries == Entries(graph, id, direction, maxDepth)
    IN IF id \in FoundIds(entries) THEN Endless ELSE Nested(entries, id)
=============================================================================
