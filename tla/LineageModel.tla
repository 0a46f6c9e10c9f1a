---------------------------- MODULE LineageModel ----------------------------
(***************************************************************************)
(* The lineage graph of the selected asset: which nodes it has, in which   *)
(* column and at which place (lib/analysis-workspace/lineage-model.ts),    *)
(* and the controls of its panel (LineagePanel.tsx, AssetsView.tsx,        *)
(* LineageDepthControls.tsx, LensSelector.tsx).  Colours and labels,       *)
(* zooming and dragging are left out.                                      *)
(***************************************************************************)
EXTENDS Lists, FiniteSets

CONSTANTS
    LineageGraphs,  \* [nodes: id -> [type, name, tone, described], up, down: id -> ids]
    LensModes,      \* the lenses used, of "type", "status" and "coverage"
    DepthButtons    \* the buttons used, of 1, 2 and 3

(* The dependency index has every resource, and of each the resources beside it. *)
IsLineageGraph(g) ==
    /\ IsFiniteSet(DOMAIN g.nodes)
    /\ g.up \in [DOMAIN g.nodes -> Seq(DOMAIN g.nodes)]
    /\ g.down \in [DOMAIN g.nodes -> Seq(DOMAIN g.nodes)]
ASSUME LineageIsOfResources ==
    (\A g \in LineageGraphs : IsLineageGraph(g)) /\ DepthButtons \subseteq Nat

VARIABLES
    lineageGraph,   \* the resources and the dependency index of the analysis
    panel           \* the selected asset and lineageViewState
lineageVars == <<lineageGraph, panel>>

AllDepsDepth == 20
IsTestNode(g, id) == g.nodes[id].type \in {"test", "unit_test"}

-----------------------------------------------------------------------------
(* The ids within a distance, nearest first, as entries of an id and its depth. *)
EntryIds(entries) == {e.id : e \in ToSet(entries)}
Noted(found, root, entry) ==
    IF entry.id \in {root} \cup EntryIds(found) THEN found ELSE Append(found, entry)
NotedAll(found, root, ids, depth) ==
    LET After[n \in 0 .. Len(ids)] ==
            IF n = 0 THEN found ELSE Noted(After[n - 1], root, [id |-> ids[n], depth |-> depth])
    IN After[Len(ids)]
FoundLast(found, root, depth) ==
    IF depth = 0 THEN <<[id |-> root, depth |-> 0]>>
    ELSE Only(found, {e \in ToSet(found) : e.depth = depth})
BesideAll(neighbours, entries) ==
    FlattenSeq([i \in 1 .. Len(entries) |-> neighbours[entries[i].id]])
NextDepth(neighbours, root, found, depth) ==
    NotedAll(found, root, BesideAll(neighbours, FoundLast(found, root, depth - 1)), depth)
CollectDependencyIdsByDepth(neighbours, root, maxDepth) ==
    LET Within[depth \in 0 .. maxDepth] ==
            IF depth = 0 THEN <<>> ELSE NextDepth(neighbours, root, Within[depth - 1], depth)
    IN Within[maxDepth]

PanelDepth(p, side) == IF p.allDeps THEN AllDepsDepth ELSE p[side]
UpstreamOf(g, p) == CollectDependencyIdsByDepth(g.up, p.resource, PanelDepth(p, "upstream"))
DownstreamOf(g, p) == CollectDependencyIdsByDepth(g.down, p.resource, PanelDepth(p, "downstream"))

-----------------------------------------------------------------------------
(* The columns.  The rank of a node is one more than the highest rank, of the neighbours *)
(* towards the selected asset, that is known when its turn comes.                        *)
OneAbove(rank, ids) == 1 + Max({0} \cup {rank[id] : id \in DOMAIN rank \cap ToSet(ids)})
WithRank(g, rank, id, beside) ==
    IF IsTestNode(g, id) THEN rank
    ELSE [n \in DOMAIN rank \cup {id} |-> IF n = id THEN OneAbove(rank, beside) ELSE rank[n]]
Ranks(g, found, towards) ==
    LET After[n \in 0 .. Len(found)] ==
            IF n = 0 THEN <<>>
            ELSE WithRank(g, After[n - 1], found[n].id, towards[found[n].id])
    IN After[Len(found)]
GetGraphStage(type) ==
    CASE type \in {"source", "seed", "snapshot"} -> 0
      [] type = "model" -> 1
      [] type = "semantic_model" -> 2
      [] type \in {"metric", "exposure"} -> 3
      [] OTHER -> 4
PrecedesInColumn(g, a, b) ==
    LET x == g.nodes[a.id]
        y == g.nodes[b.id]
    IN \/ GetGraphStage(x.type) < GetGraphStage(y.type)
       \/ GetGraphStage(x.type) = GetGraphStage(y.type) /\ x.name < y.name
InColumn(resource, up, down, upRank, downRank, column) ==
    IF column = 0 THEN <<[id |-> resource, depth |-> 0]>>
    ELSE IF column < 0
    THEN Only(up, {e \in ToSet(up) : e.id \in DOMAIN upRank /\ -upRank[e.id] = column})
    ELSE Only(down, {e \in ToSet(down) : e.id \in DOMAIN downRank /\ downRank[e.id] = column})
ColumnNumbers(upRank, downRank) ==
    {0} \cup {-upRank[id] : id \in DOMAIN upRank} \cup {downRank[id] : id \in DOMAIN downRank}
ColumnsOf(g, resource, up, down, upRank, downRank) ==
    LET numbers == Only([i \in 1 .. Len(up) + 1 + Len(down) |-> i - 1 - Len(up)],
                        ColumnNumbers(upRank, downRank))
        In(column) == InColumn(resource, up, down, upRank, downRank, column)
        Ordered(entries) ==
            Sorted(entries, {pair \in Pairs(entries) : PrecedesInColumn(g, pair[1], pair[2])})
    IN [i \in 1 .. Len(numbers) |-> [column |-> numbers[i], resources |-> Ordered(In(numbers[i]))]]
BuildDisplayColumns(g, p) ==
    LET up == UpstreamOf(g, p)
        down == DownstreamOf(g, p)
    IN ColumnsOf(g, p.resource, up, down, Ranks(g, up, g.down), Ranks(g, down, g.up))

(* A node that is in two columns, being above and below the selected one, has its place and its *)
(* card in the last of them.                                                                    *)
ShownIds(columns) == UNION {EntryIds(columns[i].resources) : i \in DOMAIN columns}
ColumnAt(columns, id) == Max({i \in DOMAIN columns : id \in EntryIds(columns[i].resources)})
PlaceIn(resources, id) == CHOOSE k \in DOMAIN resources : resources[k].id = id
PlaceAt(columns, id) == PlaceIn(columns[ColumnAt(columns, id)].resources, id)

(* Four passes to the right and back, each of which sorts a column by the mean place of the *)
(* neighbours in the adjacent one; a neighbour without a place counts as past its end.      *)
MeanPlace(place, neighbours, id, adjacent) ==
    LET PlaceOr(n, otherwise) == IF n \in DOMAIN place THEN place[n] ELSE otherwise
        Sum[k \in 0 .. Len(neighbours)] ==
            IF k = 0 THEN 0 ELSE Sum[k - 1] + PlaceOr(neighbours[k], adjacent)
    IN IF neighbours = <<>> THEN [sum |-> PlaceOr(id, 0), of |-> 1]
       ELSE [sum |-> Sum[Len(neighbours)], of |-> Len(neighbours)]
ByMeanPlace(state, move) ==
    LET resources == state.columns[move.at].resources
        Mean(e) == MeanPlace(state.place, move.by[e.id], e.id,
                             Len(state.columns[move.beside].resources))
        Before(a, b) == a.sum * b.of < b.sum * a.of
    IN Sorted(resources, {pair \in Pairs(resources) : Before(Mean(pair[1]), Mean(pair[2]))})
Moved(state, move) ==
    LET resources == ByMeanPlace(state, move)
        ids == EntryIds(resources)
    IN [columns |-> [state.columns EXCEPT ![move.at].resources = resources],
        place |-> [id \in DOMAIN state.place \cup ids |->
                      IF id \in ids THEN PlaceIn(resources, id) - 1 ELSE state.place[id]]]
Passes(g, n) ==
    LET right == [i \in 1 .. n - 1 |-> [at |-> i + 1, by |-> g.up, beside |-> i]]
        left == [i \in 1 .. n - 1 |-> [at |-> n - i, by |-> g.down, beside |-> n - i + 1]]
        pass == right \o left
    IN pass \o pass \o pass \o pass
InFirstPlaces(columns) ==
    [columns |-> columns, place |-> [id \in ShownIds(columns) |-> PlaceAt(columns, id) - 1]]
ReorderGraphColumns(g, columns) ==
    LET moves == Passes(g, Len(columns))
        After[n \in 0 .. Len(moves)] ==
            IF n = 0 THEN InFirstPlaces(columns) ELSE Moved(After[n - 1], moves[n])
    IN After[Len(moves)].columns

-----------------------------------------------------------------------------
(* The places of the cards. *)
DisplayModeGeometry(mode) ==
    IF mode = "summary"
    THEN [width |-> 176, height |-> 64, columnGap |-> 104, rowGap |-> 24, padX |-> 40, padY |-> 40]
    ELSE [width |-> 212, height |-> 80, columnGap |-> 160, rowGap |-> 40, padX |-> 56, padY |-> 52]
Extent(count, size, gap) == count * size + Max({0, count - 1}) * gap
TallestColumn(columns) == Max({1} \cup {Len(columns[i].resources) : i \in 1 .. Len(columns)})
CanvasSize(columns, geo) ==
    [width |-> 2 * geo.padX + Extent(Len(columns), geo.width, geo.columnGap),
     height |-> 2 * geo.padY + Extent(TallestColumn(columns), geo.height, geo.rowGap)]
LineageNodeLayouts(columns, geo) ==
    LET StartY(column) ==
            (CanvasSize(columns, geo).height - Extent(Len(column.resources), geo.height, geo.rowGap))
                \div 2
    IN [id \in ShownIds(columns) |->
           LET at == ColumnAt(columns, id)
           IN [x |-> geo.padX + (at - 1) * (geo.width + geo.columnGap),
               y |-> StartY(columns[at]) + (PlaceAt(columns, id) - 1) * (geo.height + geo.rowGap),
               column |-> columns[at].column]]
DisplayedGraphEdges(g, displayed) ==
    {e \in displayed \X displayed : e[2] \in ToSet(g.down[e[1]])}
ModelOf(g, layouts, size) ==
    [layouts |-> layouts, edges |-> DisplayedGraphEdges(g, DOMAIN layouts), size |-> size]
ModelOfColumns(g, columns, geo) ==
    ModelOf(g, LineageNodeLayouts(columns, geo), CanvasSize(columns, geo))
BuildLineageGraphModel(g, p) ==
    ModelOfColumns(g, ReorderGraphColumns(g, BuildDisplayColumns(g, p)), DisplayModeGeometry(p.mode))

-----------------------------------------------------------------------------
(* The legend, and the nodes it leaves. *)
LegendKey(node, lens) ==
    CASE lens = "status" -> node.tone
      [] lens = "type" -> node.type
      [] OTHER -> IF node.described THEN "documented" ELSE "undocumented"
LegendItems(g, lens, layouts) ==
    CASE lens = "status" -> {"positive", "warning", "danger", "skipped", "neutral"}
      [] lens = "type" -> {g.nodes[id].type : id \in DOMAIN layouts}
      [] OTHER -> {"documented", "undocumented"}
EdgesWithin(edges, ids) == {e \in edges : e[1] \in ids /\ e[2] \in ids}
ReachableFromSelected(edges, selected) ==
    LET Beside(ids) == {e[1] : e \in {f \in edges : f[2] \in ids}}
                       \cup {e[2] : e \in {f \in edges : f[1] \in ids}}
        After[n \in 0 .. Cardinality(edges)] ==
            IF n = 0 THEN {selected} ELSE LET before == After[n - 1] IN before \cup Beside(before)
    IN After[Cardinality(edges)]
(* Mutant of PruneToSelected: what the legend left stays, connected or not. *)
PruneNothing(ids, edges, selected) == ids
PruneToSelected(ids, edges, selected) == ReachableFromSelected(edges, selected)
KeptByLegend(g, p, ids) ==
    {id \in ids : p.keys # {} /\ id # p.resource => LegendKey(g.nodes[id], p.lens) \in p.keys}
Pruned(ids, edges, selected) == PruneToSelected(ids, EdgesWithin(edges, ids), selected)
FilteredIds(g, p, model) ==
    Pruned(KeptByLegend(g, p, DOMAIN model.layouts), model.edges, p.resource)

-----------------------------------------------------------------------------
(* The panel. *)
LineageStart(g, id) ==
    /\ lineageGraph = g
    /\ panel = [resource |-> id, upstream |-> 2, downstream |-> 2, allDeps |-> FALSE,
                lens |-> "type", keys |-> {}, mode |-> "summary"]
SetPanel(p) == panel' = p /\ UNCHANGED lineageGraph
ToggleLegendKey ==
    \E key \in LegendItems(lineageGraph, panel.lens, BuildLineageGraphModel(lineageGraph, panel).layouts) :
        SetPanel([panel EXCEPT !.keys = IF key \in @ THEN @ \ {key} ELSE @ \cup {key}])
ClearFilters == panel.keys # {} /\ SetPanel([panel EXCEPT !.keys = {}])
SetLensMode == \E lens \in LensModes : SetPanel([panel EXCEPT !.lens = lens, !.keys = {}])
SetDepth == \/ \E n \in DepthButtons : SetPanel([panel EXCEPT !.allDeps = FALSE, !.upstream = n,
                                                          !.downstream = n])
            \/ SetPanel([panel EXCEPT !.allDeps = TRUE])
StepDepth == \E side \in {"upstream", "downstream"}, by \in {-1, 1} :
    /\ ~panel.allDeps
    /\ panel[side] + by \in DepthButtons
    /\ SetPanel([panel EXCEPT ![side] = @ + by])
(* The card of another asset; the keys of the legend stay. *)
SelectCard ==
    \E id \in FilteredIds(lineageGraph, panel, BuildLineageGraphModel(lineageGraph, panel)) :
        SetPanel([panel EXCEPT !.resource = id])
SetFullscreen == SetPanel([panel EXCEPT !.mode = IF @ = "summary" THEN "focused" ELSE "summary"])

LineageNext ==
    \/ ToggleLegendKey \/ ClearFilters \/ SetLensMode \/ SetDepth \/ StepDepth \/ SelectCard
    \/ SetFullscreen

-----------------------------------------------------------------------------
(* What one sees is the neighbourhood of the selected asset: the cards are the assets that are *)
(* no tests within the depths, none of them lies on another or outside the canvas, and those   *)
(* the legend leaves are joined to the selected one by edges that are drawn                    *)
(* (lineage-model.ts:54, 339, 675).                                                            *)
WithinSteps(neighbours, root, depth) ==
    LET After[n \in 0 .. depth] ==
            IF n = 0 THEN {root}
            ELSE LET before == After[n - 1]
                 IN before \cup UNION {ToSet(neighbours[id]) : id \in before}
    IN After[depth]
Apart(a, b, geo) ==
    \/ a.x + geo.width <= b.x \/ b.x + geo.width <= a.x
    \/ a.y + geo.height <= b.y \/ b.y + geo.height <= a.y
IsNeighbourhood(g, p, model, ids) ==
    LET layouts == model.layouts
        geo == DisplayModeGeometry(p.mode)
        edges == EdgesWithin(model.edges, ids)
    IN /\ DOMAIN layouts =
              {p.resource} \cup {id \in WithinSteps(g.up, p.resource, PanelDepth(p, "upstream"))
                                       \cup WithinSteps(g.down, p.resource, PanelDepth(p, "downstream")) :
                                    ~IsTestNode(g, id)}
       /\ \A a, b \in DOMAIN layouts : a = b \/ Apart(layouts[a], layouts[b], geo)
       /\ \A id \in DOMAIN layouts :
              /\ layouts[id].x >= 0 /\ layouts[id].x + geo.width <= model.size.width
              /\ layouts[id].y >= 0 /\ layouts[id].y + geo.height <= model.size.height
       /\ p.resource \in ids /\ ids \subseteq DOMAIN layouts
       /\ \A part \in SUBSET ids :
              (p.resource \in part /\ part # ids) =>
                  \E e \in edges : (e[1] \in part) # (e[2] \in part)
ShowsNeighbourhood(model) ==
    IsNeighbourhood(lineageGraph, panel, model, FilteredIds(lineageGraph, panel, model))
LineageIsConnected == ShowsNeighbourhood(BuildLineageGraphModel(lineageGraph, panel))
=============================================================================
