---------------------------- MODULE TimelineChart ----------------------------
(***************************************************************************)
(* The Timeline view (components/AnalysisWorkspace/timeline): which rows   *)
(* of the run are listed, how they are laid out and found again under the  *)
(* pointer, which dependencies are drawn for the row one points at, and    *)
(* the brush that zooms.                                                   *)
(*                                                                         *)
(* Times are numbers of one unit, heights pixels, a position across the    *)
(* chart a number of pixels from its left edge.  Ids are numbers in the    *)
(* order of their names, 0 none; a query is a set of words, which each id  *)
(* or name holds or does not.  The deferred query is the query, scrolling  *)
(* and colours are left out.                                               *)
(***************************************************************************)
EXTENDS Lists, FiniteSets

CONSTANTS
    TimelineRuns,       \* [items (by start), adjacency, issues (of attached tests), project]
    TimelineDefaults,   \* preferences: [showTests, failuresOnly, direction, depth]
    TimelineQueries,    \* bound: what is typed into the search box,
    TimelineStatuses,   \* bound: the statuses and
    TimelineTypes,      \* bound: the types that are clicked in the legend,
    PointerXs,          \* bound: where the pointer goes, across (below 0 in the labels)
    PointerYs,          \* bound: and down the rows,
    BrushPoints,        \* bound: where the brush is pressed and let go
    MaxClicks,          \* bound: clicks of a behaviour
    ChartW,             \* width of the chart
    MinBrushWindow,     \* MIN_BRUSH_WINDOW_MS
    MaxDirectEdges,     \* TIMELINE_MAX_UPSTREAM_EDGES, TIMELINE_MAX_DOWNSTREAM_EDGES
    MaxExtendedEdges    \* TIMELINE_EXTENDED_MAX_EDGES_PER_DIRECTION

VARIABLES
    gantt,              \* the run on the page
    filters,            \* TimelineFilterState
    hovered,            \* the item under the pointer
    clicks
timelineVars == <<gantt, filters, hovered, clicks>>

(* What an analysis gives a row for starts before it ends, or when it does. *)
IsBar(item) == item.start \in Int /\ item.end \in Int /\ item.start <= item.end
ASSUME RunsOfBars ==
    /\ \A g \in TimelineRuns : /\ g.items \in Seq({g.items[i] : i \in DOMAIN g.items})
                              /\ \A i \in DOMAIN g.items : IsBar(g.items[i])
    /\ BrushPoints \subseteq Int /\ MinBrushWindow \in Nat \ {0}

NoItem == 0
FullRun == [start |-> 0, end |-> -1]
MaxHops == 3
ChipTypes == {"test", "unit_test"}
PrimaryTimelineTypes == {"model", "seed", "snapshot", "source", "source_freshness",
                         "metric", "semantic_model"} \cup ChipTypes
IsPositiveStatus(status) == status \in {"success", "pass", "passed"}
ItemIds(items) == {items[i].id : i \in DOMAIN items}
IsChip(item) == item.type \in ChipTypes
ItemOf(items, id) == CHOOSE item \in ToSet(items) : item.id = id

Legs == {"upstream", "downstream"}
NeighboursOf(g, id, leg) ==
    IF id \notin DOMAIN g.adjacency THEN <<>>
    ELSE IF leg = "upstream" THEN g.adjacency[id].inbound ELSE g.adjacency[id].outbound
(* The ids of those given that a chain of so many edges or fewer leads to, from one of them. *)
AdjacentTo(g, leg, v, n) == n \in ToSet(NeighboursOf(g, v, leg))
NearTo(g, leg, within, from, steps) ==
    LET Near[n \in 0 .. steps] ==
            IF n = 0 THEN {from}
            ELSE LET nearer == Near[n - 1]
                 IN nearer \cup {w \in within : \E v \in nearer : AdjacentTo(g, leg, v, w)}
    IN Near[steps]

(* The adjacency has an entry for each row and for no other, with the neighbours in a graph that *)
(* has an edge once (executions.ts:31), and dbt refuses a project whose dependencies are cyclic. *)
OnceEach(seq) == seq \in Seq(ToSet(seq)) /\ \A i, j \in DOMAIN seq : seq[i] = seq[j] => i = j
IsTimelineGraph(g) ==
    LET ids == ItemIds(g.items)
    IN /\ DOMAIN g.adjacency = ids /\ NoItem \notin ids
       /\ \A v \in ids : \A leg \in Legs : OnceEach(NeighboursOf(g, v, leg))
       /\ \A v, w \in ids : AdjacentTo(g, "upstream", v, w) <=> AdjacentTo(g, "downstream", w, v)
       /\ \A v \in ids : /\ ~ AdjacentTo(g, "upstream", v, v)
                          /\ NearTo(g, "upstream", ids, v, MaxHops)
                             \cap NearTo(g, "downstream", ids, v, MaxHops) = {v}
ASSUME RunsOfGraphs ==
    /\ \A g \in TimelineRuns : IsTimelineGraph(g)
    /\ \A d \in TimelineDefaults : d.depth \in 1 .. MaxHops /\ d.direction \in Legs \cup {"both"}
    /\ MaxDirectEdges \in Nat /\ MaxExtendedEdges \in Nat \ {0}

-----------------------------------------------------------------------------
(* Which rows are listed. *)
IsDefaultTimelineResource(g, item) ==
    /\ item.type \in PrimaryTimelineTypes \ ChipTypes /\ ~item.internal
    /\ g.project = NoItem \/ item.package = g.project
DefaultActiveTypes(g) ==
    {i.type : i \in {x \in ToSet(g.items) : IsDefaultTimelineResource(g, x)}}
EffectiveTypes(g, f) == IF f.types # {} THEN f.types ELSE DefaultActiveTypes(g)
ChipsOf(items, parent) == Only(items, {t \in ToSet(items) : IsChip(t) /\ t.parent = parent})
ParentHasFailureSignal(g, item) ==
    \/ ~IsPositiveStatus(item.status)
    \/ IF item.id \in DOMAIN g.issues THEN g.issues[item.id] > 0
       ELSE \E t \in ToSet(ChipsOf(g.items, item.id)) : ~IsPositiveStatus(t.status)
MatchesTimelineQuery(item, query) == query \subseteq item.words
FilteredParents(g, f) ==
    Only(g.items, {item \in ToSet(g.items) :
        /\ ~IsChip(item)
        /\ f.types # {} \/ IsDefaultTimelineResource(g, item)
        /\ f.statuses = {} \/ item.status \in f.statuses
        /\ EffectiveTypes(g, f) = {} \/ item.type \in EffectiveTypes(g, f)
        /\ MatchesTimelineQuery(item, f.query)
        /\ f.failuresOnly => ParentHasFailureSignal(g, item)})

(* A selection narrows them to its neighbourhood; that of a test is its parent's. *)
NeighborhoodFocus(g, selected, candidates) ==
    IF selected \in candidates THEN selected
    ELSE LET parents == {t.parent : t \in {x \in ToSet(g.items) : x.id = selected /\ IsChip(x)}}
         IN IF parents \subseteq candidates /\ parents # {} THEN CHOOSE p \in parents : TRUE
            ELSE NoItem
(* Mutant of NeighborhoodHalf: the walk also goes through rows that are filtered out. *)
NeighborhoodThroughAll(g, focus, candidates, hops, leg) ==
    LET Far[n \in 0 .. hops] ==
            IF n = 0 THEN {focus}
            ELSE LET before == Far[n - 1]
                 IN before \cup UNION {ToSet(NeighboursOf(g, v, leg)) : v \in before}
    IN Far[hops] \cap candidates
NeighborhoodHalf(g, focus, candidates, hops, leg) ==
    LET Far[n \in 0 .. hops] ==
            IF n = 0 THEN {focus}
            ELSE LET before == Far[n - 1]
                 IN before \cup (candidates \cap UNION {ToSet(NeighboursOf(g, v, leg)) : v \in before})
    IN Far[hops]
LegsOf(direction) == IF direction = "both" THEN Legs ELSE {direction}
NeighborhoodIds(g, f, candidates) ==
    LET focus == NeighborhoodFocus(g, f.selected, candidates)
    IN IF focus = NoItem \/ focus \notin DOMAIN g.adjacency THEN candidates
       ELSE UNION {NeighborhoodHalf(g, focus, candidates, Min({f.depth, MaxHops}), leg) :
                      leg \in LegsOf(f.direction)}
DisplayedParents(g, f, parents) ==
    LET near == NeighborhoodIds(g, f, ItemIds(parents))
    IN IF f.selected = NoItem \/ f.showAll THEN parents
       ELSE Only(parents, {p \in ToSet(parents) : p.id \in near})
WithChips(g, f, parents) ==
    IF ~f.showTests THEN parents
    ELSE parents \o Only(g.items, {t \in ToSet(g.items) : IsChip(t) /\ t.parent \in ItemIds(parents)})
FilteredData(g, f) == WithChips(g, f, DisplayedParents(g, f, FilteredParents(g, f)))

(* The banner that offers all rows, or only the neighbourhood; and the counts of the legend. *)
NeighborhoodBanner(g, f) ==
    LET parents == ItemIds(FilteredParents(g, f))
        near == NeighborhoodIds(g, f, parents)
    IN CASE f.selected = NoItem \/ near = parents -> "none"
         [] f.selected # NoItem /\ near # parents /\ f.showAll -> "expanded"
         [] OTHER -> "narrowed"
LegendStatuses(g) ==
    {i.status : i \in {x \in ToSet(g.items) : IsDefaultTimelineResource(g, x)}}
HasTimelineFilters(g, f) ==
    f.statuses # {} \/ EffectiveTypes(g, f) # DefaultActiveTypes(g) \/ f.query # {}

-----------------------------------------------------------------------------
(* How they are laid out: a row for each parent, the tests on it in lanes below its bar. *)
InLane(test, lane) == [item |-> test, lane |-> lane]
PlaceInLane(placed, test) ==
    LET free == {l \in DOMAIN placed.tails : placed.tails[l] <= test.start}
    IN IF free = {}
       THEN [tails |-> Append(placed.tails, test.end),
             lanes |-> Append(placed.lanes, InLane(test, Len(placed.tails)))]
       ELSE [tails |-> [placed.tails EXCEPT ![Min(free)] = test.end],
             lanes |-> Append(placed.lanes, InLane(test, Min(free) - 1))]
TestsByStart(tests) == Sorted(tests, {p \in Pairs(tests) : p[1].start < p[2].start})
AssignLanes(tests) ==
    LET sorted == TestsByStart(tests)
        Placed[k \in 0 .. Len(sorted)] ==
            IF k = 0 THEN [tails |-> <<>>, lanes |-> <<>>] ELSE PlaceInLane(Placed[k - 1], sorted[k])
    IN Placed[Len(sorted)]
IsAbove(a, b) == \/ a.start < b.start
                 \/ a.start = b.start /\ a.end - a.start > b.end - b.start
ParentsByStart(items) ==
    LET parents == Only(items, {i \in ToSet(items) : ~IsChip(i)})
    IN Sorted(parents, {p \in Pairs(parents) : IsAbove(p[1], p[2])})
BundleOf(items, parent) ==
    LET placed == AssignLanes(ChipsOf(items, parent.id))
    IN [item |-> parent, lanes |-> placed.lanes, laneCount |-> Len(placed.tails)]
GroupIntoBundles(items) ==
    [i \in DOMAIN ParentsByStart(items) |-> BundleOf(items, ParentsByStart(items)[i])]

Overlaps(item, window) == item.end > window.start /\ item.start < window.end
InWindow(items, window) ==
    IF window = FullRun THEN items
    ELSE Only(items, {i \in ToSet(items) :
             Overlaps(i, window) \/ \E t \in ToSet(ChipsOf(items, i.id)) : Overlaps(t, window)})

RowH == 44
BarH == 14
BarPad == 6
HullPad == 5
TestBarH == 10
TestLaneH == 14
MinChipW == 4
MinBarW == 2
BundleRowHeight(bundle, showTests) ==
    IF showTests /\ bundle.laneCount > 0
    THEN RowH + HullPad + bundle.laneCount * TestLaneH + HullPad ELSE RowH
ChipTop(offset, lane) == offset + RowH + HullPad + lane * TestLaneH

(* All of it, as the chart computes it from what the view lists. *)
OffsetsOf(heights) ==
    LET Bottom[i \in 0 .. Len(heights)] == IF i = 0 THEN 0 ELSE Bottom[i - 1] + heights[i]
    IN [i \in 1 .. Len(heights) + 1 |-> Bottom[i - 1]]
Chart(data, bundles, heights, offsets, window, maxEnd) ==
    [data |-> data, rows |-> GroupIntoBundles(data), maxEnd |-> maxEnd, bundles |-> bundles,
     offsets |-> Front(offsets), heights |-> heights, height |-> Last(offsets),
     range |-> IF window = FullRun THEN [start |-> 0, end |-> maxEnd] ELSE window]
ChartOfRows(data, bundles, heights, window) ==
    Chart(data, bundles, heights, OffsetsOf(heights), window,
          Max({1} \cup {data[i].end : i \in DOMAIN data}))
ChartOfBundles(data, bundles, f) ==
    ChartOfRows(data, bundles,
                [i \in DOMAIN bundles |-> BundleRowHeight(bundles[i], f.showTests)], f.window)
ChartOfData(data, f) == ChartOfBundles(data, GroupIntoBundles(InWindow(data, f.window)), f)
ChartOf(g, f) == ChartOfData(FilteredData(g, f), f)
RowOf(chart, id) ==
    {i \in DOMAIN chart.bundles :
        \/ chart.bundles[i].item.id = id
        \/ \E k \in DOMAIN chart.bundles[i].lanes : chart.bundles[i].lanes[k].item.id = id}

-----------------------------------------------------------------------------
(* What is drawn and what the pointer hits.  Binary searches over the offsets, counted from 1: *)
(* each turn of the loop halves what is left, so that as many as there are rows are enough.     *)
(* Mutant of FindBundleAtOffset: the line where a row ends is still its own. *)
FindBundleUpToEnd(offsets, heights, y) ==
    LET rows == {i \in DOMAIN offsets : offsets[i] <= y /\ y <= offsets[i] + heights[i]}
    IN IF rows = {} THEN 0 ELSE Min(rows)
FindTurn(offsets, heights, y, at) ==
    LET mid == (at.lo + at.hi) \div 2
    IN IF at.lo > at.hi \/ at.found # 0 THEN at
       ELSE IF offsets[mid] > y THEN [at EXCEPT !.hi = mid - 1]
       ELSE IF offsets[mid] + heights[mid] <= y THEN [at EXCEPT !.lo = mid + 1]
       ELSE [at EXCEPT !.found = mid]
FindBundleAtOffset(offsets, heights, y) ==
    LET After[n \in 0 .. Len(offsets)] ==
            IF n = 0 THEN [lo |-> 1, hi |-> Len(offsets), found |-> 0]
            ELSE FindTurn(offsets, heights, y, After[n - 1])
    IN After[Len(offsets)].found
FirstTurn(offsets, scrollTop, at) ==
    LET mid == (at.lo + at.hi) \div 2
    IN IF at.lo >= at.hi THEN at
       ELSE IF offsets[mid] < scrollTop THEN [at EXCEPT !.lo = mid + 1] ELSE [at EXCEPT !.hi = mid]
FindFirstVisible(offsets, scrollTop) ==
    LET After[n \in 0 .. Len(offsets)] ==
            IF n = 0 THEN [lo |-> 1, hi |-> Len(offsets)]
            ELSE FirstTurn(offsets, scrollTop, After[n - 1])
    IN Max({1, After[Len(offsets)].lo - 1})
FindLastVisible(offsets, heights, scrollTop, contentH) ==
    Max({1} \cup {i \in DOMAIN offsets : offsets[i] + heights[i] > scrollTop
                                          /\ offsets[i] < scrollTop + contentH})
VisibleRows(chart, scrollTop, contentH) ==
    FindFirstVisible(chart.offsets, scrollTop)
        .. FindLastVisible(chart.offsets, chart.heights, scrollTop, contentH)

(* Where a bar is across the chart, in pixels times the length of the range. *)
Strip(range, item, minWidth) ==
    LET length == Max({1, range.end - range.start})
        left == Max({0, (item.start - range.start) * ChartW})
        right == Min({ChartW * length, (item.end - range.start) * ChartW})
    IN [left |-> left, right |-> left + Max({minWidth * length, right - left})]
WithinStrip(range, item, minWidth, x) ==
    LET strip == Strip(range, item, minWidth)
        at == x * Max({1, range.end - range.start})
    IN strip.left <= at /\ at <= strip.right
HitTestBundle(chart, showTests, x, y) ==
    LET row == FindBundleAtOffset(chart.offsets, chart.heights, y)
        bundle == chart.bundles[row]
        OnChip(l) == /\ WithinStrip(chart.range, l.item, MinChipW, x)
                     /\ y >= ChipTop(chart.offsets[row], l.lane)
                     /\ y <= ChipTop(chart.offsets[row], l.lane) + TestBarH
        hit == SelectSeq(bundle.lanes, OnChip)
    IN IF row = 0 THEN NoItem
       ELSE IF x < 0 \/ WithinStrip(chart.range, bundle.item, MinBarW, x) THEN bundle.item.id
       ELSE IF showTests /\ hit # <<>> THEN hit[1].item.id
       ELSE NoItem

-----------------------------------------------------------------------------
(* The dependencies drawn for one item: its neighbours on the chart, the nearest first and only *)
(* so many of them, then the edges further away, breadth first and again only so many.          *)
ResourceRank ==
    [model |-> 0, source |-> 1, source_freshness |-> 1, snapshot |-> 2, seed |-> 3, exposure |-> 4,
     metric |-> 5, semantic_model |-> 6, test |-> 7, unit_test |-> 8, macro |-> 9, analysis |-> 10]
Siblings(a, b) == IsChip(a) /\ IsChip(b) /\ a.parent # NoItem /\ a.parent = b.parent
AbsOf(n) == IF n < 0 THEN -n ELSE n
RankNeighborIds(items, focus, ids, leg) ==
    LET Item(id) == ItemOf(items, id)
        Key(id) == <<IF Siblings(Item(id), focus) THEN 0 ELSE 1, ResourceRank[Item(id).type],
                     IF leg = "upstream" THEN AbsOf(Item(id).end - focus.start)
                     ELSE AbsOf(Item(id).start - focus.end),
                     id>>
        Before(a, b) == \E k \in 1 .. 4 : /\ Key(a)[k] < Key(b)[k]
                                          /\ \A j \in 1 .. k - 1 : Key(a)[j] = Key(b)[j]
    IN Sorted(ids, {pair \in Pairs(ids) : Before(pair[1], pair[2])})
ApplyNeighborCap(ranked) == SubSeq(ranked, 1, Min({Len(ranked), MaxDirectEdges}))
EdgeAlong(leg, v, n, tier, hop) ==
    [from |-> IF leg = "upstream" THEN n ELSE v, to |-> IF leg = "upstream" THEN v ELSE n,
     tier |-> tier, hop |-> hop, leg |-> leg]
(* Mutant of OneHopEdges: neighbours that a filter or the zoom hides are not left out. *)
OneHopEdgesToAll(g, chart, focus, leg) ==
    LET near == Only(NeighboursOf(g, focus.id, leg), ItemIds(g.items))
        capped == ApplyNeighborCap(RankNeighborIds(g.items, focus, near, leg))
    IN [i \in DOMAIN capped |-> EdgeAlong(leg, focus.id, capped[i], "primary", 1)]
OnChart(chart, ids) == Only(ids, {n \in ToSet(ids) : RowOf(chart, n) # {}})
OneHopEdges(g, chart, focus, leg) ==
    LET near == OnChart(chart, NeighboursOf(g, focus.id, leg))
        capped == ApplyNeighborCap(RankNeighborIds(chart.data, focus, near, leg))
        Tier(id) == CASE leg = "downstream" -> "downstream"
                      [] leg = "upstream" /\ Siblings(ItemOf(chart.data, id), focus) -> "secondary"
                      [] OTHER -> "primary"
    IN [i \in DOMAIN capped |-> EdgeAlong(leg, focus.id, capped[i], Tier(capped[i]), 1)]

VisitNeighbor(chart, leg, hop, found, pair) ==
    LET n == pair[2]
        edge == EdgeAlong(leg, pair[1], n, IF leg = "upstream" THEN "primary" ELSE leg, hop)
        isNew == <<edge.from, edge.to>> \notin found.seen
        edges == IF isNew /\ hop >= 2 THEN Append(found.edges, edge) ELSE found.edges
        full == isNew /\ hop >= 2 /\ Len(edges) >= MaxExtendedEdges
    IN IF found.truncated \/ RowOf(chart, n) = {} THEN found
       ELSE [edges |-> edges, seen |-> found.seen \cup {<<edge.from, edge.to>>},
             next |-> IF full \/ n \in ToSet(found.next) THEN found.next ELSE Append(found.next, n),
             truncated |-> full]
VisitAll(chart, leg, hop, found, pairs) ==
    LET After[k \in 0 .. Len(pairs)] ==
            IF k = 0 THEN found ELSE VisitNeighbor(chart, leg, hop, After[k - 1], pairs[k])
    IN After[Len(pairs)]
NeighborPairs(g, leg, ids) ==
    FlattenSeq([i \in 1 .. Len(ids) |->
                   [j \in 1 .. Len(NeighboursOf(g, ids[i], leg)) |->
                       <<ids[i], NeighboursOf(g, ids[i], leg)[j]>>]])
VisitFrontier(g, chart, leg, found, hop) ==
    IF found.truncated THEN found
    ELSE VisitAll(chart, leg, hop,
                  [edges |-> found.edges, seen |-> found.seen, next |-> <<>>, truncated |-> FALSE],
                  NeighborPairs(g, leg, found.next))
ExtendedEdges(g, chart, focusId, hops, leg) ==
    LET After[hop \in 0 .. hops] ==
            IF hop = 0
            THEN [edges |-> <<>>, seen |-> {}, next |-> <<focusId>>, truncated |-> FALSE]
            ELSE VisitFrontier(g, chart, leg, After[hop - 1], hop)
    IN After[hops].edges

(* Of two edges between the same ends the first stays. *)
WithEdge(merged, e) ==
    IF \E m \in merged : m.from = e.from /\ m.to = e.to THEN merged ELSE merged \cup {e}
MergeFocusEdges(edges) ==
    LET Merged[k \in 0 .. Len(edges)] == IF k = 0 THEN {} ELSE WithEdge(Merged[k - 1], edges[k])
    IN Merged[Len(edges)]
EdgeFocus == IF filters.selected # NoItem THEN filters.selected ELSE hovered
OfLegs(direction, up, down) ==
    (IF "upstream" \in LegsOf(direction) THEN up ELSE <<>>)
        \o (IF "downstream" \in LegsOf(direction) THEN down ELSE <<>>)
FocusEdges(g, f, chart, focusId) ==
    LET focus == ItemOf(chart.data, focusId)
        hops == Min({f.depth, MaxHops})
    IN IF focusId \notin DOMAIN g.adjacency \/ RowOf(chart, focusId) = {} THEN {}
       ELSE MergeFocusEdges(
                OfLegs(f.direction, OneHopEdges(g, chart, focus, "upstream"),
                                    OneHopEdges(g, chart, focus, "downstream"))
                \o IF hops = 1 THEN <<>>
                   ELSE OfLegs(f.direction, ExtendedEdges(g, chart, focusId, hops, "upstream"),
                                            ExtendedEdges(g, chart, focusId, hops, "downstream")))

(* The middle of a bar or chip down the rows; an edge to one that is not drawn is left out. *)
ParcelCenters(chart, showTests, id) ==
    {c \in {IF chart.bundles[i].item.id = id THEN <<chart.offsets[i] + BarPad + BarH \div 2>>
            ELSE IF ~showTests THEN <<>>
            ELSE LET l == CHOOSE x \in ToSet(chart.bundles[i].lanes) : x.item.id = id
                 IN <<ChipTop(chart.offsets[i], l.lane) + TestBarH \div 2>> :
                    i \in RowOf(chart, id)} : c # <<>>}
DrawnEdges(g, f, chart, focusId) ==
    {e \in FocusEdges(g, f, chart, focusId) :
        ParcelCenters(chart, f.showTests, e.from) # {} /\ ParcelCenters(chart, f.showTests, e.to) # {}}

-----------------------------------------------------------------------------
(* The view as it opens, with the preferences and the selection of the URL. *)
TimelineStart(g, defaults, selected) ==
    /\ gantt = g /\ hovered = NoItem /\ clicks = 0
    /\ filters = [query |-> {}, statuses |-> {}, types |-> {}, selected |-> selected,
                  showTests |-> defaults.showTests, failuresOnly |-> defaults.failuresOnly,
                  direction |-> defaults.direction, depth |-> defaults.depth,
                  window |-> FullRun, showAll |-> FALSE]

Click == clicks < MaxClicks /\ clicks' = clicks + 1 /\ UNCHANGED gantt
SetFilters(f) == Click /\ filters' = f /\ UNCHANGED hovered
Flip(set, value) == IF value \in set THEN set \ {value} ELSE set \cup {value}

(* The legend. *)
ToggleTimelineStatus ==
    \E s \in TimelineStatuses \cap LegendStatuses(gantt) :
        SetFilters([filters EXCEPT !.statuses = Flip(@, s)])
ToggleTimelineType ==
    \E t \in TimelineTypes :
        SetFilters([filters EXCEPT !.types = Flip(EffectiveTypes(gantt, filters), t)])
ToggleShowTests == SetFilters([filters EXCEPT !.showTests = ~@])
ToggleFailuresOnly == SetFilters([filters EXCEPT !.failuresOnly = ~@])

(* The controls of the search, the dependencies and the rows. *)
SearchTimeline ==
    \E q \in TimelineQueries \cup {{}} :
        q # filters.query /\ SetFilters([filters EXCEPT !.query = q])
ClearTimelineFilters ==
    /\ HasTimelineFilters(gantt, filters)
    /\ SetFilters([filters EXCEPT !.query = {}, !.statuses = {}, !.types = {}, !.selected = NoItem,
                                  !.direction = "both", !.depth = 2, !.showAll = FALSE])
SetTimelineDepth ==
    \E depth \in {filters.depth - 1, filters.depth + 1, MaxHops} :
        depth \in 1 .. MaxHops /\ SetFilters([filters EXCEPT !.depth = depth])
SetTimelineDirection ==
    \E direction \in Legs \cup {"both"} :
        SetFilters([filters EXCEPT !.direction = direction])
ToggleNeighborhoodRows ==
    /\ NeighborhoodBanner(gantt, filters) # "none"
    /\ SetFilters([filters EXCEPT !.showAll = NeighborhoodBanner(gantt, filters) = "narrowed"])

(* The pointer and the keyboard, over the chart. *)
SelectItem(id) ==
    SetFilters([filters EXCEPT !.selected = id,
                               !.showAll = id # NoItem /\ id = filters.selected /\ @])
HitItems(chart) ==
    IF chart.rows = <<>> THEN {}
    ELSE {HitTestBundle(chart, filters.showTests, x, y) : x \in PointerXs, y \in PointerYs}
UnderPointer == HitItems(ChartOf(gantt, filters))
PointerMove == \E id \in UnderPointer : Click /\ hovered' = id /\ UNCHANGED filters
PointerClick == \E id \in UnderPointer : SelectItem(id)
PressEnter ==
    LET active == IF hovered # NoItem THEN hovered ELSE filters.selected
    IN active # NoItem /\ ChartOf(gantt, filters).rows # <<>> /\ SelectItem(active)
PointerLeave == hovered # NoItem /\ Click /\ hovered' = NoItem /\ UNCHANGED filters

-----------------------------------------------------------------------------
(* The brush.  Every move of a drag starts from where the drag began: only the last one counts. *)
BrushSelection(f, maxEnd) ==
    IF f.window = FullRun THEN [start |-> 0, end |-> maxEnd] ELSE f.window
MinWindow(maxEnd) == Min({Max({MinBrushWindow, maxEnd \div 100}), maxEnd})
CanBegin(mode, from, selection) ==
    CASE mode = "create" -> from < selection.start \/ from > selection.end
      [] mode = "pan" -> selection.start <= from /\ from <= selection.end
      [] mode = "start" -> from = selection.start
      [] OTHER -> from = selection.end
(* Mutant of Dragged: panning stops at the start of the run only. *)
DraggedPastTheEnd(mode, from, to, selection, maxEnd) ==
    LET moved == Max({0, selection.start + (to - from)})
    IN IF mode = "pan"
       THEN [start |-> moved, end |-> moved + selection.end - selection.start]
       ELSE selection
Dragged(mode, from, to, selection, maxEnd) ==
    CASE mode = "create" -> [start |-> Min({from, to}), end |-> Max({from, to})]
      [] mode = "pan" ->
             LET length == selection.end - selection.start
                 start == Min({Max({0, selection.start + (to - from)}), maxEnd - length})
             IN [start |-> start, end |-> start + length]
      [] mode = "start" ->
             [selection EXCEPT !.start = Min({Max({0, @ + (to - from)}),
                                              selection.end - MinWindow(maxEnd)})]
      [] OTHER ->
             [selection EXCEPT !.end = Max({Min({maxEnd, @ + (to - from)}),
                                            selection.start + MinWindow(maxEnd)})]
ClampWindow(window, maxEnd) ==
    [start |-> Max({0, Min({window.start, maxEnd})}), end |-> Max({0, Min({window.end, maxEnd})})]
EndBrushDrag(window, mode, maxEnd) ==
    LET next == ClampWindow(window, maxEnd)
    IN CASE mode = "create" /\ next.end - next.start < MinWindow(maxEnd) -> filters.window
         [] next.start <= 0 /\ next.end >= maxEnd
            /\ (mode # "create" \/ next.end - next.start >= MinWindow(maxEnd)) -> FullRun
         [] OTHER -> next
DraggedWindows(chart, selection) ==
    LET Drags == {d \in {"create", "pan", "start", "end"} \X (BrushPoints \cap 0 .. chart.maxEnd) :
                     CanBegin(d[1], d[2], selection)}
        EndOf(d, to) == Dragged(d[1], d[2], to, selection, chart.maxEnd)
    IN IF chart.rows = <<>> THEN {}
       ELSE {EndBrushDrag(EndOf(d, to), d[1], chart.maxEnd) : d \in Drags, to \in BrushPoints}
BrushedOver(chart) == DraggedWindows(chart, BrushSelection(filters, chart.maxEnd))
DragBrush == \E window \in BrushedOver(ChartOf(gantt, filters)) : SetFilters([filters EXCEPT !.window = window])
ResetZoom == filters.window # FullRun /\ SetFilters([filters EXCEPT !.window = FullRun])

TimelineNext ==
    \/ ToggleTimelineStatus \/ ToggleTimelineType \/ ToggleShowTests \/ ToggleFailuresOnly
    \/ SearchTimeline \/ ClearTimelineFilters \/ SetTimelineDepth \/ SetTimelineDirection
    \/ ToggleNeighborhoodRows \/ PointerMove \/ PointerClick \/ PressEnter \/ PointerLeave
    \/ DragBrush \/ ResetZoom

-----------------------------------------------------------------------------
(* A selection narrows the rows to those that a chain of dependencies among them leads to, *)
(* within the depth; what is drawn for an item are dependencies between bars of the chart, *)
(* each as far from it as it says; as many of its own as there are on the chart and may be  *)
(* drawn; and they connect every row that was kept for a selected row, unless there are     *)
(* more than may be drawn (edge-geometry.ts:425, 540).                                      *)
NarrowsToNear(chart) ==
    LET parents == ItemIds(FilteredParents(gantt, filters))
        focus == NeighborhoodFocus(gantt, filters.selected, parents)
    IN focus # NoItem /\ ~filters.showAll =>
           {chart.rows[i].item.id : i \in DOMAIN chart.rows} =
               UNION {NearTo(gantt, leg, parents, focus, filters.depth) : leg \in LegsOf(filters.direction)}
EdgesAreDependencies(chart, edges) ==
    LET onChart == {i.id : i \in {x \in ToSet(chart.data) : RowOf(chart, x.id) # {}}}
        Far(e) == IF e.leg = "upstream" THEN e.to ELSE e.from
    IN \A e \in edges :
           /\ AdjacentTo(gantt, "downstream", e.from, e.to) /\ {e.from, e.to} \subseteq onChart
           /\ e.hop <= filters.depth /\ e.leg \in LegsOf(filters.direction)
           /\ IF e.hop = 1 THEN Far(e) = EdgeFocus
              ELSE Far(e) \in NearTo(gantt, e.leg, onChart, EdgeFocus, e.hop - 1)
                              \ NearTo(gantt, e.leg, onChart, EdgeFocus, e.hop - 2)
DirectEdgesAreDrawn(chart, edges) ==
    \A leg \in LegsOf(filters.direction) : RowOf(chart, EdgeFocus) # {} =>
        Cardinality({e \in edges : e.hop = 1 /\ e.leg = leg}) =
            Min({MaxDirectEdges, Cardinality({n \in ItemIds(chart.data) :
                     AdjacentTo(gantt, leg, EdgeFocus, n) /\ RowOf(chart, n) # {}})})
EdgesConnectRows(chart, edges) ==
    LET rows == {chart.bundles[i].item.id : i \in DOMAIN chart.bundles}
        Count(leg, hops) == Cardinality({e \in edges : e.leg = leg /\ e.hop \in hops})
    IN (/\ EdgeFocus = filters.selected /\ EdgeFocus \in rows /\ ~filters.showAll
        /\ filters.window = FullRun
        /\ \A leg \in LegsOf(filters.direction) : /\ Count(leg, {1}) < MaxDirectEdges
                                                  /\ Count(leg, 2 .. MaxHops) < MaxExtendedEdges)
       => rows \subseteq {EdgeFocus} \cup UNION {{e.from, e.to} : e \in edges}
EdgesAreRight(chart, edges) ==
    /\ EdgesAreDependencies(chart, edges) /\ DirectEdgesAreDrawn(chart, edges)
    /\ EdgesConnectRows(chart, edges)
ChartShowsNeighbourhood(chart) ==
    /\ NarrowsToNear(chart)
    /\ EdgeFocus # NoItem => EdgesAreRight(chart, DrawnEdges(gantt, filters, chart, EdgeFocus))
TimelineShowsNeighbourhood == ChartShowsNeighbourhood(ChartOf(gantt, filters))

(* Every row is found again at every height it has, and drawn wherever one scrolls to it;     *)
(* the tests of a lane do not overlap; and a test is shown on the row of its parent, whenever *)
(* that is listed and the zoom does not cut it off (hit-test.ts:31, canvas-draw.ts:645).      *)
ChartRowsAreFound(chart) ==
    LET LastLine(i) == chart.offsets[i] + chart.heights[i] - 1
        Lanes(i) == ToSet(chart.bundles[i].lanes)
    IN /\ \A i \in DOMAIN chart.bundles : \A y \in {chart.offsets[i], LastLine(i)} :
              FindBundleAtOffset(chart.offsets, chart.heights, y) = i
       /\ FindBundleAtOffset(chart.offsets, chart.heights, chart.height) = 0
       /\ \A i, j \in DOMAIN chart.bundles : \A top \in {chart.offsets[i], LastLine(i)} :
              chart.offsets[j] < top + RowH /\ LastLine(j) >= top
              => j \in VisibleRows(chart, top, RowH)
       /\ \A i \in DOMAIN chart.bundles : \A k, l \in Lanes(i) :
              k # l /\ k.lane = l.lane => k.item.end <= l.item.start \/ l.item.end <= k.item.start
       /\ \A i \in DOMAIN chart.bundles : \A t \in ToSet(gantt.items) :
              /\ filters.showTests /\ IsChip(t) /\ t.parent = chart.bundles[i].item.id
              /\ filters.window = FullRun \/ Overlaps(t, filters.window)
              => \E l \in Lanes(i) : l.item = t
RowsAreFound == ChartRowsAreFound(ChartOf(gantt, filters))

(* A drag of the brush from a window inside the run ends with one inside it that is no shorter *)
(* than the least one, unless it already was (GanttTimeBrush.tsx:97).                          *)
IsInside(window, maxEnd) == 0 <= window.start /\ window.start < window.end /\ window.end <= maxEnd
WindowStaysInside(before, after, maxEnd) ==
    IsInside(before, maxEnd) =>
        /\ IsInside(after, maxEnd)
        /\ after.end - after.start >= Min({MinWindow(maxEnd), before.end - before.start})
ChangeStaysInside(maxEnd) ==
    WindowStaysInside(BrushSelection(filters, maxEnd), BrushSelection(filters', maxEnd), maxEnd)
DragKeepsWindow ==
    [][filters'.window # filters.window => ChangeStaysInside(ChartOf(gantt, filters).maxEnd)]_timelineVars
=============================================================================
