----------------------------- MODULE ResultQuery -----------------------------
(***************************************************************************)
(* Search and query of executions: core analysis/search (run-results.ts,   *)
(* warehouse.ts), the input contract of runs.query, and the commands of    *)
(* the CLI that list executions.                                           *)
(*                                                                         *)
(* An execution is a row of NodeExecutions with its resource type, and     *)
(* whether it is known: a node of the manifest's graph has its id; metrics *)
(* maps each metric to a number, 0 when the adapter reported none.  A      *)
(* request has blocks, a set of [warehouse, sort, min] criteria.  A missing *)
(* sort or warehouse is None, a missing number Unset.                      *)
(***************************************************************************)
EXTENDS ExecutionAnalysis, Lists

None == "none"
Unset == -1
Refused == [refused |-> TRUE]   \* an error for what was asked
Failed == [failed |-> TRUE]     \* one that is thrown while the answer is made
CommonSorts == {"execution_time_desc", "execution_time_asc", "unique_id"}
Metrics == {"slot_ms", "bytes_processed", "bytes_billed", "rows_affected", "rows_inserted"}
(* The metrics a warehouse may be sorted by are the ones that have a minimum there. *)
Profile(warehouse) ==
    {"bytes_processed", "rows_affected"}
        \cup (CASE warehouse = "bigquery" -> {"slot_ms", "bytes_billed"}
                [] warehouse = "snowflake" -> {"rows_inserted"}
                [] OTHER -> {})
DefaultTypes == {"model", "test", "unit_test"}
QueryDefaultLimit == 10
QueryMaxLimit == 50
ListMaxLimit == 200
FailuresDefaultLimit == 50

-----------------------------------------------------------------------------
(* A glob is the sequence of parts between its stars: the first one anchors the start, the last *)
(* one the end, and each is found after the one before it.                                      *)
IndexFrom(text, part, pos) ==
    LET at == {i \in pos .. Len(text) - Len(part) : SubSeq(text, i + 1, i + Len(part)) = part}
    IN IF at = {} THEN -1 ELSE Min(at)
MatchesGlob(text, parts) ==
    LET After[k \in 0 .. Len(parts)] ==
            IF k = 0 THEN 0
            ELSE LET at == IndexFrom(text, parts[k], After[k - 1])
                 IN IF After[k - 1] = -1 \/ at = -1 \/ (k = 1 /\ at # 0) THEN -1
                    ELSE at + Len(parts[k])
    IN IF Len(parts) = 1 THEN text = parts[1]
       ELSE After[Len(parts)] # -1 /\ (Last(parts) = <<>> \/ IsSuffix(Last(parts), text))

(* The filters of a search: status by label, time inclusive at both ends, the id by glob. *)
SearchRunResults(executions, criteria) ==
    Only(executions, {e \in ToSet(executions) :
        /\ criteria.status = {} \/ StatusLabel(e.status) \in criteria.status
        /\ criteria.min = Unset \/ e.time >= criteria.min
        /\ criteria.max = Unset \/ e.time <= criteria.max
        /\ criteria.pattern = <<>> \/ MatchesGlob(e.id, criteria.pattern)})
NoCriteria == [status |-> {}, min |-> Unset, max |-> Unset, pattern |-> <<>>]

(* Sorts are stable.  Adapter texts are no numbers, so sorting by one changes nothing. *)
TypeAlphabet == <<"analysis", "exposure", "field", "function", "macro", "metric", "model",
                  "operation", "seed", "semantic_model", "snapshot", "source", "test", "unit_test">>
IdBefore(a, b) ==
    LET Place(id) == <<CHOOSE i \in DOMAIN TypeAlphabet : TypeAlphabet[i] = id[1], id[2], id[3]>>
    IN \E i \in 1 .. 3 : /\ Place(a)[i] < Place(b)[i]
                         /\ \A j \in 1 .. i - 1 : Place(a)[j] = Place(b)[j]
EarlierBy(executions, sort) ==
    {p \in Pairs(executions) :
        CASE sort = "execution_time_desc" -> p[1].time > p[2].time
          [] sort = "execution_time_asc" -> p[1].time < p[2].time
          [] sort = "unique_id" -> IdBefore(p[1].id, p[2].id)
          [] sort \in Metrics -> p[1].metrics[sort] > p[2].metrics[sort]
          [] OTHER -> FALSE}
SortByExecutionSortKey(executions, sort) == Sorted(executions, EarlierBy(executions, sort))
ApplyWarehouseSearchBlock(executions, block) ==
    Only(executions, {e \in ToSet(executions) :
             \A metric \in Metrics :
                 block.min[metric] = Unset \/ e.metrics[metric] >= block.min[metric]})

-----------------------------------------------------------------------------
(* The plan of a query: which block is in force, whether the run allows it, sort and limits. *)
NoMin == [metric \in Metrics |-> Unset]
NoBlock == [warehouse |-> None, sort |-> None, min |-> NoMin]
NonEmpty(block) == block.sort # None \/ block.min # NoMin
ActiveBlock(request) ==
    IF \E b \in request.blocks : NonEmpty(b) THEN CHOOSE b \in request.blocks : NonEmpty(b)
    ELSE NoBlock
EffectiveSort(request) ==
    CASE ActiveBlock(request).sort # None -> ActiveBlock(request).sort
      [] ActiveBlock(request).sort = None /\ request.sort # None -> request.sort
      [] OTHER -> "execution_time_desc"
BlockIsAllowed(request, runWarehouse) ==
    LET block == ActiveBlock(request)
    IN block = NoBlock
       \/ /\ runWarehouse \in {"unknown", block.warehouse}
          /\ \A metric \in Metrics :
                 block.min[metric] # Unset => metric \in Profile(block.warehouse)
          /\ EffectiveSort(request) \in CommonSorts \cup Profile(block.warehouse)
PlanIsValid(request, runWarehouse) ==
    /\ Cardinality({b \in request.blocks : NonEmpty(b)}) <= 1
    /\ BlockIsAllowed(request, runWarehouse)
    /\ request.offset > 0 => request.limit # Unset
    /\ ActiveBlock(request) = NoBlock => request.sort \in CommonSorts \cup {None}
EffectiveLimit(request) ==
    IF request.limit = Unset THEN QueryDefaultLimit ELSE Min({request.limit, QueryMaxLimit})

(* Mutant of Slice: the page starts one row late. *)
SliceLate(items, offset, limit) == SubSeq(items, offset + 2, Min({offset + limit, Len(items)}))
Slice(items, offset, limit) == SubSeq(items, offset + 1, Min({offset + limit, Len(items)}))
HasMore(items, offset, page) == offset + Len(page) < Len(items)
Paged(items, offset, limit) ==
    LET page == Slice(items, offset, limit)
    IN [rows |-> page, total |-> Len(items), more |-> HasMore(items, offset, page)]

(* The status filter is compared with the label of the row; the sort of the request is applied *)
(* before the one in force, which decides.                                                      *)
Matches(executions, request) ==
    LET typed == Only(executions, {e \in ToSet(executions) : e.type \in request.types})
        criteria == [status |-> request.status, min |-> request.min, max |-> request.max,
                     pattern |-> request.pattern]
        found == SearchRunResults(typed, criteria)
        based == IF request.sort # None /\ ActiveBlock(request) = NoBlock
                 THEN SortByExecutionSortKey(found, request.sort) ELSE found
    IN SortByExecutionSortKey(ApplyWarehouseSearchBlock(based, ActiveBlock(request)),
                              EffectiveSort(request))
(* Mutant of QueryExecutions: a row that the graph does not have is given like the others. *)
QueryExecutionsOfAll(executions, request, runWarehouse) ==
    IF PlanIsValid(request, runWarehouse)
    THEN Paged(Matches(executions, request), request.offset, EffectiveLimit(request)) ELSE Refused
(* The type of each row of the page is asked of the graph, which throws for an id it does not *)
(* have (resourceTypeForQuery); the rows of other pages may have one.                          *)
QueryExecutions(executions, request, runWarehouse) ==
    LET page == Paged(Matches(executions, request), request.offset, EffectiveLimit(request))
    IN CASE ~PlanIsValid(request, runWarehouse) -> Refused
         [] PlanIsValid(request, runWarehouse) /\ (\E i \in DOMAIN page.rows : ~page.rows[i].known) ->
                Failed
         [] OTHER -> page

(* What a tool call may say: the contract bounds the limit, gives a block only the fields of its *)
(* warehouse, allows one block, and fills in the default limit, so no offset is without one.     *)
InputIsValid(input) ==
    /\ input.limit = Unset \/ input.limit \in 1 .. QueryMaxLimit
    /\ input.offset >= 0
    /\ Cardinality(input.blocks) <= 1
    /\ input.sort \in CommonSorts \cup {None}
    /\ \A b \in input.blocks :
           /\ b.sort \in Profile(b.warehouse) \cup {None}
           /\ \A metric \in Metrics \ Profile(b.warehouse) : b.min[metric] = Unset
ToQueryExecutionsRequest(input) ==
    [input EXCEPT !.limit = IF @ = Unset THEN QueryDefaultLimit ELSE @,
                  !.blocks = {b \in @ : NonEmpty(b)}]
RunsQuery(executions, input, runWarehouse) ==
    IF InputIsValid(input)
    THEN QueryExecutions(executions, ToQueryExecutionsRequest(input), runWarehouse) ELSE Refused

-----------------------------------------------------------------------------
(* The commands.  query-executions keeps a metric's sort or minimum only under a subcommand. *)
OffsetIsAllowed(limit, offset) == offset >= 0 /\ (offset > 0 => limit # Unset)
LimitIsAllowed(limit) == limit = Unset \/ limit \in 1 .. ListMaxLimit
BuildRegistryInput(options) ==
    LET block == [warehouse |-> options.warehouse,
                  sort |-> IF options.sort \in CommonSorts THEN None ELSE options.sort,
                  min |-> [metric \in Metrics |->
                              IF metric \in Profile(options.warehouse) THEN options.mins[metric]
                              ELSE Unset]]
    IN [types |-> IF options.types = {} THEN DefaultTypes ELSE options.types,
        status |-> options.status, limit |-> options.limit, offset |-> options.offset,
        min |-> options.min, max |-> options.max, pattern |-> options.pattern,
        sort |-> IF options.sort \in CommonSorts THEN options.sort ELSE None,
        blocks |-> IF options.warehouse # None /\ NonEmpty(block) THEN {block} ELSE {}]
QueryCommand(executions, options, runWarehouse) ==
    IF OffsetIsAllowed(options.limit, options.offset)
    THEN RunsQuery(executions, BuildRegistryInput(options), runWarehouse) ELSE Refused

(* Lists of resources: without a limit the whole list is the page. *)
ApplyListPaging(items, limit, offset) ==
    CASE ~(OffsetIsAllowed(limit, offset) /\ LimitIsAllowed(limit)) -> Refused
      [] OffsetIsAllowed(limit, offset) /\ limit = Unset ->
             [rows |-> items, total |-> Len(items), more |-> FALSE]
      [] OTHER -> Paged(items, offset, limit)

IsNonSuccessStatus(status) == StatusLabel(status) \notin {"success", "pass"}
StartedBefore(a, b) == a.started # b.started
                       /\ (a.started = NoTiming \/ (b.started # NoTiming
                                                    /\ a.started[1] < b.started[1]))
SortFailuresStable(rows) ==
    Sorted(rows, {p \in Pairs(rows) : \/ StartedBefore(p[2], p[1])
                                      \/ p[1].started = p[2].started /\ IdBefore(p[1].id, p[2].id)})
FilterExecutions(executions, statuses) ==
    IF statuses = {} THEN Only(executions, {e \in ToSet(executions) : IsNonSuccessStatus(e.status)})
    ELSE SearchRunResults(executions, [NoCriteria EXCEPT !.status = statuses])
Failures(executions, statuses, limit, offset) ==
    LET sorted == SortFailuresStable(FilterExecutions(executions, statuses))
    IN IF LimitIsAllowed(limit) /\ offset >= 0
       THEN Paged(sorted, offset, IF limit = Unset THEN FailuresDefaultLimit ELSE limit)
       ELSE Refused

(* The timeline command: --failed-only compares the spelling, and wins over --status. *)
ApplyTimelineFilters(executions, failedOnly, statuses) ==
    CASE failedOnly -> Only(executions, {e \in ToSet(executions) :
                                            e.status \notin {<<"success", 0>>, <<"pass", 0>>}})
      [] ~failedOnly /\ statuses # {} ->
             SearchRunResults(executions, [NoCriteria EXCEPT !.status = statuses])
      [] OTHER -> executions
SortTimelineExecutions(executions, sort) ==
    CASE sort = "duration" -> SortByExecutionSortKey(executions, "execution_time_desc")
      [] sort = "start" ->
             Sorted(executions, {p \in Pairs(executions) : StartedBefore(p[1], p[2])})
      [] OTHER -> SortByExecutionSortKey(executions, sort)
TimelineCommand(executions, failedOnly, statuses, sort, top) ==
    LET sorted == SortTimelineExecutions(ApplyTimelineFilters(executions, failedOnly, statuses), sort)
    IN IF top > 0 THEN Slice(sorted, 0, top) ELSE sorted

-----------------------------------------------------------------------------
(* Bottlenecks and the nodes heaviest by a metric; a top of 0 or less is 10. *)
TopOrDefault(top) == IF top > 0 THEN top ELSE 10
DetectBottlenecks(executions, top, threshold) ==
    LET sorted == SortByExecutionSortKey(executions, "execution_time_desc")
    IN IF threshold > 0
       THEN SearchRunResults(sorted, [NoCriteria EXCEPT !.min = threshold])
       ELSE Slice(sorted, 0, TopOrDefault(top))
FilterAdapterMetricMins(executions, mins) ==
    ApplyWarehouseSearchBlock(executions, [NoBlock EXCEPT !.min = mins])
DetectAdapterHeavyNodes(executions, metric, top) ==
    LET positive == Only(executions, {e \in ToSet(executions) : e.metrics[metric] > 0})
    IN [nodes |-> Slice(SortByExecutionSortKey(positive, metric), 0, TopOrDefault(top)),
        total |-> FoldLeft(LAMBDA sum, e : sum + e.metrics[metric], 0, positive)]

(* run-report: bottlenecks by one criterion, the heavy nodes, and a page of the executions. *)
SortNodeExecutionsForSlice(executions) ==
    Sorted(executions, {p \in Pairs(executions) :
                           \/ StartedBefore(p[1], p[2])
                           \/ p[1].started = p[2].started /\ IdBefore(p[1].id, p[2].id)})
RunReport(executions, options) ==
    IF \/ options.top # Unset /\ options.threshold # Unset /\ executions # <<>>
       \/ ~OffsetIsAllowed(options.limit, options.offset)
       \/ ~LimitIsAllowed(options.limit)
    THEN Refused
    ELSE [bottlenecks |-> DetectBottlenecks(executions,
                              IF options.top = Unset THEN 10 ELSE options.top,
                              IF options.threshold = Unset THEN 0 ELSE options.threshold),
          heavy |-> DetectAdapterHeavyNodes(FilterAdapterMetricMins(executions, options.mins),
                                            options.metric, 10),
          page |-> IF options.limit = Unset
                   THEN [rows |-> executions, total |-> Len(executions), more |-> FALSE]
                   ELSE Paged(SortNodeExecutionsForSlice(executions), options.offset,
                              options.limit)]
(* inventory: the manifest's resources without the columns, by type and name. *)
Inventory(graph, types, package, limit, offset) ==
    LET kept == Only(graph.nodes, {n \in ToSet(graph.nodes) :
                                       /\ n.type # "field"
                                       /\ types = {} \/ n.type \in types
                                       /\ package = 0 \/ n.package = package})
    IN ApplyListPaging(Sorted(kept, {p \in Pairs(kept) : IdBefore(<<p[1].type, 0, p[1].id[3]>>,
                                                                 <<p[2].type, 0, p[2].id[3]>>)}),
                       limit, offset)
=============================================================================
