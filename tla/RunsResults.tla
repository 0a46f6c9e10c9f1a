----------------------------- MODULE RunsResults -----------------------------
(***************************************************************************)
(* The rows of the Runs view: the hook (hooks/use-runs-results-source.ts), *)
(* the worker that filters and sorts them (workers/results-query.worker.ts *)
(* over lib/analysis-workspace/results-data-source.ts), the messages       *)
(* between them, and the controls of the view.                             *)
(*                                                                         *)
(* An event of the page is one step: its handler, the render, the effects  *)
(* and the renders they ask for.  A new worker first loads its script, so  *)
(* these renders come before its first message.  terminate() discards the  *)
(* messages of a worker.  Names, statuses and words are numbers in the     *)
(* order of the alphabet, 0 an absent one.                                 *)
(***************************************************************************)
EXTENDS Integers, Sequences, SequencesExt, FiniteSets

CONSTANTS
    BatchSize,      \* RESULTS_BATCH_SIZE
    RunAnalyses,    \* the rows of the analyses the page may show, one after the other
    Questions,      \* the filters and sorts the controls are set to
    MaxRequests,    \* bound: queries sent
    MaxReveals      \* bound: batches revealed

(* The controls sort by something: only the key of a worker that answered nothing sorts by none. *)
ASSUME SortIsNamed == \A q \in Questions : q.sortBy # "none"

VARIABLES
    allRows,        \* analysis.executions
    runsView,       \* runsViewState
    revealed,       \* revealedCount
    ready, isIndexing, isLoading,
    shownRows, totalMatches,
    requestId,      \* requestIdRef
    runsWorker,     \* the worker: its index, lastQuery and lastMatches
    toRuns,         \* messages to the worker
    fromRuns        \* messages of the worker
runsVars == <<allRows, runsView, revealed, ready, isIndexing, isLoading, shownRows, totalMatches,
              requestId, runsWorker, toRuns, fromRuns>>

-----------------------------------------------------------------------------
(* Which rows match. *)
KindForRow(row) ==
    CASE row.type \in {"test", "unit_test"} -> "tests"
      [] row.type = "seed" -> "seeds"
      [] row.type = "snapshot" -> "snapshots"
      [] row.type \in {"operation", "sql_operation", "macro"} -> "operations"
      [] OTHER -> "models"
StatusMatches(row, status) ==
    \/ status \in {"all", row.tone}
    \/ status = "issues" /\ row.tone \in {"danger", "warning"}
DurationBandMatches(row, band) ==
    CASE band = "all" -> TRUE
      [] band = "fast" -> row.time < 1
      [] band = "medium" -> row.time \in 1 .. 4
      [] OTHER -> row.time >= 5
RowMatches(row, view) ==
    /\ view.kind \in {"all", KindForRow(row)}
    /\ StatusMatches(row, view.status)
    /\ view.query = 0 \/ view.query \in row.words
    /\ view.materializations = {} \/ row.materialization \in view.materializations
    /\ DurationBandMatches(row, view.band)

(* How they are sorted: a comparison is negative when the left row comes first.  The direction *)
(* turns a comparison round, but never the place of a row without the adapter's metric.        *)
ToneRank == [danger |-> 0, warning |-> 1, positive |-> 2, skipped |-> 3, neutral |-> 4]
Signed(comparison, direction) == IF direction = "asc" THEN comparison ELSE -comparison
ByToneThenDuration(a, b) ==
    IF ToneRank[a.tone] # ToneRank[b.tone] THEN ToneRank[a.tone] - ToneRank[b.tone]
    ELSE b.time - a.time
Compare(a, b, sortBy, direction) ==
    CASE sortBy \in {"time", "name", "status", "start"} -> Signed(a[sortBy] - b[sortBy], direction)
      [] sortBy = "materialization" /\ a.materialization # b.materialization ->
             Signed(a.materialization - b.materialization, direction)
      [] sortBy = "materialization" /\ a.materialization = b.materialization -> a.name - b.name
      [] sortBy = "attention" -> Signed(ByToneThenDuration(a, b), direction)
      [] sortBy = "metric" /\ a.metric # 0 /\ b.metric # 0 -> Signed(a.metric - b.metric, direction)
      [] sortBy = "metric" /\ (a.metric = 0 \/ b.metric = 0) ->
             (IF a.metric = 0 THEN 1 ELSE 0) - (IF b.metric = 0 THEN 1 ELSE 0)
DefaultDirection(sortBy) ==
    IF sortBy \in {"metric", "attention", "time", "start"} THEN "desc" ELSE "asc"
FilterIndex(rows, view) ==
    SortSeq(SelectSeq(rows, LAMBDA r : RowMatches(r, view)),
            LAMBDA a, b : Compare(a, b, view.sortBy, view.direction) < 0)
FirstOf(rows, limit) ==
    SubSeq(rows, 1, IF limit < Len(rows) THEN limit ELSE Len(rows))

-----------------------------------------------------------------------------
(* The query as the worker sees it: what of the view its key is made of. *)
NoQuery == [kind |-> "all", status |-> "all", query |-> 0, materializations |-> {},
            band |-> "all", sortBy |-> "none", direction |-> "asc"]
QueryOf(view) == [field \in DOMAIN NoQuery |-> view[field]]
QueryMessage(id, view, limit) == [type |-> "query", id |-> id, view |-> QueryOf(view),
                                  limit |-> limit]

(* Metrics are shown, and sorted by, while the run has some and the view shows them.  The    *)
(* effects of RunsView take both back otherwise.                                             *)
AdapterMetricsAvailable(rows) == \E i \in DOMAIN rows : rows[i].metric # 0
Settled(rows, view) ==
    LET shown == view.adapter /\ AdapterMetricsAvailable(rows)
        sorted == shown \/ view.sortBy # "metric"
    IN [view EXCEPT !.adapter = shown, !.sortBy = IF sorted THEN @ ELSE "attention",
                    !.direction = IF sorted THEN @ ELSE "desc"]

InitialRunsView ==
    [kind |-> "all", status |-> "all", query |-> 0, materializations |-> {}, band |-> "all",
     sortBy |-> "attention", direction |-> "desc", selected |-> 0, adapter |-> TRUE]
FreshWorker == [index |-> <<>>, key |-> NoQuery, matches |-> <<>>]
InitMessage(rows) == [type |-> "init", rows |-> rows]
RunsStart(rows) ==
    /\ allRows = rows /\ runsView = Settled(rows, InitialRunsView)
    /\ revealed = BatchSize /\ ready = FALSE /\ isIndexing = TRUE /\ isLoading = FALSE
    /\ shownRows = <<>> /\ totalMatches = 0 /\ requestId = 0
    /\ runsWorker = FreshWorker /\ toRuns = <<InitMessage(rows)>> /\ fromRuns = <<>>

(* The query effect: it runs when the view, the revealed count or ready changed. *)
Query(view, limit) ==
    /\ requestId < MaxRequests
    /\ requestId' = requestId + 1
    /\ isLoading' = TRUE
    /\ toRuns' = Append(toRuns, QueryMessage(requestId + 1, view, limit))
(* A new question shows the first batch again.  When more was revealed the effect runs before *)
(* that is rendered, with the old count, and again after it.                                  *)
QueryFirstBatch(view) ==
    IF revealed = BatchSize THEN Query(view, BatchSize)
    ELSE /\ requestId + 1 < MaxRequests
         /\ requestId' = requestId + 2
         /\ isLoading' = TRUE
         /\ toRuns' = toRuns \o <<QueryMessage(requestId + 1, view, revealed),
                                 QueryMessage(requestId + 2, view, BatchSize)>>
UnlessReady(effect) == IF ready THEN effect ELSE UNCHANGED <<requestId, isLoading, toRuns>>

RunsUnchangedByView == <<allRows, ready, isIndexing, shownRows, totalMatches, runsWorker, fromRuns>>

ChangeQuestion(view) ==
    /\ QueryOf(view) # QueryOf(runsView)
    /\ runsView' = view
    /\ revealed' = BatchSize
    /\ UnlessReady(QueryFirstBatch(view))
    /\ UNCHANGED RunsUnchangedByView
(* The toolbar and the column headers. *)
SetFacet == \E q \in Questions :
    ChangeQuestion([runsView EXCEPT !.kind = q.kind, !.status = q.status])
SetQuery == \E q \in Questions : ChangeQuestion([runsView EXCEPT !.query = q.query])
ToggleMaterialization == \E q \in Questions : \E kind \in q.materializations :
    ChangeQuestion([runsView EXCEPT !.materializations = SymDiff(@, {kind})])
Sortable == {q \in Questions : q.sortBy = "metric" => runsView.adapter}
SelectSort == \E q \in Sortable :
    ChangeQuestion([runsView EXCEPT !.sortBy = q.sortBy, !.direction = DefaultDirection(q.sortBy)])
NextSort(sortBy) ==
    IF runsView.sortBy = sortBy
    THEN [runsView EXCEPT !.direction = IF @ = "asc" THEN "desc" ELSE "asc"]
    ELSE [runsView EXCEPT !.sortBy = sortBy, !.direction = DefaultDirection(sortBy)]
Headers == {"name", "materialization", "status", "time", "metric"}
ClickHeader == \E q \in Sortable : q.sortBy \in Headers /\ ChangeQuestion(NextSort(q.sortBy))

(* What is no question still is a change of the view: the rows are asked for again. *)
SelectExecution == \E row \in ToSet(shownRows) :
    /\ runsView.selected # row.name
    /\ runsView' = [runsView EXCEPT !.selected = row.name]
    /\ UnlessReady(Query(runsView, revealed))
    /\ UNCHANGED <<RunsUnchangedByView, revealed>>
ToggleAdapterMetrics ==
    LET view == Settled(allRows, [runsView EXCEPT !.adapter = ~@])
    IN /\ AdapterMetricsAvailable(allRows)
       /\ IF QueryOf(view) # QueryOf(runsView) THEN ChangeQuestion(view)
          ELSE /\ runsView' = view
               /\ UnlessReady(Query(view, revealed))
               /\ UNCHANGED <<RunsUnchangedByView, revealed>>
(* Near the end of the list, also when nobody scrolls. *)
LoadMore ==
    /\ Len(shownRows) < totalMatches /\ ~isLoading /\ ~isIndexing
    /\ revealed < BatchSize * MaxReveals
    /\ revealed' = revealed + BatchSize
    /\ UnlessReady(Query(runsView, revealed + BatchSize))
    /\ UNCHANGED <<RunsUnchangedByView, runsView>>

(* Another analysis: the old worker and its messages are gone.  isLoading stays as it was. *)
NewAnalysis ==
    \E rows \in RunAnalyses \ {allRows} :
        /\ allRows' = rows /\ revealed' = BatchSize
        /\ ready' = FALSE /\ isIndexing' = TRUE
        /\ shownRows' = <<>> /\ totalMatches' = 0
        /\ runsWorker' = FreshWorker /\ toRuns' = <<InitMessage(rows)>> /\ fromRuns' = <<>>
        /\ runsView' = Settled(rows, runsView)
        /\ UNCHANGED <<isLoading, requestId>>

-----------------------------------------------------------------------------
(* The worker takes one message at a time, and filters again only for another key. *)
WorkerInit ==
    /\ toRuns # <<>> /\ Head(toRuns).type = "init"
    /\ runsWorker' = [FreshWorker EXCEPT !.index = Head(toRuns).rows]
    /\ fromRuns' = Append(fromRuns, [type |-> "ready"])
    /\ toRuns' = Tail(toRuns)
    /\ UNCHANGED <<allRows, runsView, revealed, ready, isIndexing, isLoading, shownRows,
                   totalMatches, requestId>>
WorkerQuery ==
    /\ toRuns # <<>> /\ Head(toRuns).type = "query"
    /\ LET query == Head(toRuns)
           matches == IF query.view = runsWorker.key THEN runsWorker.matches
                      ELSE FilterIndex(runsWorker.index, query.view)
       IN /\ runsWorker' = [runsWorker EXCEPT !.key = query.view, !.matches = matches]
          /\ fromRuns' = Append(fromRuns, [type |-> "query-result", id |-> query.id,
                                           rows |-> FirstOf(matches, query.limit),
                                           total |-> Len(matches)])
    /\ toRuns' = Tail(toRuns)
    /\ UNCHANGED <<allRows, runsView, revealed, ready, isIndexing, isLoading, shownRows,
                   totalMatches, requestId>>

ReceiveReady ==
    /\ fromRuns # <<>> /\ Head(fromRuns).type = "ready"
    /\ fromRuns' = Tail(fromRuns)
    /\ ready' = TRUE /\ isIndexing' = FALSE
    /\ Query(runsView, revealed)
    /\ UNCHANGED <<allRows, runsView, revealed, shownRows, totalMatches, runsWorker>>
(* Mutant of AnswersLastRequest: a result is taken whatever it answers. *)
AnswersAnyRequest(message) == TRUE
AnswersLastRequest(message) == message.id = requestId
ReceiveResult ==
    /\ fromRuns # <<>> /\ Head(fromRuns).type = "query-result"
    /\ fromRuns' = Tail(fromRuns)
    /\ IF AnswersLastRequest(Head(fromRuns))
       THEN /\ shownRows' = Head(fromRuns).rows
            /\ totalMatches' = Head(fromRuns).total
            /\ isLoading' = FALSE
       ELSE UNCHANGED <<shownRows, totalMatches, isLoading>>
    /\ UNCHANGED <<allRows, runsView, revealed, ready, isIndexing, requestId, runsWorker, toRuns>>

RunsNext ==
    \/ SetFacet \/ SetQuery \/ ToggleMaterialization \/ SelectSort \/ ClickHeader
    \/ SelectExecution \/ ToggleAdapterMetrics \/ LoadMore \/ NewAnalysis
    \/ WorkerInit \/ WorkerQuery \/ ReceiveReady \/ ReceiveResult

-----------------------------------------------------------------------------
(* Once nothing is indexed or loading, the rows on the screen are the first ones of this       *)
(* analysis that match the controls as they are now, in their order, as many as were revealed, *)
(* whatever was typed, sorted, scrolled or reloaded while older queries were being answered    *)
(* (use-runs-results-source.ts:113, requestId).                                                *)
ResultsAreCurrent ==
    ~isIndexing /\ ~isLoading =>
        LET matches == FilterIndex(allRows, QueryOf(runsView))
        IN shownRows = FirstOf(matches, revealed) /\ totalMatches = Len(matches)
=============================================================================
