------------------------- MODULE InvestigationProofs -------------------------
(***************************************************************************)
(* Proofs about the views of the page (module Investigation).              *)
(***************************************************************************)
EXTENDS Investigation, InductionLemmas, SequenceTheorems, FiniteSetTheorems, TLAPS

-----------------------------------------------------------------------------
(* Queues of messages: sequences of whatever they hold. *)
IsQueue(s) == s \in Seq({s[i] : i \in DOMAIN s})

LEMMA QueueOf ==
    ASSUME NEW S, NEW s \in Seq(S)
    PROVE  IsQueue(s)
<1>1. /\ Len(s) \in Nat /\ DOMAIN s = 1 .. Len(s)
      /\ s = [i \in 1 .. Len(s) |-> s[i]]
  BY LenProperties
<1>2. [i \in 1 .. Len(s) |-> s[i]] \in [1 .. Len(s) -> {s[i] : i \in DOMAIN s}]
  BY <1>1
<1> QED  BY <1>1, <1>2, SeqDef DEF IsQueue

LEMMA QueueLength ==
    ASSUME NEW s, IsQueue(s)
    PROVE  Len(s) \in Nat /\ (s = <<>> <=> Len(s) = 0)
BY LenProperties DEF IsQueue

LEMMA QueueAppend ==
    ASSUME NEW s, IsQueue(s), NEW e
    PROVE  LET t == Append(s, e)
           IN  /\ IsQueue(t)
               /\ Len(t) = Len(s) + 1
               /\ \A i \in 1 .. Len(s) : t[i] = s[i]
               /\ t[Len(s) + 1] = e
<1> DEFINE t == Append(s, e)
           S == {s[i] : i \in DOMAIN s} \cup {e}
<1>1. s \in Seq(S) /\ e \in S
  BY SeqMonotonic DEF IsQueue
<1> HIDE DEF S
<1>2. t \in Seq(S) /\ Len(t) = Len(s) + 1 /\ Len(s) \in Nat
  BY <1>1, AppendProperties
<1>3. IsQueue(t)
  BY <1>2, QueueOf
<1>4. (\A i \in 1 .. Len(s) : t[i] = s[i]) /\ t[Len(s) + 1] = e
  BY <1>1, AppendProperties
<1> QED  BY <1>2, <1>3, <1>4

LEMMA QueueTail ==
    ASSUME NEW s, IsQueue(s), s # <<>>
    PROVE  LET t == Tail(s)
           IN  /\ IsQueue(t)
               /\ Len(s) \in Nat /\ Len(s) > 0 /\ Len(t) = Len(s) - 1
               /\ Head(s) = s[1]
               /\ \A i \in 1 .. Len(t) : t[i] = s[i + 1]
<1> DEFINE t == Tail(s)
           S == {s[i] : i \in DOMAIN s}
<1>1. s \in Seq(S)
  BY DEF IsQueue
<1> HIDE DEF S
<1>2. t \in Seq(S) /\ Len(s) \in Nat /\ Len(s) > 0 /\ Len(t) = Len(s) - 1
  BY <1>1, HeadTailProperties, LenProperties, EmptySeq
<1>3. IsQueue(t)
  BY <1>2, QueueOf
<1>4. Head(s) = s[1] /\ \A i \in 1 .. Len(t) : t[i] = s[i + 1]
  BY <1>1, HeadTailProperties
<1> QED  BY <1>2, <1>3, <1>4

LEMMA QueueAppendTwo ==
    ASSUME NEW s, IsQueue(s), NEW d, NEW e
    PROVE  LET t == s \o <<d, e>>
           IN  /\ IsQueue(t)
               /\ Len(t) = Len(s) + 2
               /\ \A i \in 1 .. Len(s) : t[i] = s[i]
               /\ t[Len(s) + 1] = d /\ t[Len(s) + 2] = e
<1> DEFINE t == s \o <<d, e>>
           S == {s[i] : i \in DOMAIN s} \cup {d, e}
           pair == <<d, e>>
<1>1. s \in Seq(S) /\ pair \in Seq(S)
  BY SeqMonotonic DEF IsQueue
<1>2. Len(pair) = 2 /\ pair[1] = d /\ pair[2] = e
  OBVIOUS
<1> HIDE DEF S, pair
<1>3. t = s \o pair
  BY DEF pair
<1>4. t \in Seq(S) /\ Len(t) = Len(s) + 2 /\ Len(s) \in Nat
  BY <1>1, <1>2, <1>3, ConcatProperties, LenProperties
<1>5. \A i \in 1 .. Len(s) + 2 : t[i] = IF i <= Len(s) THEN s[i] ELSE pair[i - Len(s)]
  BY <1>1, <1>2, <1>3, ConcatProperties
<1>6. IsQueue(t)
  BY <1>4, QueueOf
<1>7. t[Len(s) + 1] = pair[1]
  BY <1>4, <1>5
<1>8. t[Len(s) + 2] = pair[2]
  BY <1>4, <1>5
<1>9. \A i \in 1 .. Len(s) : t[i] = s[i]
  BY <1>4, <1>5
<1> QED  BY <1>2, <1>4, <1>6, <1>7, <1>8, <1>9

-----------------------------------------------------------------------------
(* The Runs view.  The invariant follows the rows from the analysis to the screen: while the   *)
(* worker indexes nothing else is on its way; then it knows the rows and what it answered      *)
(* last; every message is of an earlier question or of the last one, and what is asked or      *)
(* answered last is about the controls as they are now.                                        *)
ViewFields == {"kind", "status", "query", "materializations", "band", "sortBy", "direction",
               "selected", "adapter"}
IsView(view) == view = [f \in ViewFields |-> view[f]] /\ view.sortBy # "none"
MatchingNow == FilterIndex(allRows, QueryOf(runsView))

RunsShape ==
    /\ requestId \in Nat /\ ready \in BOOLEAN /\ isIndexing = ~ready
    /\ IsView(runsView)
    /\ runsWorker = [index |-> runsWorker.index, key |-> runsWorker.key,
                     matches |-> runsWorker.matches]
    /\ IsQueue(toRuns) /\ IsQueue(fromRuns)
Indexing ==
    ~ready =>
        \/ /\ toRuns = <<InitMessage(allRows)>> /\ fromRuns = <<>>
           /\ runsWorker.key = NoQuery
        \/ /\ toRuns = <<>> /\ fromRuns = <<[type |-> "ready"]>>
           /\ runsWorker.key = NoQuery /\ runsWorker.index = allRows
WorkerKnows ==
    ready =>
        /\ runsWorker.index = allRows
        /\ runsWorker.key # NoQuery => runsWorker.matches = FilterIndex(allRows, runsWorker.key)
IsQuestion(m, last, view, limit) ==
    /\ m.type = "query" /\ m.view # NoQuery /\ m.id \in 1 .. last
    /\ m.id = last => m.view = view /\ m.limit = limit
QueriesAsked ==
    ready => \A i \in 1 .. Len(toRuns) :
                 IsQuestion(toRuns[i], requestId, QueryOf(runsView), revealed)
IsAnswer(m, last, matches, limit) ==
    /\ m.type = "query-result" /\ m.id \in 1 .. last
    /\ m.id = last => m.rows = FirstOf(matches, limit) /\ m.total = Len(matches)
ResultsGiven ==
    ready => \A i \in 1 .. Len(fromRuns) :
                 IsAnswer(fromRuns[i], requestId, MatchingNow, revealed)
ShownIsCurrent ==
    ready /\ ~isLoading => shownRows = FirstOf(MatchingNow, revealed) /\ totalMatches = Len(MatchingNow)
RunsInv ==
    RunsShape /\ Indexing /\ WorkerKnows /\ QueriesAsked /\ ResultsGiven /\ ShownIsCurrent

LEMMA ViewIsAsked ==
    ASSUME NEW view, IsView(view)
    PROVE  QueryOf(view) # NoQuery
<1>1. QueryOf(view).sortBy = view.sortBy /\ NoQuery.sortBy = "none"
  BY DEF QueryOf, NoQuery
<1> QED  BY <1>1 DEF IsView

LEMMA SelectionIsNoQuestion ==
    ASSUME NEW view, IsView(view), NEW value
    PROVE  /\ IsView([view EXCEPT !.selected = value])
           /\ QueryOf([view EXCEPT !.selected = value]) = QueryOf(view)
<1> DEFINE w == [view EXCEPT !.selected = value]
<1>1. DOMAIN view = ViewFields
  BY DEF IsView
<1>2. w = [f \in ViewFields |-> w[f]]
  BY <1>1
<1>3. \A f \in DOMAIN NoQuery : w[f] = view[f]
  BY <1>1 DEF NoQuery, ViewFields
<1>4. w.sortBy # "none"
  BY <1>1 DEF IsView, ViewFields
<1>5. QueryOf(w) = QueryOf(view)
  BY <1>3 DEF QueryOf
<1> QED  BY <1>2, <1>4, <1>5 DEF IsView

LEMMA SettledIsView ==
    ASSUME NEW view, IsView(view), NEW rows
    PROVE  IsView(Settled(rows, view))
<1> DEFINE shown == view.adapter /\ AdapterMetricsAvailable(rows)
           sortBy == IF shown \/ view.sortBy # "metric" THEN view.sortBy ELSE "attention"
           direction == IF shown \/ view.sortBy # "metric" THEN view.direction ELSE "desc"
<1>1. DOMAIN view = ViewFields /\ sortBy # "none"
  BY DEF IsView
<1>2. Settled(rows, view) = [view EXCEPT !.adapter = shown, !.sortBy = sortBy, !.direction = direction]
  BY DEF Settled
<1> HIDE DEF shown, sortBy, direction
<1> DEFINE w == [view EXCEPT !.adapter = shown, !.sortBy = sortBy, !.direction = direction]
<1>3. w = [f \in ViewFields |-> w[f]]
  BY <1>1
<1>4. w.sortBy = sortBy
  BY <1>1 DEF ViewFields
<1> QED  BY <1>1, <1>2, <1>3, <1>4 DEF IsView

LEMMA InitialViewIsView == IsView(InitialRunsView)
<1>1. InitialRunsView = [f \in ViewFields |-> InitialRunsView[f]]
  BY DEF InitialRunsView, ViewFields
<1> QED  BY <1>1 DEF IsView, InitialRunsView

LEMMA RunsStartInv ==
    ASSUME NEW rows, RunsStart(rows)
    PROVE  RunsInv
<1> USE DEF RunsStart
<1>1. IsQueue(toRuns) /\ IsQueue(fromRuns)
  <2>1. toRuns \in Seq({InitMessage(rows)}) /\ fromRuns \in Seq({InitMessage(rows)})
    OBVIOUS
  <2> QED  BY <2>1, QueueOf
<1>2. IsView(runsView)
  BY InitialViewIsView, SettledIsView
<1>3. runsWorker = [index |-> runsWorker.index, key |-> runsWorker.key,
                    matches |-> runsWorker.matches]
  BY DEF FreshWorker
<1>4. RunsShape
  BY <1>1, <1>2, <1>3 DEF RunsShape
<1>5. Indexing
  BY DEF Indexing, FreshWorker
<1> QED  BY <1>4, <1>5 DEF RunsInv, WorkerKnows, QueriesAsked, ResultsGiven, ShownIsCurrent

\* Nothing is asked before the worker has the rows.
LEMMA NotAskedYet ==
    ASSUME RunsInv, ~ready, IsView(runsView'),
           UNCHANGED <<requestId, isLoading, toRuns>>, UNCHANGED RunsUnchangedByView
    PROVE  RunsInv'
<1>1. /\ UNCHANGED <<allRows, ready, isIndexing, runsWorker, fromRuns, requestId, toRuns>>
      /\ ~ready'
  BY DEF RunsUnchangedByView
<1>2. RunsShape'
  BY <1>1 DEF RunsInv, RunsShape
<1>3. Indexing'
  BY <1>1 DEF RunsInv, Indexing
<1> QED  BY <1>1, <1>2, <1>3 DEF RunsInv, WorkerKnows, QueriesAsked, ResultsGiven, ShownIsCurrent

\* A question makes every earlier message one of the past.
LEMMA OlderQuestion ==
    ASSUME NEW last \in Nat, NEW n \in Nat, n > last, NEW m, NEW view, NEW limit,
           IsQuestion(m, last, view, limit), NEW w, NEW k
    PROVE  IsQuestion(m, n, w, k)
BY DEF IsQuestion
LEMMA OlderAnswer ==
    ASSUME NEW last \in Nat, NEW n \in Nat, n > last, NEW m, NEW rows, NEW limit,
           IsAnswer(m, last, rows, limit), NEW r, NEW k
    PROVE  IsAnswer(m, n, r, k)
BY DEF IsAnswer
LEMMA NewQuestion ==
    ASSUME NEW n \in Nat, n > 0, NEW view, QueryOf(view) # NoQuery, NEW limit,
           NEW m, m = QueryMessage(n, view, limit)
    PROVE  IsQuestion(m, n, QueryOf(view), limit)
<1>1. m.type = "query" /\ m.id = n /\ m.view = QueryOf(view) /\ m.limit = limit
  BY DEF QueryMessage
<1> QED  BY <1>1 DEF IsQuestion

LEMMA AskedAgain ==
    ASSUME RunsInv, ready, NEW view, NEW limit,
           IsView(runsView'), QueryOf(runsView') = QueryOf(view), revealed' = limit,
           Query(view, limit), UNCHANGED RunsUnchangedByView
    PROVE  RunsInv'
<1>1. PICK n, message :
          /\ n = requestId + 1 /\ message = QueryMessage(n, view, limit)
          /\ requestId' = n /\ isLoading' = TRUE /\ toRuns' = Append(toRuns, message)
  BY DEF Query
<1>2. UNCHANGED <<allRows, ready, isIndexing, runsWorker, fromRuns>>
  BY DEF RunsUnchangedByView
<1>3. requestId \in Nat /\ n \in Nat /\ n > requestId /\ IsQueue(toRuns)
  BY <1>1 DEF RunsInv, RunsShape
<1>4. IsQuestion(message, n, QueryOf(runsView'), limit)
  BY <1>1, <1>3, ViewIsAsked, NewQuestion
<1>5. /\ IsQueue(toRuns') /\ Len(toRuns) \in Nat /\ Len(toRuns') = Len(toRuns) + 1
      /\ \A i \in 1 .. Len(toRuns) : toRuns'[i] = toRuns[i]
      /\ toRuns'[Len(toRuns) + 1] = message
  <2>1. Len(toRuns) \in Nat
    BY <1>3, QueueLength
  <2>2. toRuns' = Append(toRuns, message) /\ IsQueue(toRuns)
    BY <1>1, <1>3
  <2> QED  BY ONLY <2>1, <2>2, QueueAppend
<1>6. RunsShape'
  BY <1>1, <1>2, <1>3, <1>5 DEF RunsInv, RunsShape
<1>7. QueriesAsked'
  <2> SUFFICES ASSUME NEW i \in 1 .. Len(toRuns')
               PROVE  IsQuestion(toRuns'[i], n, QueryOf(runsView'), limit)
    BY <1>1 DEF QueriesAsked
  <2>1. CASE i = Len(toRuns) + 1
    BY <2>1, <1>4, <1>5
  <2>2. CASE i # Len(toRuns) + 1
    <3>1. i \in 1 .. Len(toRuns)
      BY <2>2, <1>5
    <3>2. IsQuestion(toRuns[i], requestId, QueryOf(runsView), revealed)
      BY <3>1 DEF RunsInv, QueriesAsked
    <3> QED  BY <3>1, <3>2, <1>3, <1>5, OlderQuestion
  <2> QED  BY <2>1, <2>2
<1>8. ResultsGiven'
  <2> SUFFICES ASSUME NEW i \in 1 .. Len(fromRuns)
               PROVE  IsAnswer(fromRuns[i], n, MatchingNow', limit)
    BY <1>1, <1>2 DEF ResultsGiven
  <2>1. IsAnswer(fromRuns[i], requestId, MatchingNow, revealed)
    BY DEF RunsInv, ResultsGiven
  <2> QED  BY <2>1, <1>3, OlderAnswer
<1> QED  BY <1>1, <1>2, <1>6, <1>7, <1>8 DEF RunsInv, WorkerKnows, Indexing, ShownIsCurrent

LEMMA AskedTwice ==
    ASSUME RunsInv, ready, NEW view,
           IsView(runsView'), QueryOf(runsView') = QueryOf(view), revealed' = BatchSize,
           QueryFirstBatch(view), UNCHANGED RunsUnchangedByView
    PROVE  RunsInv'
<1>1. CASE revealed = BatchSize
  BY <1>1, AskedAgain DEF QueryFirstBatch
<1>2. CASE revealed # BatchSize
  <2>1. PICK n, former, message :
            /\ n = requestId + 2 /\ message = QueryMessage(n, view, BatchSize)
            /\ former = QueryMessage(requestId + 1, view, revealed)
            /\ requestId' = n /\ isLoading' = TRUE /\ toRuns' = toRuns \o <<former, message>>
    BY <1>2 DEF QueryFirstBatch
  <2>2. UNCHANGED <<allRows, ready, isIndexing, runsWorker, fromRuns>>
    BY DEF RunsUnchangedByView
  <2>3. /\ requestId \in Nat /\ requestId + 1 \in Nat /\ n \in Nat /\ n > requestId + 1
        /\ n > requestId /\ IsQueue(toRuns)
    BY <2>1 DEF RunsInv, RunsShape
  <2>4. QueryOf(view) # NoQuery
    BY ViewIsAsked
  <2>5. IsQuestion(message, n, QueryOf(runsView'), BatchSize)
    BY <2>1, <2>3, <2>4, NewQuestion
  <2>6. IsQuestion(former, n, QueryOf(runsView'), BatchSize)
    <3>1. IsQuestion(former, requestId + 1, QueryOf(view), revealed)
      BY <2>1, <2>3, <2>4, NewQuestion
    <3> QED  BY <3>1, <2>3, OlderQuestion
  <2>7. /\ IsQueue(toRuns') /\ Len(toRuns) \in Nat /\ Len(toRuns') = Len(toRuns) + 2
        /\ \A i \in 1 .. Len(toRuns) : toRuns'[i] = toRuns[i]
        /\ toRuns'[Len(toRuns) + 1] = former /\ toRuns'[Len(toRuns) + 2] = message
    <3>1. Len(toRuns) \in Nat
      BY <2>3, QueueLength
    <3>2. toRuns' = toRuns \o <<former, message>> /\ IsQueue(toRuns)
      BY <2>1, <2>3
    <3> QED  BY ONLY <3>1, <3>2, QueueAppendTwo
  <2>8. RunsShape'
    BY <2>1, <2>2, <2>3, <2>7 DEF RunsInv, RunsShape
  <2>9. QueriesAsked'
    <3> SUFFICES ASSUME NEW i \in 1 .. Len(toRuns')
                 PROVE  IsQuestion(toRuns'[i], n, QueryOf(runsView'), BatchSize)
      BY <2>1 DEF QueriesAsked
    <3>1. CASE i = Len(toRuns) + 2
      BY <3>1, <2>5, <2>7
    <3>2. CASE i = Len(toRuns) + 1
      BY <3>2, <2>6, <2>7
    <3>3. CASE i # Len(toRuns) + 1 /\ i # Len(toRuns) + 2
      <4>1. i \in 1 .. Len(toRuns)
        BY <3>3, <2>7
      <4>2. IsQuestion(toRuns[i], requestId, QueryOf(runsView), revealed)
        BY <4>1 DEF RunsInv, QueriesAsked
      <4> QED  BY <4>1, <4>2, <2>3, <2>7, OlderQuestion
    <3> QED  BY <3>1, <3>2, <3>3
  <2>10. ResultsGiven'
    <3> SUFFICES ASSUME NEW i \in 1 .. Len(fromRuns)
                 PROVE  IsAnswer(fromRuns[i], n, MatchingNow', BatchSize)
      BY <2>1, <2>2 DEF ResultsGiven
    <3>1. IsAnswer(fromRuns[i], requestId, MatchingNow, revealed)
      BY DEF RunsInv, ResultsGiven
    <3> QED  BY <3>1, <2>3, OlderAnswer
  <2> QED  BY <2>1, <2>2, <2>8, <2>9, <2>10 DEF RunsInv, WorkerKnows, Indexing, ShownIsCurrent
<1> QED  BY <1>1, <1>2

LEMMA QuestionChanges ==
    ASSUME RunsInv, NEW view, IsView(view), ChangeQuestion(view)
    PROVE  RunsInv'
<1>1. /\ runsView' = view /\ revealed' = BatchSize /\ UNCHANGED RunsUnchangedByView
      /\ UnlessReady(QueryFirstBatch(view))
  BY DEF ChangeQuestion
<1>2. CASE ready
  BY <1>1, <1>2, AskedTwice DEF UnlessReady
<1>3. CASE ~ready
  BY <1>1, <1>3, NotAskedYet DEF UnlessReady
<1> QED  BY <1>2, <1>3

LEMMA ControlsKeepRuns ==
    ASSUME RunsInv,
           SetFacet \/ SetQuery \/ ToggleMaterialization \/ SelectSort \/ ClickHeader
    PROVE  RunsInv'
<1>1. /\ runsView = [f \in ViewFields |-> runsView[f]] /\ runsView.sortBy # "none"
      /\ DOMAIN runsView = ViewFields
  BY DEF RunsInv, RunsShape, IsView
<1>2. CASE SetFacet
  <2>1. PICK q \in Questions :
            ChangeQuestion([runsView EXCEPT !.kind = q.kind, !.status = q.status])
    BY <1>2 DEF SetFacet
  <2>2. IsView([runsView EXCEPT !.kind = q.kind, !.status = q.status])
    BY <1>1 DEF IsView, ViewFields
  <2> QED  BY <2>1, <2>2, QuestionChanges
<1>3. CASE SetQuery
  <2>1. PICK q \in Questions : ChangeQuestion([runsView EXCEPT !.query = q.query])
    BY <1>3 DEF SetQuery
  <2>2. IsView([runsView EXCEPT !.query = q.query])
    BY <1>1 DEF IsView, ViewFields
  <2> QED  BY <2>1, <2>2, QuestionChanges
<1>4. CASE ToggleMaterialization
  <2>1. PICK value :
            ChangeQuestion([runsView EXCEPT !.materializations = value])
    BY <1>4 DEF ToggleMaterialization
  <2>2. IsView([runsView EXCEPT !.materializations = value])
    BY <1>1 DEF IsView, ViewFields
  <2> QED  BY <2>1, <2>2, QuestionChanges
<1>5. ASSUME NEW sortBy, sortBy # "none", NEW direction
      PROVE  IsView([runsView EXCEPT !.sortBy = sortBy, !.direction = direction])
  BY <1>1, <1>5 DEF IsView, ViewFields
<1>6. CASE SelectSort
  <2>1. PICK q \in Sortable :
            ChangeQuestion([runsView EXCEPT !.sortBy = q.sortBy,
                                            !.direction = DefaultDirection(q.sortBy)])
    BY <1>6 DEF SelectSort
  <2>2. q.sortBy # "none"
    BY SortIsNamed DEF Sortable
  <2> QED  BY <2>1, <2>2, <1>5, QuestionChanges
<1>7. CASE ClickHeader
  <2>1. PICK q \in Sortable : q.sortBy \in Headers /\ ChangeQuestion(NextSort(q.sortBy))
    BY <1>7 DEF ClickHeader
  <2>2. q.sortBy # "none"
    BY SortIsNamed DEF Sortable
  <2>3. IsView(NextSort(q.sortBy))
    <3>1. CASE runsView.sortBy = q.sortBy
      <4>1. PICK direction : NextSort(q.sortBy) = [runsView EXCEPT !.direction = direction]
        BY <3>1 DEF NextSort
      <4>2. IsView([runsView EXCEPT !.direction = direction])
        BY <1>1 DEF IsView, ViewFields
      <4> QED  BY <4>1, <4>2
    <3>2. CASE runsView.sortBy # q.sortBy
      <4>1. PICK sortBy, direction :
                /\ sortBy # "none"
                /\ NextSort(q.sortBy) = [runsView EXCEPT !.sortBy = sortBy, !.direction = direction]
        BY <2>2, <3>2 DEF NextSort
      <4>2. IsView([runsView EXCEPT !.sortBy = sortBy, !.direction = direction])
        BY <4>1, <1>5
      <4> QED  BY <4>1, <4>2
    <3> QED  BY <3>1, <3>2
  <2> QED  BY <2>1, <2>3, QuestionChanges
<1> QED  BY <1>2, <1>3, <1>4, <1>6, <1>7

LEMMA RowsKeepRuns ==
    ASSUME RunsInv, SelectExecution \/ ToggleAdapterMetrics \/ LoadMore
    PROVE  RunsInv'
<1>1. IsView(runsView) /\ isIndexing = ~ready
  BY DEF RunsInv, RunsShape
<1>2. CASE SelectExecution
  <2>1. PICK value :
            /\ runsView' = [runsView EXCEPT !.selected = value]
            /\ UnlessReady(Query(runsView, revealed))
            /\ UNCHANGED <<RunsUnchangedByView, revealed>>
    BY <1>2 DEF SelectExecution
  <2>2. IsView(runsView') /\ QueryOf(runsView') = QueryOf(runsView)
    BY <2>1, <1>1, SelectionIsNoQuestion
  <2>3. CASE ready
    BY <2>1, <2>2, <2>3, AskedAgain DEF UnlessReady
  <2>4. CASE ~ready
    BY <2>1, <2>2, <2>4, NotAskedYet DEF UnlessReady
  <2> QED  BY <2>3, <2>4
<1>3. CASE ToggleAdapterMetrics
  <2> DEFINE chosen == [runsView EXCEPT !.adapter = ~@]
             view == Settled(allRows, chosen)
  <2>1. IsView(view)
    <3>1. IsView(chosen)
      BY <1>1 DEF IsView, ViewFields
    <3> QED  BY <3>1, SettledIsView
  <2>2. \/ ChangeQuestion(view)
        \/ /\ runsView' = view
           /\ UnlessReady(Query(view, revealed))
           /\ UNCHANGED <<RunsUnchangedByView, revealed>>
    BY <1>3 DEF ToggleAdapterMetrics
  <2> HIDE DEF view
  <2>3. CASE ChangeQuestion(view)
    BY <2>1, <2>3, QuestionChanges
  <2>4. CASE /\ runsView' = view
             /\ UnlessReady(Query(view, revealed))
             /\ UNCHANGED <<RunsUnchangedByView, revealed>>
    <3>1. CASE ready
      BY <2>1, <2>4, <3>1, AskedAgain DEF UnlessReady
    <3>2. CASE ~ready
      BY <2>1, <2>4, <3>2, NotAskedYet DEF UnlessReady
    <3> QED  BY <3>1, <3>2
  <2> QED  BY <2>2, <2>3, <2>4
<1>4. CASE LoadMore
  <2>1. ready
    BY <1>1, <1>4 DEF LoadMore
  <2>2. /\ revealed' = revealed + BatchSize /\ Query(runsView, revealed + BatchSize)
        /\ UNCHANGED RunsUnchangedByView /\ UNCHANGED runsView
    BY <2>1, <1>4 DEF LoadMore, UnlessReady
  <2> QED  BY <2>1, <2>2, <1>1, AskedAgain
<1> QED  BY <1>2, <1>3, <1>4

LEMMA AnalysisKeepsRuns ==
    ASSUME RunsInv, NewAnalysis
    PROVE  RunsInv'
<1>1. PICK rows :
          /\ allRows' = rows /\ ready' = FALSE /\ isIndexing' = TRUE
          /\ runsWorker' = FreshWorker /\ toRuns' = <<InitMessage(rows)>> /\ fromRuns' = <<>>
          /\ runsView' = Settled(rows, runsView) /\ UNCHANGED requestId
  BY DEF NewAnalysis
<1>2. IsQueue(toRuns') /\ IsQueue(fromRuns')
  <2>1. toRuns' \in Seq({InitMessage(rows)}) /\ fromRuns' \in Seq({InitMessage(rows)})
    BY <1>1
  <2> QED  BY <2>1, QueueOf
<1>3. IsView(runsView')
  BY <1>1, SettledIsView DEF RunsInv, RunsShape
<1>4. RunsShape'
  BY <1>1, <1>2, <1>3 DEF RunsInv, RunsShape, FreshWorker
<1>5. Indexing'
  BY <1>1 DEF Indexing, FreshWorker
<1> QED  BY <1>1, <1>4, <1>5 DEF RunsInv, WorkerKnows, QueriesAsked, ResultsGiven, ShownIsCurrent

\* The worker takes the rows.
LEMMA WorkerInitKeepsRuns ==
    ASSUME RunsInv, WorkerInit
    PROVE  RunsInv'
<1>1. /\ runsWorker' = [FreshWorker EXCEPT !.index = Head(toRuns).rows]
      /\ fromRuns' = Append(fromRuns, [type |-> "ready"])
      /\ toRuns' = Tail(toRuns) /\ toRuns # <<>> /\ Head(toRuns).type = "init"
      /\ UNCHANGED <<allRows, runsView, ready, isIndexing, requestId>>
  BY DEF WorkerInit
<1>2. ~ready
  <2> SUFFICES ASSUME ready PROVE FALSE
    BY DEF RunsInv, RunsShape
  <2>1. IsQueue(toRuns) /\ Len(toRuns) > 0 /\ Len(toRuns) \in Nat /\ Head(toRuns) = toRuns[1]
    BY <1>1, QueueTail DEF RunsInv, RunsShape
  <2>2. toRuns[1].type = "query"
    BY <2>1 DEF RunsInv, QueriesAsked, IsQuestion
  <2> QED  BY <1>1, <2>1, <2>2
<1>3. toRuns = <<InitMessage(allRows)>> /\ fromRuns = <<>>
  BY <1>1, <1>2 DEF RunsInv, Indexing
<1>4. toRuns' = <<>> /\ fromRuns' = <<[type |-> "ready"]>> /\ Head(toRuns).rows = allRows
  BY <1>1, <1>3 DEF InitMessage
<1>5. /\ runsWorker'.key = NoQuery /\ runsWorker'.index = allRows
      /\ runsWorker' = [index |-> runsWorker'.index, key |-> runsWorker'.key,
                        matches |-> runsWorker'.matches]
  BY <1>1, <1>4 DEF FreshWorker
<1>6. IsQueue(toRuns') /\ IsQueue(fromRuns')
  <2>1. toRuns' \in Seq({[type |-> "ready"]}) /\ fromRuns' \in Seq({[type |-> "ready"]})
    BY <1>4
  <2> QED  BY <2>1, QueueOf
<1>7. RunsShape' /\ Indexing' /\ ~ready'
  BY <1>1, <1>2, <1>4, <1>5, <1>6 DEF RunsInv, RunsShape, Indexing
<1> QED  BY <1>7 DEF RunsInv, WorkerKnows, QueriesAsked, ResultsGiven, ShownIsCurrent

\* The worker answers: what it kept of its last answer, or what it finds now.
LEMMA WorkerQueryKeepsRuns ==
    ASSUME RunsInv, WorkerQuery
    PROVE  RunsInv'
<1>1. PICK query, matches, result :
          /\ query = Head(toRuns) /\ toRuns # <<>> /\ query.type = "query"
          /\ matches = IF query.view = runsWorker.key THEN runsWorker.matches
                       ELSE FilterIndex(runsWorker.index, query.view)
          /\ runsWorker' = [runsWorker EXCEPT !.key = query.view, !.matches = matches]
          /\ result = [type |-> "query-result", id |-> query.id,
                       rows |-> FirstOf(matches, query.limit), total |-> Len(matches)]
          /\ fromRuns' = Append(fromRuns, result)
          /\ toRuns' = Tail(toRuns)
  BY DEF WorkerQuery
<1>2. UNCHANGED <<allRows, runsView, revealed, ready, isIndexing, isLoading, shownRows,
                  totalMatches, requestId>>
  BY DEF WorkerQuery
<1>3. /\ requestId \in Nat /\ ready \in BOOLEAN /\ IsQueue(toRuns) /\ IsQueue(fromRuns)
      /\ runsWorker = [index |-> runsWorker.index, key |-> runsWorker.key,
                       matches |-> runsWorker.matches]
  BY DEF RunsInv, RunsShape
<1>4. /\ IsQueue(toRuns') /\ Len(toRuns) \in Nat /\ Len(toRuns) > 0
      /\ Len(toRuns') = Len(toRuns) - 1 /\ query = toRuns[1]
      /\ \A i \in 1 .. Len(toRuns') : toRuns'[i] = toRuns[i + 1]
  BY <1>1, <1>3, QueueTail
<1>5. ready
  <2> SUFFICES ASSUME ~ready PROVE FALSE
    BY <1>3
  <2>1. toRuns = <<InitMessage(allRows)>>
    BY <1>1 DEF RunsInv, Indexing
  <2>2. Head(toRuns).type = "init"
    BY <2>1 DEF InitMessage
  <2> QED  BY <2>2, <1>1
<1>6. IsQuestion(query, requestId, QueryOf(runsView), revealed)
  BY <1>4, <1>5 DEF RunsInv, QueriesAsked
<1>7. matches = FilterIndex(allRows, query.view)
  BY <1>1, <1>5, <1>6 DEF RunsInv, WorkerKnows, IsQuestion
<1>8. /\ runsWorker'.index = allRows /\ runsWorker'.key = query.view
      /\ runsWorker'.matches = matches
      /\ runsWorker' = [index |-> runsWorker'.index, key |-> runsWorker'.key,
                        matches |-> runsWorker'.matches]
  BY <1>1, <1>3, <1>5 DEF RunsInv, WorkerKnows
<1>9. IsAnswer(result, requestId, MatchingNow, revealed)
  <2>1. /\ result.type = "query-result" /\ result.id = query.id
        /\ result.rows = FirstOf(matches, query.limit) /\ result.total = Len(matches)
    BY <1>1
  <2> QED  BY <2>1, <1>6, <1>7 DEF IsAnswer, IsQuestion, MatchingNow
<1>10. /\ IsQueue(fromRuns') /\ Len(fromRuns) \in Nat /\ Len(fromRuns') = Len(fromRuns) + 1
       /\ \A i \in 1 .. Len(fromRuns) : fromRuns'[i] = fromRuns[i]
       /\ fromRuns'[Len(fromRuns) + 1] = result
  BY <1>1, <1>3, QueueAppend, QueueLength
<1>11. RunsShape'
  BY <1>2, <1>4, <1>8, <1>10 DEF RunsInv, RunsShape
<1>12. WorkerKnows'
  BY <1>2, <1>7, <1>8 DEF WorkerKnows
<1>13. QueriesAsked'
  <2> SUFFICES ASSUME NEW i \in 1 .. Len(toRuns')
               PROVE  IsQuestion(toRuns'[i], requestId, QueryOf(runsView), revealed)
    BY <1>2 DEF QueriesAsked
  <2>1. i + 1 \in 1 .. Len(toRuns) /\ toRuns'[i] = toRuns[i + 1]
    BY <1>4
  <2> QED  BY <2>1, <1>5 DEF RunsInv, QueriesAsked
<1>14. ResultsGiven'
  <2> SUFFICES ASSUME NEW i \in 1 .. Len(fromRuns')
               PROVE  IsAnswer(fromRuns'[i], requestId, MatchingNow, revealed)
    BY <1>2 DEF ResultsGiven, MatchingNow
  <2>1. CASE i = Len(fromRuns) + 1
    BY <2>1, <1>9, <1>10
  <2>2. CASE i # Len(fromRuns) + 1
    <3>1. i \in 1 .. Len(fromRuns)
      BY <2>2, <1>10
    <3> QED  BY <3>1, <1>5, <1>10 DEF RunsInv, ResultsGiven
  <2> QED  BY <2>1, <2>2
<1>15. Indexing' /\ ShownIsCurrent'
  BY <1>2, <1>5 DEF RunsInv, Indexing, ShownIsCurrent, MatchingNow
<1> QED  BY <1>11, <1>12, <1>13, <1>14, <1>15 DEF RunsInv

LEMMA ReadyKeepsRuns ==
    ASSUME RunsInv, ReceiveReady
    PROVE  RunsInv'
<1>1. PICK n, message :
          /\ n = requestId + 1 /\ message = QueryMessage(n, runsView, revealed)
          /\ requestId' = n /\ isLoading' = TRUE /\ toRuns' = Append(toRuns, message)
  BY DEF ReceiveReady, Query
<1>2. /\ fromRuns # <<>> /\ Head(fromRuns).type = "ready" /\ fromRuns' = Tail(fromRuns)
      /\ ready' = TRUE /\ isIndexing' = FALSE
      /\ UNCHANGED <<allRows, runsView, revealed, runsWorker>>
  BY DEF ReceiveReady
<1>3. /\ requestId \in Nat /\ n \in Nat /\ n > 0 /\ ready \in BOOLEAN /\ IsView(runsView)
      /\ IsQueue(toRuns) /\ IsQueue(fromRuns)
  BY <1>1 DEF RunsInv, RunsShape
<1>4. ~ready
  <2> SUFFICES ASSUME ready PROVE FALSE
    BY <1>3
  <2>1. Len(fromRuns) > 0 /\ Len(fromRuns) \in Nat /\ Head(fromRuns) = fromRuns[1]
    BY <1>2, <1>3, QueueTail
  <2>2. fromRuns[1].type = "query-result"
    BY <2>1 DEF RunsInv, ResultsGiven, IsAnswer
  <2> QED  BY <1>2, <2>1, <2>2
<1>5. /\ toRuns = <<>> /\ fromRuns = <<[type |-> "ready"]>>
      /\ runsWorker.key = NoQuery /\ runsWorker.index = allRows
  BY <1>2, <1>4 DEF RunsInv, Indexing
<1>6. IsQueue(toRuns') /\ Len(toRuns') = 1 /\ toRuns'[1] = message
  <2>1. /\ IsQueue(Append(toRuns, message)) /\ Len(Append(toRuns, message)) = Len(toRuns) + 1
        /\ Append(toRuns, message)[Len(toRuns) + 1] = message
    BY <1>3, QueueAppend
  <2>2. Len(toRuns) = 0
    BY <1>3, <1>5, QueueLength
  <2> QED  BY <1>1, <2>1, <2>2
<1>7. IsQueue(fromRuns') /\ Len(fromRuns') = 0
  <2>1. IsQueue(Tail(fromRuns)) /\ Len(Tail(fromRuns)) = Len(fromRuns) - 1
    BY <1>2, <1>3, QueueTail
  <2>2. Len(fromRuns) = 1
    BY <1>5
  <2> QED  BY <1>2, <2>1, <2>2
<1>8. IsQuestion(message, n, QueryOf(runsView), revealed)
  BY <1>1, <1>3, ViewIsAsked, NewQuestion
<1>9. RunsShape'
  BY <1>1, <1>2, <1>3, <1>6, <1>7 DEF RunsInv, RunsShape
<1>10. QueriesAsked' /\ ResultsGiven'
  <2>1. \A i \in 1 .. Len(toRuns') : toRuns'[i] = message
    BY <1>6
  <2>2. \A i \in 1 .. Len(toRuns') :
            IsQuestion(toRuns'[i], requestId', QueryOf(runsView'), revealed')
    BY <2>1, <1>1, <1>2, <1>8
  <2>3. QueriesAsked'
    BY <2>2 DEF QueriesAsked
  <2>4. ResultsGiven'
    BY <1>7 DEF ResultsGiven
  <2> QED  BY <2>3, <2>4
<1> QED  BY <1>1, <1>2, <1>5, <1>9, <1>10 DEF RunsInv, WorkerKnows, Indexing, ShownIsCurrent

LEMMA ResultKeepsRuns ==
    ASSUME RunsInv, ReceiveResult
    PROVE  RunsInv'
<1>1. PICK message :
          /\ message = Head(fromRuns) /\ fromRuns # <<>> /\ message.type = "query-result"
          /\ fromRuns' = Tail(fromRuns)
          /\ IF AnswersLastRequest(message)
             THEN /\ shownRows' = message.rows /\ totalMatches' = message.total
                  /\ isLoading' = FALSE
             ELSE UNCHANGED <<shownRows, totalMatches, isLoading>>
  BY DEF ReceiveResult
<1>2. UNCHANGED <<allRows, runsView, revealed, ready, isIndexing, requestId, runsWorker, toRuns>>
  BY DEF ReceiveResult
<1>3. ready \in BOOLEAN /\ IsQueue(fromRuns)
  BY DEF RunsInv, RunsShape
<1>4. /\ IsQueue(fromRuns') /\ Len(fromRuns) \in Nat /\ Len(fromRuns) > 0
      /\ Len(fromRuns') = Len(fromRuns) - 1 /\ message = fromRuns[1]
      /\ \A i \in 1 .. Len(fromRuns') : fromRuns'[i] = fromRuns[i + 1]
  BY <1>1, <1>3, QueueTail
<1>5. ready
  <2> SUFFICES ASSUME ~ready PROVE FALSE
    BY <1>3
  <2>1. fromRuns = <<[type |-> "ready"]>>
    BY <1>1 DEF RunsInv, Indexing
  <2>2. Head(fromRuns).type = "ready"
    BY <2>1
  <2> QED  BY <2>2, <1>1
<1>6. IsAnswer(message, requestId, MatchingNow, revealed)
  BY <1>4, <1>5 DEF RunsInv, ResultsGiven
<1>7. RunsShape'
  BY <1>2, <1>4 DEF RunsInv, RunsShape
<1>8. ResultsGiven'
  <2> SUFFICES ASSUME NEW i \in 1 .. Len(fromRuns')
               PROVE  IsAnswer(fromRuns'[i], requestId, MatchingNow, revealed)
    BY <1>2 DEF ResultsGiven, MatchingNow
  <2>1. i + 1 \in 1 .. Len(fromRuns) /\ fromRuns'[i] = fromRuns[i + 1]
    BY <1>4
  <2> QED  BY <2>1, <1>5 DEF RunsInv, ResultsGiven
<1>9. ShownIsCurrent'
  <2>1. CASE AnswersLastRequest(message)
    BY <2>1, <1>1, <1>2, <1>6 DEF AnswersLastRequest, IsAnswer, ShownIsCurrent, MatchingNow
  <2>2. CASE ~AnswersLastRequest(message)
    BY <2>2, <1>1, <1>2 DEF RunsInv, ShownIsCurrent, MatchingNow
  <2> QED  BY <2>1, <2>2
<1>10. WorkerKnows' /\ QueriesAsked' /\ Indexing'
  BY <1>2, <1>5 DEF RunsInv, WorkerKnows, QueriesAsked, Indexing
<1> QED  BY <1>7, <1>8, <1>9, <1>10 DEF RunsInv

LEMMA RunsStepInv ==
    ASSUME RunsInv, RunsNext \/ UNCHANGED runsVars
    PROVE  RunsInv'
<1>1. CASE RunsNext
  BY <1>1, ControlsKeepRuns, RowsKeepRuns, AnalysisKeepsRuns, WorkerInitKeepsRuns,
     WorkerQueryKeepsRuns, ReadyKeepsRuns, ResultKeepsRuns DEF RunsNext
<1>2. CASE UNCHANGED runsVars
  BY <1>2 DEF runsVars, RunsInv, RunsShape, Indexing, WorkerKnows, QueriesAsked, ResultsGiven,
              ShownIsCurrent, MatchingNow
<1> QED  BY <1>1, <1>2

(* Once nothing is indexed or loading, the rows on the screen are the first ones of this       *)
(* analysis that match the controls as they are now (use-runs-results-source.ts:113): whatever *)
(* the analyses, the questions, the size of a batch and the number of messages.                *)
THEOREM ResultsAreCurrentAlways == Spec => []ResultsAreCurrent
<1>1. Init => RunsInv
  <2> SUFFICES ASSUME Init PROVE RunsInv
    OBVIOUS
  <2>1. PICK rows : RunsStart(rows)
    BY DEF Init, StartRuns, IdleRuns
  <2> QED  BY <2>1, RunsStartInv
<1>2. RunsInv /\ [Next]_investigationVars => RunsInv'
  <2> SUFFICES ASSUME RunsInv, [Next]_investigationVars PROVE RunsInv'
    OBVIOUS
  <2>1. RunsNext \/ UNCHANGED runsVars
    BY DEF Next, investigationVars
  <2> QED  BY <2>1, RunsStepInv
<1>3. RunsInv => ResultsAreCurrent
  BY DEF RunsInv, RunsShape, ShownIsCurrent, ResultsAreCurrent, MatchingNow
<1> QED  BY <1>1, <1>2, <1>3, PTL DEF Spec

-----------------------------------------------------------------------------
\* The sum of numbers over a finite set, element by element.
Picked(s) == CHOOSE x \in s : TRUE
IsSum(it, g, T) ==
    it = [s \in SUBSET T |-> IF s = {} THEN 0 ELSE g[Picked(s)] + it[s \ {Picked(s)}]]

LEMMA SumExists ==
    ASSUME NEW T, IsFiniteSet(T), NEW g \in [T -> Nat]
    PROVE  \E it : IsSum(it, g, T)
<1> DEFINE Small(n) == {s \in SUBSET T : Cardinality(s) <= n}
           Sums(it, n) == it = [s \in Small(n) |->
                                   IF s = {} THEN 0 ELSE g[Picked(s)] + it[s \ {Picked(s)}]]
           done == {n \in Nat : \E it : Sums(it, n)}
<1>1. \A s \in SUBSET T : IsFiniteSet(s) /\ Cardinality(s) \in Nat /\ (Cardinality(s) = 0 => s = {})
  BY FS_Subset, FS_CardinalityType, FS_EmptySet
<1>2. \A s \in SUBSET T : s # {} => /\ Picked(s) \in s
                                    /\ s \ {Picked(s)} \in SUBSET T
                                    /\ Cardinality(s \ {Picked(s)}) = Cardinality(s) - 1
  <2> TAKE s \in SUBSET T
  <2> HAVE s # {}
  <2>1. Picked(s) \in s
    BY DEF Picked
  <2> QED  BY <2>1, <1>1, FS_RemoveElement
<1>3. 0 \in done
  <2> DEFINE it == [s \in Small(0) |-> 0]
  <2>1. \A s \in Small(0) : s = {}
    BY <1>1
  <2>2. Sums(it, 0)
    <3> SUFFICES it = [s \in Small(0) |-> IF s = {} THEN 0 ELSE g[Picked(s)] + it[s \ {Picked(s)}]]
      OBVIOUS
    <3> QED  BY <2>1
  <2> QED  BY <2>2
<1>4. ASSUME NEW n \in Nat, n \in done PROVE n + 1 \in done
  <2>1. PICK it : Sums(it, n)
    BY <1>4
  <2> DEFINE new == [s \in Small(n + 1) |->
                        IF s = {} THEN 0 ELSE g[Picked(s)] + it[s \ {Picked(s)}]]
  <2>2. \A s \in Small(n) : s \in Small(n + 1) /\ new[s] = it[s]
    <3> TAKE s \in Small(n)
    <3>1. s \in Small(n + 1)
      BY <1>1
    <3>2. it[s] = IF s = {} THEN 0 ELSE g[Picked(s)] + it[s \ {Picked(s)}]
      BY <2>1
    <3> QED  BY <3>1, <3>2
  <2>3. \A s \in Small(n + 1) : s # {} => s \ {Picked(s)} \in Small(n)
    BY <1>1, <1>2
  <2>4. Sums(new, n + 1)
    <3>1. \A s \in Small(n + 1) : s # {} => new[s \ {Picked(s)}] = it[s \ {Picked(s)}]
      BY <2>2, <2>3
    <3> HIDE DEF new
    <3>2. \A s \in Small(n + 1) :
              (IF s = {} THEN 0 ELSE g[Picked(s)] + it[s \ {Picked(s)}])
                  = (IF s = {} THEN 0 ELSE g[Picked(s)] + new[s \ {Picked(s)}])
      BY <3>1
    <3> HIDE DEF Small
    <3> QED  BY <3>2 DEF new
  <2>5. \E f : Sums(f, n + 1)
    <3> HIDE DEF new, Sums
    <3> QED  BY <2>4
  <2> HIDE DEF Sums
  <2> QED  BY <2>5
<1>5. Nat \subseteq done
  <2> HIDE DEF done
  <2> QED  BY <1>3, <1>4, SetInduction
<1>6. PICK it : Sums(it, Cardinality(T))
  BY <1>1, <1>5
<1>7. Small(Cardinality(T)) = SUBSET T
  BY <1>1, FS_Subset
<1> QED  BY <1>6, <1>7 DEF IsSum

LEMMA SumIsPositive ==
    ASSUME NEW T, IsFiniteSet(T), NEW g \in [T -> Nat], NEW it, IsSum(it, g, T)
    PROVE  it[T] \in Nat /\ (it[T] > 0 <=> \E x \in T : g[x] > 0)
<1> DEFINE Right(s) == it[s] \in Nat /\ (it[s] > 0 <=> \E x \in s : g[x] > 0)
           done == {n \in Nat : \A s \in SUBSET T : Cardinality(s) = n => Right(s)}
<1>1. \A s \in SUBSET T : IsFiniteSet(s) /\ Cardinality(s) \in Nat /\ (Cardinality(s) = 0 => s = {})
  BY FS_Subset, FS_CardinalityType, FS_EmptySet
<1>2. \A s \in SUBSET T : it[s] = IF s = {} THEN 0 ELSE g[Picked(s)] + it[s \ {Picked(s)}]
  BY DEF IsSum
<1>3. 0 \in done
  <2> SUFFICES ASSUME NEW s \in SUBSET T, Cardinality(s) = 0 PROVE Right(s)
    OBVIOUS
  <2> QED  BY <1>1, <1>2
<1>4. ASSUME NEW n \in Nat, n \in done PROVE n + 1 \in done
  <2> SUFFICES ASSUME NEW s \in SUBSET T, Cardinality(s) = n + 1 PROVE Right(s)
    OBVIOUS
  <2> DEFINE x == Picked(s)
             rest == s \ {x}
  <2>1. s # {} /\ x \in s
    BY FS_EmptySet DEF Picked
  <2>2. rest \in SUBSET T /\ Cardinality(rest) = n
    BY <1>1, <2>1, FS_RemoveElement
  <2>3. Right(rest)
    BY <1>4, <2>2
  <2>4. it[s] = g[x] + it[rest] /\ g[x] \in Nat
    BY <1>2, <2>1
  <2>5. s = rest \cup {x}
    BY <2>1
  <2> HIDE DEF x, rest
  <2> QED  BY <2>3, <2>4, <2>5
<1>5. Cardinality(T) \in Nat /\ T \in SUBSET T
  BY <1>1
<1>6. Nat \subseteq done
  <2> HIDE DEF done
  <2> QED  BY <1>3, <1>4, SetInduction
<1>7. Right(T)
  BY <1>5, <1>6
<1> QED  BY <1>7

-----------------------------------------------------------------------------
(* The explorer.  What is expanded has no say in which leaves there are. *)
ExplorerFields == {"mode", "status", "types", "materializations", "query", "expanded", "selected"}
IsCatalog(cat) == IsFiniteSet(cat.resources) /\ \A r \in cat.resources : r.id # Missing
IsExplorer(view) == view = [f \in ExplorerFields |-> view[f]]
ExplorerInv == IsCatalog(catalog) /\ IsExplorer(explorer)
SameTree(view, other) == TreeInput(view) = TreeInput(other)

LEMMA SameTreeSameLeaves ==
    ASSUME NEW cat, NEW view, NEW other, SameTree(view, other)
    PROVE  /\ TreeLeaves(cat, view) = TreeLeaves(cat, other)
           /\ \A r : AncestorBranches(cat, view, r) = AncestorBranches(cat, other, r)
<1>1. /\ view.mode = other.mode /\ view.status = other.status /\ view.types = other.types
      /\ view.materializations = other.materializations /\ view.query = other.query
  BY DEF SameTree, TreeInput
<1>2. Listed(cat, view) = Listed(cat, other)
  BY <1>1 DEF Listed
<1>3. \A r : AncestorBranches(cat, view, r) = AncestorBranches(cat, other, r)
  BY <1>1 DEF AncestorBranches
<1>4. TreeLeaves(cat, view) = TreeLeaves(cat, other)
  BY <1>1, <1>2 DEF TreeLeaves
<1> QED  BY <1>3, <1>4

LEMMA EffectsExpandOnly ==
    ASSUME NEW cat, NEW view, IsExplorer(view), NEW first
    PROVE  LET after == AfterEffects(cat, view, first)
           IN  /\ IsExplorer(after) /\ SameTree(after, view)
               /\ after.selected = view.selected /\ after.mode = view.mode
               /\ first = TRUE /\ view.selected # Missing =>
                      after.expanded = view.expanded \cup AncestorsOfSelected(cat, view)
<1> DEFINE Expanded(set) == [view EXCEPT !.expanded = set]
<1>1. DOMAIN view = ExplorerFields
  BY DEF IsExplorer
<1>2. ASSUME NEW set
      PROVE  /\ IsExplorer(Expanded(set)) /\ SameTree(Expanded(set), view)
             /\ Expanded(set).selected = view.selected /\ Expanded(set).mode = view.mode
             /\ Expanded(set).expanded = set
  BY <1>1 DEF IsExplorer, ExplorerFields, SameTree, TreeInput
<1>3. CASE first = TRUE /\ view.selected # Missing
  <2>1. AfterEffects(cat, view, first) = Expanded(view.expanded \cup AncestorsOfSelected(cat, view))
    <3>1. ~OpensProject(cat, view)
      BY <1>3 DEF OpensProject
    <3> QED  BY <1>3, <3>1 DEF AfterEffects
  <2> HIDE DEF Expanded
  <2> QED  BY <2>1, <1>2
<1>4. CASE ~(first = TRUE /\ view.selected # Missing)
  <2>1. \/ \E set : AfterEffects(cat, view, first) = Expanded(set)
        \/ AfterEffects(cat, view, first) = view
    <3> DEFINE root == view.expanded \cup {ProjectRoot(cat)}
               shown == view.expanded \cup AncestorsOfSelected(cat, view)
    <3>1. \/ AfterEffects(cat, view, first) = Expanded(root)
          \/ AfterEffects(cat, view, first) = Expanded(shown)
          \/ AfterEffects(cat, view, first) = view
      BY DEF AfterEffects
    <3> HIDE DEF root, shown, Expanded
    <3> QED  BY <3>1
  <2>2. CASE AfterEffects(cat, view, first) = view
    BY <2>2, <1>4 DEF SameTree
  <2>3. CASE \E set : AfterEffects(cat, view, first) = Expanded(set)
    <3> HIDE DEF Expanded
    <3> QED  BY <2>3, <1>2, <1>4
  <2> QED  BY <2>1, <2>2, <2>3
<1> QED  BY <1>3, <1>4

\* The first effect shows the selected asset.
LEMMA SelectedIsShown ==
    ASSUME NEW cat, IsCatalog(cat), NEW view, IsExplorer(view),
           NEW after, after = AfterEffects(cat, view, TRUE),
           NEW r \in TreeLeaves(cat, after), r.id = after.selected
    PROVE  r \in VisibleLeaves(cat, after)
<1>1. /\ SameTree(after, view) /\ after.selected = view.selected
      /\ view.selected # Missing =>
             after.expanded = view.expanded \cup AncestorsOfSelected(cat, view)
  BY EffectsExpandOnly
<1>2. TreeLeaves(cat, after) = TreeLeaves(cat, view)
  BY <1>1, SameTreeSameLeaves
<1>3. AncestorBranches(cat, after, r) = AncestorBranches(cat, view, r)
  BY <1>1, SameTreeSameLeaves
<1>4. r \in cat.resources
  BY DEF TreeLeaves, Listed, Scoped
<1>5. view.selected # Missing
  BY <1>1, <1>4 DEF IsCatalog
<1>6. AncestorBranches(cat, view, r) \subseteq AncestorsOfSelected(cat, view)
  BY <1>1, <1>2 DEF AncestorsOfSelected
<1> QED  BY <1>1, <1>3, <1>5, <1>6 DEF VisibleLeaves

Reveals ==
    \/ explorer'.selected # explorer.selected
    \/ TreeLeaves(catalog, explorer)' # TreeLeaves(catalog, explorer)
    \/ explorer'.mode # explorer.mode
    => \A r \in TreeLeaves(catalog, explorer)' :
           r.id = explorer'.selected => r \in VisibleLeaves(catalog, explorer)'

LEMMA BecomesReveals ==
    ASSUME ExplorerInv, NEW view, IsExplorer(view), Becomes(view)
    PROVE  ExplorerInv' /\ Reveals
<1> DEFINE first == RunsFirstEffect(explorer, view)
<1>1. explorer' = AfterEffects(catalog, view, first) /\ catalog' = catalog
  BY DEF Becomes
<1>2. /\ IsExplorer(explorer') /\ SameTree(explorer', view)
      /\ explorer'.selected = view.selected /\ explorer'.mode = view.mode
  BY <1>1, EffectsExpandOnly
<1>3. ExplorerInv'
  BY <1>1, <1>2 DEF ExplorerInv
<1>4. CASE first
  <2>1. explorer' = AfterEffects(catalog, view, TRUE)
    BY <1>1, <1>4 DEF AfterEffects
  <2>2. \A r \in TreeLeaves(catalog, explorer') :
            r.id = explorer'.selected => r \in VisibleLeaves(catalog, explorer')
    BY <2>1, SelectedIsShown DEF ExplorerInv
  <2> QED  BY <1>1, <1>3, <2>2 DEF Reveals
<1>5. CASE ~first
  <2>1. explorer.selected = view.selected /\ SameTree(explorer, view)
    BY <1>5 DEF RunsFirstEffect, SameTree
  <2>2. SameTree(explorer', explorer)
    BY <1>2, <2>1 DEF SameTree
  <2>3. TreeLeaves(catalog, explorer') = TreeLeaves(catalog, explorer)
    BY <2>2, SameTreeSameLeaves
  <2>4. explorer'.mode = explorer.mode
    BY <2>2 DEF SameTree, TreeInput
  <2> QED  BY <1>1, <1>2, <1>3, <2>1, <2>3, <2>4 DEF Reveals
<1> QED  BY <1>4, <1>5

LEMMA ExplorerStep ==
    ASSUME ExplorerInv, ExplorerNext
    PROVE  ExplorerInv' /\ Reveals
<1>1. IsExplorer(explorer) /\ IsCatalog(catalog)
  BY DEF ExplorerInv
<1>2. ASSUME NEW field \in ExplorerFields, NEW value
      PROVE  IsExplorer([explorer EXCEPT ![field] = value])
  BY <1>1 DEF IsExplorer
<1>3. CASE ShowAnalysis
  <2>1. PICK cat \in Catalogs : catalog' = cat /\ explorer' = AfterEffects(cat, explorer, TRUE)
    BY <1>3 DEF ShowAnalysis
  <2>2. IsCatalog(cat)
    BY CatalogsOfResources DEF IsCatalog
  <2>3. IsExplorer(explorer')
    BY <1>1, <2>1, EffectsExpandOnly
  <2>4. \A r \in TreeLeaves(cat, explorer') :
            r.id = explorer'.selected => r \in VisibleLeaves(cat, explorer')
    BY <1>1, <2>1, <2>2, SelectedIsShown
  <2> QED  BY <2>1, <2>2, <2>3, <2>4 DEF ExplorerInv, Reveals
<1>4. CASE ExplorerNext /\ ~ShowAnalysis
  <2> DEFINE Sets(field) == \E value : Becomes([explorer EXCEPT ![field] = value])
  <2>1. /\ SetMode => Sets("mode")
        /\ SetStatus => Sets("status")
        /\ ToggleType => Sets("types")
        /\ TogglePill => Sets("materializations")
    BY DEF SetMode, SetStatus, ToggleType, TogglePill
  <2>2. /\ SearchTree => Sets("query")
        /\ ToggleBranch => Sets("expanded")
        /\ SelectLeaf => Sets("selected")
        /\ SelectElsewhere => Sets("selected")
    BY DEF SearchTree, ToggleBranch, SelectLeaf, SelectElsewhere
  <2>3. \E field \in ExplorerFields : Sets(field)
    <3> HIDE DEF Sets
    <3> QED  BY <2>1, <2>2, <1>4 DEF ExplorerNext, ExplorerFields
  <2>4. PICK field, value :
            field \in ExplorerFields /\ Becomes([explorer EXCEPT ![field] = value])
    BY <2>3
  <2> QED  BY <2>4, <1>2, BecomesReveals
<1> QED  BY <1>3, <1>4

LEMMA ExplorerStartInv ==
    ASSUME NEW cat, IsCatalog(cat), NEW selected, ExplorerStart(cat, selected)
    PROVE  ExplorerInv
<1>1. IsExplorer(FirstView(selected))
  BY DEF IsExplorer, FirstView, ExplorerFields
<1>2. IsExplorer(explorer)
  BY <1>1, EffectsExpandOnly DEF ExplorerStart
<1> QED  BY <1>2 DEF ExplorerStart, ExplorerInv

LEMMA ExplorerAlways ==
    /\ Init => ExplorerInv
    /\ ExplorerInv /\ [Next]_investigationVars => ExplorerInv' /\ (Reveals \/ UNCHANGED explorerVars)
<1>1. ASSUME Init PROVE ExplorerInv
  <2>1. CASE scene = "explorer"
    <3>1. PICK cat, id : cat \in Catalogs /\ ExplorerStart(cat, id)
      BY <1>1, <2>1 DEF Init, StartExplorer
    <3>2. IsCatalog(cat)
      BY <3>1, CatalogsOfResources DEF IsCatalog
    <3> QED  BY <3>1, <3>2, ExplorerStartInv
  <2>2. CASE scene # "explorer"
    <3>1. PICK cat, id : ExplorerStart(cat, id) /\ cat.resources = {}
      BY <1>1, <2>2 DEF Init, IdleExplorer
    <3>2. IsCatalog(cat)
      BY <3>1, FS_EmptySet DEF IsCatalog
    <3> QED  BY <3>1, <3>2, ExplorerStartInv
  <2> QED  BY <2>1, <2>2
<1>2. ASSUME ExplorerInv, [Next]_investigationVars
      PROVE  ExplorerInv' /\ (Reveals \/ UNCHANGED explorerVars)
  <2>1. ExplorerNext \/ UNCHANGED explorerVars
    BY <1>2 DEF Next, investigationVars
  <2>2. CASE ExplorerNext
    BY <1>2, <2>2, ExplorerStep
  <2>3. CASE UNCHANGED explorerVars
    BY <1>2, <2>3 DEF explorerVars, ExplorerInv
  <2> QED  BY <2>1, <2>2, <2>3
<1> QED  BY <1>1, <1>2

(* After a change of the selection, of a filter, of the mode or of the analysis, the selected  *)
(* asset is a row one can see, if it is in the tree at all                                     *)
(* (use-inventory-explorer-expansion.ts:28).                                                   *)
THEOREM SelectedIsRevealedAlways == Spec => SelectedIsRevealed
<1>1. ExplorerInv /\ [Next]_investigationVars => [Reveals]_explorerVars
  BY ExplorerAlways
<1> QED  BY <1>1, ExplorerAlways, PTL DEF Spec, SelectedIsRevealed, Reveals

\* The numbers of tests by how they went: a resource asks for attention when one of its tests
\* failed, warned or was skipped.
Troubled == {"danger", "warning", "skipped"}

LEMMA StatsAreNumbers ==
    ASSUME NEW cat, NEW id, NEW resources, IsFiniteSet(resources)
    PROVE  LET stats == BuildResourceTestStats(cat, id, resources)
           IN  /\ \A tone \in TestTones : stats[tone] \in Nat
               /\ StatsHaveAttention(stats) <=>
                      \E t \in TestsOf(cat, id, resources) : t.tone \in Troubled
<1> DEFINE stats == BuildResourceTestStats(cat, id, resources)
           Of(tone) == {t \in TestsOf(cat, id, resources) : t.tone = tone}
<1>1. ASSUME NEW tone \in TestTones
      PROVE  /\ stats[tone] = Cardinality(Of(tone)) /\ stats[tone] \in Nat
             /\ stats[tone] = 0 <=> Of(tone) = {}
  <2>1. Of(tone) \in SUBSET resources
    BY DEF TestsOf
  <2>2. IsFiniteSet(Of(tone))
    BY <2>1, FS_Subset
  <2>3. stats[tone] = Cardinality(Of(tone))
    BY DEF BuildResourceTestStats
  <2> HIDE DEF stats, Of
  <2> QED  BY <2>2, <2>3, FS_CardinalityType, FS_EmptySet
<1>2. "danger" \in TestTones /\ "warning" \in TestTones /\ "skipped" \in TestTones
  BY DEF TestTones
<1> HIDE DEF stats
<1>3. StatsHaveAttention(stats) <=>
          Of("danger") # {} \/ Of("warning") # {} \/ Of("skipped") # {}
  <2> HIDE DEF Of
  <2> QED  BY <1>1, <1>2 DEF StatsHaveAttention
<1>4. StatsHaveAttention(stats) <=> \E t \in TestsOf(cat, id, resources) : t.tone \in Troubled
  BY <1>3 DEF Troubled
<1> QED  BY <1>1, <1>4 DEF stats

LEMMA BadgeOfBranch ==
    ASSUME NEW cat, IsFiniteSet(cat.resources), NEW view, NEW branch
    PROVE  StatsHaveAttention(BranchStats(cat, view, branch)) <=>
               \E r \in LeavesUnder(cat, view, branch) : HasBadge(cat, view, r)
<1> DEFINE T == {r \in LeavesUnder(cat, view, branch) : HasBadge(cat, view, r)}
           stats == BranchStats(cat, view, branch)
<1>1. T \subseteq cat.resources /\ Listed(cat, view) \subseteq cat.resources
  BY DEF LeavesUnder, TreeLeaves, Listed, Scoped
<1>2. IsFiniteSet(T) /\ IsFiniteSet(Listed(cat, view))
  BY <1>1, FS_Subset
<1>3. ASSUME NEW tone \in TestTones
      PROVE  /\ stats[tone] \in Nat
             /\ stats[tone] > 0 <=> \E r \in T : LeafStats(cat, view, r)[tone] > 0
  <2> DEFINE g == [r \in T |-> LeafStats(cat, view, r)[tone]]
  <2>1. g \in [T -> Nat]
    BY <1>2, StatsAreNumbers DEF LeafStats
  <2>2. PICK it : IsSum(it, g, T)
    <3> HIDE DEF g, T
    <3> QED  BY <1>2, <2>1, SumExists
  <2> DEFINE total(f) == f = [s \in SUBSET T |->
                                IF s = {} THEN 0
                                ELSE LeafStats(cat, view, CHOOSE x \in s : TRUE)[tone]
                                     + f[s \ {CHOOSE x \in s : TRUE}]]
  <2>3. \A f : total(f) <=> IsSum(f, g, T)
    <3> TAKE f
    <3>1. \A s \in SUBSET T : s # {} => g[Picked(s)] = LeafStats(cat, view, CHOOSE x \in s : TRUE)[tone]
      BY DEF Picked
    <3> HIDE DEF g
    <3> QED  BY <3>1 DEF IsSum, Picked
  <2>4. stats[tone] = (CHOOSE f : total(f))[T]
    BY DEF BranchStats, SumOfStats, MapThenSumSet, MapThenFoldSet
  <2>5. PICK sum : IsSum(sum, g, T) /\ stats[tone] = sum[T]
    <3> HIDE DEF total, g, T, stats
    <3> QED  BY <2>2, <2>3, <2>4
  <2>6. sum[T] \in Nat /\ (sum[T] > 0 <=> \E r \in T : g[r] > 0)
    <3> HIDE DEF g, T
    <3> QED  BY <1>2, <2>1, <2>5, SumIsPositive
  <2> QED  BY <2>5, <2>6
<1>4. ASSUME NEW r \in T
      PROVE  /\ \A tone \in TestTones : LeafStats(cat, view, r)[tone] \in Nat
             /\ StatsHaveAttention(LeafStats(cat, view, r))
  BY <1>2, StatsAreNumbers DEF LeafStats, HasBadge
<1>5. "danger" \in TestTones /\ "warning" \in TestTones /\ "skipped" \in TestTones
  BY DEF TestTones
<1>6. StatsHaveAttention(stats) => T # {}
  <2> HIDE DEF T, stats
  <2> QED  BY <1>3, <1>5 DEF StatsHaveAttention
<1>7. T # {} => StatsHaveAttention(stats)
  <2> SUFFICES ASSUME NEW r \in T PROVE StatsHaveAttention(stats)
    OBVIOUS
  <2> HIDE DEF T, stats
  <2>1. \E tone \in Troubled : LeafStats(cat, view, r)[tone] > 0
    BY <1>4, <1>5 DEF StatsHaveAttention, Troubled
  <2>2. \E tone \in Troubled : stats[tone] > 0
    BY <2>1, <1>3, <1>5 DEF Troubled
  <2> QED  BY <2>2, <1>3, <1>5 DEF StatsHaveAttention, Troubled
<1> QED  BY <1>6, <1>7

LEMMA UnfilteredListsAll ==
    ASSUME NEW cat, NEW view, Unfiltered(view)
    PROVE  Listed(cat, view) = Scoped(cat, view.mode)
<1>1. /\ view.status = "all" /\ view.types = {} /\ view.materializations = {}
      /\ view.query = {}
  BY DEF Unfiltered, FirstView
<1> QED  BY <1>1 DEF Listed, MatchesAssetStatus

LEMMA IssuesMarked ==
    ASSUME ExplorerInv
    PROVE  IssuesAreMarked
<1> SUFFICES ASSUME Unfiltered(explorer) PROVE IssuesAreMarked
  BY DEF IssuesAreMarked
<1> DEFINE scoped == Scoped(catalog, explorer.mode)
           leaves == TreeLeaves(catalog, explorer)
<1>1. Listed(catalog, explorer) = scoped
  BY UnfilteredListsAll
<1>2. IsFiniteSet(catalog.resources) /\ scoped \subseteq catalog.resources
  BY DEF ExplorerInv, IsCatalog, Scoped
<1>3. IsFiniteSet(scoped)
  BY <1>2, FS_Subset
<1> HIDE DEF scoped
<1>4. \A r : HasBadge(catalog, explorer, r)
             <=> StatsHaveAttention(BuildResourceTestStats(catalog, r.id, scoped))
  BY <1>1 DEF HasBadge, LeafStats
<1>5. \A r \in leaves : r.tone # "danger" /\ MatchesAssetStatus(catalog, r, scoped, "issues")
                        => HasBadge(catalog, explorer, r)
  BY <1>4 DEF MatchesAssetStatus
<1>6. \A b \in CollectBranchIds(catalog, explorer) :
          StatsHaveAttention(BranchStats(catalog, explorer, b)) <=>
              \E r \in LeavesUnder(catalog, explorer, b) : HasBadge(catalog, explorer, r)
  BY <1>2, BadgeOfBranch
<1>7. ASSUME NEW r \in leaves,
             QualityPosture(SelectedAssetEvidence(catalog, r.id)) = "Attention needed",
             TestsOf(catalog, r.id, catalog.resources) \subseteq scoped
      PROVE  HasBadge(catalog, explorer, r)
  <2> DEFINE tests == TestsOf(catalog, r.id, catalog.resources)
             wanting == {t \in tests : t.tone \in {"warning", "danger"}}
  <2>1. SelectedAssetEvidence(catalog, r.id).attention = Cardinality(wanting)
    BY DEF SelectedAssetEvidence
  <2>2. SelectedAssetEvidence(catalog, r.id).attention > 0
    <3> HIDE DEF wanting
    <3> QED  BY <1>7 DEF QualityPosture
  <2>3. wanting # {}
    <3>1. Cardinality({}) = 0
      BY FS_EmptySet
    <3> HIDE DEF wanting
    <3> QED  BY <2>1, <2>2, <3>1
  <2>4. PICK t \in tests : t.tone \in Troubled
    BY <2>3 DEF Troubled
  <2>5. t \in TestsOf(catalog, r.id, scoped)
    BY <2>4, <1>7 DEF TestsOf
  <2> QED  BY <2>4, <2>5, <1>3, <1>4, StatsAreNumbers
<1> QED  BY <1>5, <1>6, <1>7 DEF IssuesAreMarked, scoped

(* While no filter is set, each asset that is shown and in trouble by its tests has a badge,   *)
(* and a branch has one exactly when an asset below it does (explorer-tree.ts:281,             *)
(* utils.ts:165).  An asset whose own status is bad needs none.                                *)
THEOREM IssuesAreMarkedAlways == Spec => []IssuesAreMarked
BY ExplorerAlways, IssuesMarked, PTL DEF Spec

-----------------------------------------------------------------------------
(* Navigation.  The invariant: the views keep what a URL can say, and the URL of each entry    *)
(* says all of what was shown when it was written.                                             *)
NavFields == {"view", "resource", "tab", "query", "kind", "execution", "adapter", "bar", "lineage"}
LineageFields == {"root", "node", "up", "down", "allDeps", "lens"}
IsLineage(l) ==
    /\ l = [f \in LineageFields |-> l[f]]
    /\ l.up \in Nat /\ l.down \in Nat /\ l.allDeps \in BOOLEAN /\ l.lens \in Lenses
IsNavigation(n) ==
    /\ n = [f \in NavFields |-> n[f]]
    /\ n.view \in Views /\ n.tab \in Tabs /\ n.kind \in Kinds /\ n.adapter \in BOOLEAN
    /\ IsLineage(n.lineage)
SaysLineage(url) ==
    /\ url.up \in Nat /\ url.down \in Nat /\ url.allDeps \in {"0", "1"}
    /\ url.lens \in Lenses
SaysShown(e, metrics) ==
    LET url == e.url
    IN  /\ url.view \in Views /\ url.tab = ""
        /\ url.view = "inventory" =>
               /\ url.assetTab \in Tabs
               /\ url.assetTab = "lineage" =>
                      /\ SaysLineage(url)
                      /\ e.shown = <<"inventory", url.resource, url.assetTab, url.q,
                                     <<url.up, url.down, url.allDeps = "1", url.lens>>>>
               /\ url.assetTab # "lineage" =>
                      e.shown = <<"inventory", url.resource, url.assetTab, url.q, Nothing>>
        /\ url.view = "runs" =>
               /\ url.kind \in Kinds
               /\ e.shown = <<"runs", url.kind, url.selected, url.adapter # "0" /\ metrics>>
        /\ url.view = "timeline" => e.shown = <<"timeline", url.selected>>
        /\ url.view \notin {"inventory", "runs", "timeline"} => e.shown = <<url.view>>
IsEntry(e, metrics) ==
    /\ {e.url.up, e.url.down} \subseteq Nat \cup {NoDepth}
    /\ e.shown # Nothing => SaysShown(e, metrics)
AreEntries(entries, metrics) ==
    IsQueue(entries) /\ \A i \in 1 .. Len(entries) : IsEntry(entries[i], metrics)
UrlInv ==
    /\ metricsAvailable \in BOOLEAN
    /\ IsNavigation(nav)
    /\ preferences.up \in Nat /\ preferences.down \in Nat
    /\ preferences.allDeps \in BOOLEAN /\ preferences.lens \in Lenses
    /\ AreEntries(history, metricsAvailable) /\ position \in 1 .. Len(history)

\* A URL that is written.
LEMMA WrittenSaysShown ==
    ASSUME NEW n, IsNavigation(n), metricsAvailable \in BOOLEAN,
           NEW e, e = Entry(BuildNextUrl(n), Shown(n))
    PROVE  IsEntry(e, metricsAvailable)
<1> DEFINE url == BuildNextUrl(n)
<1>1. e.url = url /\ e.shown = Shown(n)
  BY DEF Entry
<1>2. /\ n.view \in Views /\ n.tab \in Tabs /\ n.kind \in Kinds /\ n.adapter \in BOOLEAN
      /\ n.lineage.up \in Nat /\ n.lineage.down \in Nat
      /\ n.lineage.allDeps \in BOOLEAN /\ n.lineage.lens \in Lenses
  BY DEF IsNavigation, IsLineage
<1>0. NoDepth \in Nat \cup {NoDepth}
  OBVIOUS
<1>3. CASE n.view = "inventory" /\ n.tab = "lineage"
  <2>1. /\ url.view = "inventory" /\ url.tab = "" /\ url.assetTab = "lineage"
        /\ url.resource = n.resource /\ url.q = n.query
        /\ url.up = n.lineage.up /\ url.down = n.lineage.down /\ url.lens = n.lineage.lens
        /\ url.allDeps = IF n.lineage.allDeps THEN "1" ELSE "0"
    BY <1>3 DEF BuildNextUrl, InventoryUrl, NoParameters
  <2>2. Shown(n) = <<"inventory", n.resource, n.tab, n.query,
                     <<n.lineage.up, n.lineage.down, n.lineage.allDeps, n.lineage.lens>>>>
    BY <1>3 DEF Shown
  <2>3. (url.allDeps = "1") = n.lineage.allDeps /\ url.allDeps \in {"0", "1"}
    BY <1>2, <2>1
  <2> HIDE DEF url
  <2>4. url.view \in Views /\ url.assetTab \in Tabs /\ SaysLineage(url)
    BY <1>2, <2>1, <2>3 DEF SaysLineage, Tabs, Views
  <2>5. Shown(n) = <<"inventory", url.resource, url.assetTab, url.q,
                     <<url.up, url.down, url.allDeps = "1", url.lens>>>>
    BY <1>3, <2>1, <2>2, <2>3
  <2>6. {url.up, url.down} \subseteq Nat \cup {NoDepth}
    BY <1>2, <2>1
  <2> QED  BY <1>1, <2>1, <2>4, <2>5, <2>6 DEF IsEntry, SaysShown
<1>4. CASE n.view = "inventory" /\ n.tab # "lineage"
  <2>1. /\ url.view = "inventory" /\ url.tab = "" /\ url.assetTab = n.tab
        /\ url.resource = n.resource /\ url.q = n.query
        /\ url.up = NoDepth /\ url.down = NoDepth
    BY <1>4 DEF BuildNextUrl, InventoryUrl, NoParameters
  <2>2. Shown(n) = <<"inventory", n.resource, n.tab, n.query, Nothing>>
    BY <1>4 DEF Shown
  <2> HIDE DEF url
  <2> QED  BY <1>0, <1>1, <1>2, <1>4, <2>1, <2>2 DEF IsEntry, SaysShown, Views
<1>5. CASE n.view = "runs"
  <2>1. /\ url.view = "runs" /\ url.tab = "" /\ url.kind = n.kind /\ url.selected = n.execution
        /\ url.adapter = (IF n.adapter THEN "" ELSE "0") /\ url.up = NoDepth /\ url.down = NoDepth
    BY <1>5 DEF BuildNextUrl, RunsUrl, NoParameters
  <2>2. Shown(n) = <<"runs", n.kind, n.execution, n.adapter /\ metricsAvailable>>
    BY <1>5 DEF Shown
  <2>3. (url.adapter # "0") = n.adapter
    BY <1>2, <2>1
  <2> HIDE DEF url
  <2> QED  BY <1>0, <1>1, <1>2, <1>5, <2>1, <2>2, <2>3 DEF IsEntry, SaysShown, Views
<1>6. CASE n.view = "timeline"
  <2>1. /\ url.view = "timeline" /\ url.tab = "" /\ url.selected = n.bar
        /\ url.up = NoDepth /\ url.down = NoDepth
    BY <1>6 DEF BuildNextUrl, TimelineUrl, NoParameters
  <2>2. Shown(n) = <<"timeline", n.bar>>
    BY <1>6 DEF Shown
  <2> HIDE DEF url
  <2>3. SaysShown(e, metricsAvailable)
    BY <1>1, <1>6, <2>1, <2>2 DEF SaysShown, Views
  <2> QED  BY <1>0, <1>1, <2>1, <2>3 DEF IsEntry
<1>7. CASE n.view \notin {"inventory", "runs", "timeline"}
  <2>1. /\ url.view = n.view /\ url.tab = "" /\ url.up = NoDepth /\ url.down = NoDepth
    BY <1>7 DEF BuildNextUrl, NoParameters
  <2>2. Shown(n) = <<n.view>>
    BY <1>7 DEF Shown
  <2> HIDE DEF url
  <2> QED  BY <1>0, <1>1, <1>2, <1>7, <2>1, <2>2 DEF IsEntry, SaysShown, Views
<1> QED  BY <1>3, <1>4, <1>5, <1>6, <1>7

LEMMA LineageIsRead ==
    ASSUME NEW url, {url.up, url.down} \subseteq Nat \cup {NoDepth}, NEW defaults,
           defaults.up \in Nat, defaults.down \in Nat,
           defaults.allDeps \in BOOLEAN, defaults.lens \in Lenses
    PROVE  LET l == LineageOf(url, defaults)
           IN  /\ IsLineage(l)
               /\ SaysLineage(url) =>
                      /\ l.up = url.up /\ l.down = url.down /\ l.lens = url.lens
                      /\ l.allDeps = (url.allDeps = "1")
<1> DEFINE l == LineageOf(url, defaults)
<1>1. /\ l.up = DepthOr(url.up, defaults.up) /\ l.down = DepthOr(url.down, defaults.down)
      /\ l.allDeps = (IF url.allDeps = "" THEN defaults.allDeps ELSE url.allDeps = "1")
      /\ l.lens = OrElse(Known(url.lens, Lenses), defaults.lens)
  BY DEF LineageOf
<1>2. l = [f \in LineageFields |-> l[f]]
  BY DEF LineageOf, LineageFields
<1> HIDE DEF l
<1>8. \A d \in Nat : d # NoDepth
  BY DEF NoDepth
<1>9. \A d \in Nat \cup {NoDepth}, k \in Nat :
          DepthOr(d, k) \in Nat /\ (d \in Nat => DepthOr(d, k) = d)
  BY <1>8 DEF DepthOr
<1>3. l.up \in Nat /\ l.down \in Nat
  BY <1>1, <1>9
<1>4. l.allDeps \in BOOLEAN
  BY <1>1
<1>5. l.lens \in Lenses
  BY <1>1 DEF OrElse, Known
<1>6. ASSUME SaysLineage(url)
      PROVE  /\ l.up = url.up /\ l.down = url.down /\ l.lens = url.lens
             /\ l.allDeps = (url.allDeps = "1")
  <2>1. l.up = url.up /\ l.down = url.down
    BY <1>1, <1>6, <1>9 DEF SaysLineage
  <2>2. l.lens = url.lens
    BY <1>1, <1>6 DEF SaysLineage, OrElse, Known, Lenses
  <2>3. l.allDeps = (url.allDeps = "1")
    BY <1>1, <1>6 DEF SaysLineage
  <2> QED  BY <2>1, <2>2, <2>3
<1> QED  BY <1>2, <1>3, <1>4, <1>5, <1>6 DEF IsLineage, l

LEMMA ViewIsParsed ==
    ASSUME NEW url
    PROVE  /\ ParseView(url) \in Views \cup {""}
           /\ url.view \in Views /\ url.tab = "" => ParseView(url) = url.view
           /\ ParseAssetTab(url) \in Tabs
           /\ url.assetTab \in Tabs => ParseAssetTab(url) = url.assetTab
<1>1. ParseAssetTab(url) \in Tabs /\ (url.assetTab \in Tabs => ParseAssetTab(url) = url.assetTab)
  BY DEF ParseAssetTab, Tabs
<1>2. \A raw : ResolveView(raw) \in Views /\ (raw \in Views => ResolveView(raw) = raw)
  BY DEF ResolveView, Views
<1>3. ParseView(url) \in Views \cup {""}
  BY <1>2 DEF ParseView, Views
<1>4. ASSUME url.view \in Views, url.tab = "" PROVE ParseView(url) = url.view
  <2>1. CASE url.view = "runs"
    BY <1>4, <2>1 DEF ParseView
  <2>2. CASE url.view # "runs"
    BY <1>2, <1>4, <2>2 DEF ParseView
  <2> QED  BY <2>1, <2>2
<1> QED  BY <1>1, <1>3, <1>4

LEMMA BuiltInIsLineage ==
    /\ BuiltIn.up \in Nat /\ BuiltIn.down \in Nat
    /\ BuiltIn.allDeps \in BOOLEAN /\ BuiltIn.lens \in Lenses
BY DEF BuiltIn, Lenses

\* A clamped depth is one still.
LEMMA ClampedIsLineage ==
    ASSUME NEW l, IsLineage(l)
    PROVE  LET c == Clamped(l)
           IN  /\ IsLineage(c) /\ c.up = ClampDepth(l.up) /\ c.down = ClampDepth(l.down)
               /\ c.lens = l.lens /\ c.allDeps = l.allDeps
<1>1. \A d \in Nat : ClampDepth(d) \in Nat
  BY DEF ClampDepth
<1> QED  BY <1>1 DEF IsLineage, Clamped, LineageFields

\* What is read from a URL.
LEMMA ReadFromUrl ==
    ASSUME IsNavigation(nav), NEW url, {url.up, url.down} \subseteq Nat \cup {NoDepth}
    PROVE  LET n == ApplySearch(url)
           IN  /\ IsNavigation(n)
               /\ n.view = OrElse(ParseView(url), nav.view)
               /\ n.resource = url.resource /\ n.tab = ParseAssetTab(url)
               /\ n.query = (IF ParseView(url) = "inventory" THEN url.q ELSE nav.query)
               /\ n.kind = OrElse(Known(url.kind, Kinds), nav.kind)
               /\ n.execution = SelectedFor(url, {"runs"})
               /\ n.adapter = (IF ParseView(url) = "runs" THEN ShowsAdapter(url) ELSE nav.adapter)
               /\ n.bar = SelectedFor(url, {"timeline"})
               /\ n.lineage = Clamped(LineageOf(url, BuiltIn))
<1> DEFINE n == ApplySearch(url)
<1>1. DOMAIN nav = NavFields
  BY DEF IsNavigation
<1>2. /\ n = [f \in NavFields |-> n[f]]
      /\ n.view = OrElse(ParseView(url), nav.view)
      /\ n.resource = url.resource /\ n.tab = ParseAssetTab(url)
      /\ n.query = (IF ParseView(url) = "inventory" THEN url.q ELSE nav.query)
      /\ n.kind = OrElse(Known(url.kind, Kinds), nav.kind)
      /\ n.execution = SelectedFor(url, {"runs"})
      /\ n.adapter = (IF ParseView(url) = "runs" THEN ShowsAdapter(url) ELSE nav.adapter)
      /\ n.bar = SelectedFor(url, {"timeline"})
      /\ n.lineage = Clamped(LineageOf(url, BuiltIn))
  BY <1>1 DEF ApplySearch, NavFields
<1> HIDE DEF n
<1>3. n.view \in Views
  BY <1>2, ViewIsParsed DEF IsNavigation, OrElse
<1>4. n.tab \in Tabs
  BY <1>2, ViewIsParsed
<1>5. n.kind \in Kinds
  BY <1>2 DEF IsNavigation, OrElse, Known
<1>6. n.adapter \in BOOLEAN
  BY <1>2 DEF IsNavigation, ShowsAdapter
<1>7. IsLineage(n.lineage)
  BY <1>2, BuiltInIsLineage, LineageIsRead, ClampedIsLineage
<1> QED  BY <1>2, <1>3, <1>4, <1>5, <1>6, <1>7 DEF IsNavigation, n

LEMMA SettledIsNavigation ==
    ASSUME NEW n, IsNavigation(n), metricsAvailable \in BOOLEAN
    PROVE  IsNavigation(SettledView(n)) /\ Shown(SettledView(n)) = Shown(n)
<1>1. CASE n.view = "runs" /\ n.adapter /\ ~metricsAvailable
  <2> DEFINE s == [n EXCEPT !.adapter = FALSE]
  <2>1. SettledView(n) = s
    BY <1>1 DEF SettledView
  <2>2. DOMAIN n = NavFields
    BY DEF IsNavigation
  <2>3. /\ s = [f \in NavFields |-> s[f]] /\ s.view = n.view /\ s.tab = n.tab /\ s.kind = n.kind
        /\ s.lineage = n.lineage /\ s.adapter = FALSE /\ s.execution = n.execution
    BY <2>2 DEF NavFields
  <2> HIDE DEF s
  <2>4. IsNavigation(s)
    BY <2>3 DEF IsNavigation
  <2>5. /\ Shown(s) = <<"runs", n.kind, n.execution, s.adapter /\ metricsAvailable>>
        /\ Shown(n) = <<"runs", n.kind, n.execution, n.adapter /\ metricsAvailable>>
    BY <1>1, <2>3 DEF Shown
  <2>6. (s.adapter /\ metricsAvailable) = (n.adapter /\ metricsAvailable)
    BY <1>1, <2>3
  <2> QED  BY <2>1, <2>4, <2>5, <2>6
<1>2. CASE ~(n.view = "runs" /\ n.adapter /\ ~metricsAvailable)
  <2>1. SettledView(n) = n
    BY <1>2 DEF SettledView
  <2> QED  BY <2>1
<1> QED  BY <1>1, <1>2

\* What comes back of what was shown.
LEMMA LineageIsRestored ==
    ASSUME NEW a, NEW b, NEW c, NEW f, NEW g, NEW h, NEW k
    PROVE  Restored(<<"inventory", a, b, c, <<f, g, h, k>>>>)
               = <<"inventory", a, b, c, <<ClampDepth(f), ClampDepth(g), h, k>>>>
<1>1. <<f, g, h, k>> # Nothing
  BY DEF Nothing
<1> QED  BY <1>1 DEF Restored
LEMMA OthersAreRestored ==
    ASSUME NEW shown, IF shown[1] = "inventory" THEN shown[5] = Nothing ELSE TRUE
    PROVE  Restored(shown) = shown
BY DEF Restored

\* Reading what was written shows it again.
LEMMA ReadIsShown ==
    ASSUME IsNavigation(nav), metricsAvailable \in BOOLEAN,
           NEW e, IsEntry(e, metricsAvailable), e.shown # Nothing
    PROVE  Shown(SettledView(ApplySearch(e.url))) = Restored(e.shown)
<1> DEFINE url == e.url
           n == ApplySearch(url)
           l == LineageOf(url, BuiltIn)
<1>1. {url.up, url.down} \subseteq Nat \cup {NoDepth} /\ SaysShown(e, metricsAvailable)
  BY DEF IsEntry
<1>2. /\ IsNavigation(n)
      /\ n.view = OrElse(ParseView(url), nav.view)
      /\ n.resource = url.resource /\ n.tab = ParseAssetTab(url)
      /\ n.query = (IF ParseView(url) = "inventory" THEN url.q ELSE nav.query)
      /\ n.kind = OrElse(Known(url.kind, Kinds), nav.kind)
      /\ n.execution = SelectedFor(url, {"runs"})
      /\ n.adapter = (IF ParseView(url) = "runs" THEN ShowsAdapter(url) ELSE nav.adapter)
      /\ n.bar = SelectedFor(url, {"timeline"})
      /\ n.lineage = Clamped(l)
  BY <1>1, ReadFromUrl
<1>3. Shown(SettledView(n)) = Shown(n)
  BY <1>2, SettledIsNavigation
<1>4. url.view \in Views /\ url.tab = ""
  BY <1>1 DEF SaysShown
<1>5. ParseView(url) = url.view /\ n.view = url.view
  BY <1>2, <1>4, ViewIsParsed DEF OrElse, Views
<1> HIDE DEF n, l
<1>6. CASE url.view = "inventory" /\ url.assetTab = "lineage"
  <2>1. /\ url.assetTab \in Tabs /\ SaysLineage(url)
        /\ e.shown = <<"inventory", url.resource, url.assetTab, url.q,
                       <<url.up, url.down, url.allDeps = "1", url.lens>>>>
    BY <1>1, <1>6 DEF SaysShown
  <2>2. n.tab = url.assetTab /\ n.query = url.q
    BY <1>2, <1>5, <1>6, <2>1, ViewIsParsed
  <2>5. /\ l.up = url.up /\ l.down = url.down /\ l.lens = url.lens /\ l.allDeps = (url.allDeps = "1")
        /\ IsLineage(l)
    BY <1>1, <2>1, LineageIsRead, BuiltInIsLineage DEF l
  <2>3. /\ n.lineage.up = ClampDepth(url.up) /\ n.lineage.down = ClampDepth(url.down)
        /\ n.lineage.lens = url.lens /\ n.lineage.allDeps = (url.allDeps = "1")
    BY <1>2, <2>5, ClampedIsLineage
  <2>6. Restored(e.shown) = <<"inventory", url.resource, url.assetTab, url.q,
                              <<ClampDepth(url.up), ClampDepth(url.down), url.allDeps = "1", url.lens>>>>
    BY <2>1, LineageIsRestored
  <2>4. Shown(n) = <<"inventory", n.resource, n.tab, n.query,
                     <<n.lineage.up, n.lineage.down, n.lineage.allDeps, n.lineage.lens>>>>
    BY <1>5, <1>6, <2>2 DEF Shown
  <2> QED  BY <1>2, <1>3, <2>2, <2>3, <2>4, <2>6 DEF n
<1>7. CASE url.view = "inventory" /\ url.assetTab # "lineage"
  <2>1. /\ url.assetTab \in Tabs
        /\ e.shown = <<"inventory", url.resource, url.assetTab, url.q, Nothing>>
    BY <1>1, <1>7 DEF SaysShown
  <2>2. n.tab = url.assetTab /\ n.query = url.q
    BY <1>2, <1>5, <1>7, <2>1, ViewIsParsed
  <2>3. Shown(n) = <<"inventory", n.resource, n.tab, n.query, Nothing>>
    BY <1>5, <1>7, <2>2 DEF Shown
  <2>4. Restored(e.shown) = e.shown
    BY <2>1, OthersAreRestored
  <2> QED  BY <1>2, <1>3, <2>1, <2>2, <2>3, <2>4 DEF n
<1>8. CASE url.view = "runs"
  <2>1. /\ url.kind \in Kinds
        /\ e.shown = <<"runs", url.kind, url.selected, url.adapter # "0" /\ metricsAvailable>>
    BY <1>1, <1>8 DEF SaysShown
  <2>2. n.kind = url.kind
    BY <1>2, <2>1 DEF OrElse, Known, Kinds
  <2>3. n.execution = url.selected
    BY <1>2, <1>5, <1>8 DEF SelectedFor
  <2>4. n.adapter = (url.adapter # "0")
    BY <1>2, <1>5, <1>8 DEF ShowsAdapter
  <2>5. Shown(n) = <<"runs", n.kind, n.execution, n.adapter /\ metricsAvailable>>
    BY <1>5, <1>8 DEF Shown
  <2>6. e.shown[1] # "inventory"
    BY <2>1
  <2>7. Restored(e.shown) = e.shown
    BY <2>6, OthersAreRestored
  <2>8. Shown(n) = e.shown
    BY <2>1, <2>2, <2>3, <2>4, <2>5
  <2> QED  BY <1>3, <2>7, <2>8 DEF n
<1>9. CASE url.view = "timeline"
  <2>1. e.shown = <<"timeline", url.selected>>
    BY <1>1, <1>9 DEF SaysShown
  <2>2. n.bar = url.selected
    BY <1>2, <1>5, <1>9 DEF SelectedFor
  <2>3. Shown(n) = <<"timeline", n.bar>>
    BY <1>5, <1>9 DEF Shown
  <2>4. Restored(e.shown) = e.shown
    BY <2>1, OthersAreRestored
  <2> QED  BY <1>3, <2>1, <2>2, <2>3, <2>4 DEF n
<1>10. CASE url.view \notin {"inventory", "runs", "timeline"}
  <2>1. e.shown = <<url.view>>
    BY <1>1, <1>10 DEF SaysShown
  <2>2. Shown(n) = <<n.view>>
    BY <1>5, <1>10 DEF Shown
  <2>3. Restored(e.shown) = e.shown
    BY <1>10, <2>1, OthersAreRestored
  <2> QED  BY <1>3, <1>5, <1>10, <2>1, <2>2, <2>3 DEF n
<1> QED  BY <1>6, <1>7, <1>8, <1>9, <1>10

\* Pushing.
LEMMA PushedEntries ==
    ASSUME NEW entries, NEW metrics, AreEntries(entries, metrics), entries # <<>>,
           NEW e, IsEntry(e, metrics)
    PROVE  AreEntries(Pushed(entries, e), metrics) /\ Pushed(entries, e) # <<>>
<1>1. IsQueue(entries) /\ Len(entries) \in Nat /\ Len(entries) > 0
  BY QueueLength DEF AreEntries
<1>2. CASE Pushed(entries, e) = entries
  BY <1>2
<1>3. CASE Pushed(entries, e) = Append(entries, e)
  <2> DEFINE t == Append(entries, e)
  <2>1. /\ IsQueue(t) /\ Len(t) = Len(entries) + 1
        /\ \A i \in 1 .. Len(entries) : t[i] = entries[i]
        /\ t[Len(entries) + 1] = e
    BY <1>1, QueueAppend
  <2> HIDE DEF t
  <2>2. \A i \in 1 .. Len(t) : IsEntry(t[i], metrics)
    <3> TAKE i \in 1 .. Len(t)
    <3>1. CASE i = Len(entries) + 1
      BY <2>1, <3>1
    <3>2. CASE i # Len(entries) + 1
      <4>1. i \in 1 .. Len(entries)
        BY <1>1, <2>1, <3>2
      <4> QED  BY <2>1, <4>1 DEF AreEntries
    <3> QED  BY <3>1, <3>2
  <2>3. t # <<>>
    BY <1>1, <2>1, QueueLength
  <2> QED  BY <1>3, <2>1, <2>2, <2>3 DEF AreEntries, t
<1> QED  BY <1>2, <1>3 DEF Pushed

LEMMA FirstEntries ==
    ASSUME NEW entries, NEW metrics, AreEntries(entries, metrics), NEW at \in 1 .. Len(entries)
    PROVE  LET t == SubSeq(entries, 1, at)
           IN  AreEntries(t, metrics) /\ t # <<>>
<1> DEFINE t == SubSeq(entries, 1, at)
           S == {entries[i] : i \in DOMAIN entries}
<1>1. IsQueue(entries) /\ Len(entries) \in Nat
  BY QueueLength DEF AreEntries
<1>2. at \in Int /\ \A i \in 1 .. at : i \in 1 .. Len(entries) /\ entries[i] \in S
  <2>1. DOMAIN entries = 1 .. Len(entries)
    BY <1>1, LenProperties DEF IsQueue
  <2> QED  BY <1>1, <2>1
<1> HIDE DEF S
<1>3. /\ t \in Seq(S) /\ Len(t) = at
      /\ \A i \in 1 .. at : t[i] = entries[i]
  BY <1>1, <1>2, SubSeqProperties
<1> HIDE DEF t
<1>4. IsQueue(t) /\ t # <<>>
  <2>1. IsQueue(t)
    BY <1>3, QueueOf
  <2> QED  BY <1>1, <1>3, <2>1, QueueLength
<1> QED  BY <1>2, <1>3, <1>4 DEF AreEntries, t

LEMMA WriteKeepsUrl ==
    ASSUME UrlInv, NEW n, IsNavigation(n), NEW at \in 1 .. Len(history),
           Write(history, at, n), UNCHANGED metricsAvailable
    PROVE  /\ metricsAvailable' \in BOOLEAN /\ IsNavigation(nav')
           /\ AreEntries(history', metricsAvailable') /\ position' \in 1 .. Len(history')
           /\ nav' = SettledView(n)
<1> DEFINE settled == SettledView(n)
           former == SubSeq(history, 1, at)
           first == Push(former, n)
           pushed == Push(first, settled)
<1>1. metricsAvailable \in BOOLEAN /\ AreEntries(history, metricsAvailable)
  BY DEF UrlInv
<1>2. IsNavigation(settled)
  BY <1>1, SettledIsNavigation
<1>3. /\ IsEntry(Entry(BuildNextUrl(n), Shown(n)), metricsAvailable)
      /\ IsEntry(Entry(BuildNextUrl(settled), Shown(settled)), metricsAvailable)
  BY <1>1, <1>2, WrittenSaysShown
<1>4. AreEntries(former, metricsAvailable) /\ former # <<>>
  BY <1>1, FirstEntries
<1>5. AreEntries(first, metricsAvailable) /\ first # <<>>
  <2> HIDE DEF former
  <2> QED  BY <1>3, <1>4, PushedEntries DEF Push
<1>6. AreEntries(pushed, metricsAvailable) /\ pushed # <<>>
  <2> HIDE DEF first, settled
  <2> QED  BY <1>3, <1>5, PushedEntries DEF Push
<1>7. /\ nav' = settled
      /\ IF Len(pushed) = at THEN history' = history ELSE history' = pushed
      /\ position' = Len(pushed)
  BY DEF Write, Settles, Written
<1> HIDE DEF pushed, settled
<1>8. Len(pushed) \in Nat /\ Len(pushed) > 0 /\ Len(history) \in Nat
  BY <1>1, <1>6, QueueLength DEF AreEntries
<1> QED  BY <1>1, <1>2, <1>6, <1>7, <1>8 DEF settled

LEMMA ShowKeepsUrl ==
    ASSUME UrlInv, NEW n, IsNavigation(n), NEW at \in 1 .. Len(history),
           Write(history, at, n), UrlUnchanged
    PROVE  UrlInv'
<1>1. UNCHANGED preferences /\ UNCHANGED metricsAvailable
  BY DEF UrlUnchanged
<1>2. /\ metricsAvailable' \in BOOLEAN /\ IsNavigation(nav')
      /\ AreEntries(history', metricsAvailable') /\ position' \in 1 .. Len(history')
  BY <1>1, WriteKeepsUrl
<1> QED  BY <1>1, <1>2 DEF UrlInv

LEMMA TraversesShows ==
    ASSUME UrlInv, NEW to, Traverses(to)
    PROVE  UrlInv' /\ (history[to].shown # Nothing => Shown(nav') = Restored(history[to].shown))
<1> DEFINE n == ApplySearch(history[to].url)
<1>1. /\ to \in DOMAIN history /\ Write(history, to, n) /\ UrlUnchanged
  BY DEF Traverses
<1>2. /\ IsNavigation(nav) /\ metricsAvailable \in BOOLEAN
      /\ AreEntries(history, metricsAvailable)
  BY DEF UrlInv
<1>3. to \in 1 .. Len(history) /\ IsEntry(history[to], metricsAvailable)
  <2>1. DOMAIN history = 1 .. Len(history)
    BY <1>2, LenProperties DEF AreEntries, IsQueue
  <2> QED  BY <1>1, <1>2, <2>1 DEF AreEntries
<1>4. IsNavigation(n)
  BY <1>2, <1>3, ReadFromUrl DEF IsEntry
<1>5. history[to].shown # Nothing => Shown(SettledView(n)) = Restored(history[to].shown)
  BY <1>2, <1>3, ReadIsShown
<1> HIDE DEF n
<1>6. UrlInv' /\ nav' = SettledView(n)
  BY <1>1, <1>3, <1>4, ShowKeepsUrl, WriteKeepsUrl DEF UrlUnchanged
<1> QED  BY <1>5, <1>6

LEMMA ShowsNavigation ==
    ASSUME UrlInv, NEW n, IsNavigation(n), Show(n)
    PROVE  UrlInv'
<1>1. position \in 1 .. Len(history) /\ Write(history, position, n) /\ UrlUnchanged
  BY DEF UrlInv, Show
<1> QED  BY <1>1, ShowKeepsUrl

\* A navigation that keeps the lineage, and one that changes it.
LEMMA NavigationWith ==
    ASSUME IsNavigation(nav), NEW n, n = [f \in NavFields |-> n[f]],
           n.view \in Views, n.tab \in Tabs, n.kind \in Kinds, n.adapter \in BOOLEAN,
           \/ n.lineage = nav.lineage
           \/ /\ n.lineage = [f \in LineageFields |-> n.lineage[f]]
              /\ \A f \in {"up", "down", "allDeps", "lens"} : n.lineage[f] = nav.lineage[f]
           \/ IsLineage(n.lineage)
    PROVE  IsNavigation(n)
BY DEF IsNavigation, IsLineage

LEMMA OptionsKeepUrl ==
    ASSUME UrlInv, NEW view \in Views, NEW resource, NEW execution, NEW tab \in Tabs \cup {""},
           NavigateTo(view, resource, execution, tab)
    PROVE  UrlInv'
<1> DEFINE n == [nav EXCEPT
                     !.view = view,
                     !.resource = OrElse(resource, @),
                     !.tab = IF resource # "" \/ view = "inventory" THEN OrElse(tab, @) ELSE @,
                     !.lineage = IF resource = "" THEN @
                                 ELSE [@ EXCEPT !.root = resource, !.node = resource],
                     !.execution = OrElse(execution, @), !.bar = OrElse(execution, @)]
<1>1. IsNavigation(nav) /\ DOMAIN nav = NavFields
  BY DEF UrlInv, IsNavigation
<1>2. DOMAIN nav.lineage = LineageFields
  BY <1>1 DEF IsNavigation, IsLineage
<1>3. /\ n = [f \in NavFields |-> n[f]] /\ n.view = view /\ n.kind = nav.kind
      /\ n.adapter = nav.adapter
      /\ n.tab = nav.tab \/ n.tab = OrElse(tab, nav.tab)
      /\ \/ n.lineage = nav.lineage
         \/ n.lineage = [nav.lineage EXCEPT !.root = resource, !.node = resource]
  BY <1>1 DEF NavFields
<1>4. Show(n)
  BY DEF NavigateTo
<1> HIDE DEF n
<1>5. \/ n.lineage = nav.lineage
      \/ /\ n.lineage = [f \in LineageFields |-> n.lineage[f]]
         /\ \A f \in {"up", "down", "allDeps", "lens"} : n.lineage[f] = nav.lineage[f]
  BY <1>2, <1>3 DEF LineageFields
<1>6. n.tab \in Tabs
  BY <1>1, <1>3 DEF IsNavigation, OrElse
<1>7. IsNavigation(n)
  BY <1>1, <1>3, <1>5, <1>6, NavigationWith DEF IsNavigation
<1> QED  BY <1>4, <1>7, ShowsNavigation

LEMMA ControlsKeepUrl ==
    ASSUME UrlInv,
           \/ Mount \/ OpenView \/ SelectInExplorer \/ SearchInventory \/ SetKind \/ SelectRow
           \/ ToggleAdapter \/ SelectBar
    PROVE  UrlInv'
<1>1. IsNavigation(nav) /\ DOMAIN nav = NavFields
  BY DEF UrlInv, IsNavigation
<1>2. CASE Mount
  BY <1>1, <1>2, ShowsNavigation DEF Mount
<1>3. ASSUME NEW value PROVE /\ IsNavigation([nav EXCEPT !.resource = value])
                             /\ IsNavigation([nav EXCEPT !.query = value])
                             /\ IsNavigation([nav EXCEPT !.execution = value])
                             /\ IsNavigation([nav EXCEPT !.bar = value])
                             /\ value \in Views => IsNavigation([nav EXCEPT !.view = value])
                             /\ value \in Kinds => IsNavigation([nav EXCEPT !.kind = value])
  BY <1>1 DEF IsNavigation, NavFields
<1>4. CASE OpenView
  BY <1>3, <1>4, ShowsNavigation DEF OpenView
<1>5. CASE SelectInExplorer
  BY <1>3, <1>5, ShowsNavigation DEF SelectInExplorer
<1>6. CASE SearchInventory
  BY <1>3, <1>6, ShowsNavigation DEF SearchInventory
<1>7. CASE SetKind
  <2>1. {"all", "tests"} \subseteq Kinds
    BY DEF Kinds
  <2> QED  BY <1>3, <1>7, <2>1, ShowsNavigation DEF SetKind
<1>8. CASE SelectRow
  BY <1>3, <1>8, ShowsNavigation DEF SelectRow
<1>9. CASE ToggleAdapter
  <2>1. IsNavigation([nav EXCEPT !.adapter = ~@])
    BY <1>1 DEF IsNavigation, NavFields
  <2> QED  BY <1>9, <2>1, ShowsNavigation DEF ToggleAdapter
<1>10. CASE SelectBar
  BY <1>3, <1>10, ShowsNavigation DEF SelectBar
<1> QED  BY <1>2, <1>4, <1>5, <1>6, <1>7, <1>8, <1>9, <1>10

LEMMA LineageKeepsUrl ==
    ASSUME UrlInv, SelectInLineage \/ PickLineage \/ SetLineage
    PROVE  UrlInv'
<1>1. /\ IsNavigation(nav) /\ DOMAIN nav = NavFields /\ DOMAIN nav.lineage = LineageFields
      /\ IsLineage(nav.lineage)
  BY DEF UrlInv, IsNavigation, IsLineage
<1>2. "lineage" \in Tabs
  BY DEF Tabs
<1>3. CASE SelectInLineage
  <2>1. PICK r : Show([nav EXCEPT !.resource = r, !.tab = "lineage", !.lineage.node = r])
    BY <1>3 DEF SelectInLineage
  <2>2. IsNavigation([nav EXCEPT !.resource = r, !.tab = "lineage", !.lineage.node = r])
    BY <1>1, <1>2 DEF IsNavigation, IsLineage, NavFields, LineageFields
  <2> QED  BY <2>1, <2>2, ShowsNavigation
<1>4. CASE PickLineage
  <2>1. PICK r : Show([nav EXCEPT !.resource = r, !.tab = "lineage",
                                  !.lineage.root = r, !.lineage.node = r])
    BY <1>4 DEF PickLineage
  <2>2. IsNavigation([nav EXCEPT !.resource = r, !.tab = "lineage",
                                 !.lineage.root = r, !.lineage.node = r])
    BY <1>1, <1>2 DEF IsNavigation, IsLineage, NavFields, LineageFields
  <2> QED  BY <2>1, <2>2, ShowsNavigation
<1>5. CASE SetLineage
  <2>1. ASSUME NEW depth \in Depths,
               Show([nav EXCEPT !.lineage.up = depth, !.lineage.down = depth,
                                !.lineage.allDeps = FALSE])
        PROVE  UrlInv'
    <3>1. depth \in Nat
      BY ControlsOfLineage
    <3>2. IsNavigation([nav EXCEPT !.lineage.up = depth, !.lineage.down = depth,
                                   !.lineage.allDeps = FALSE])
      BY <1>1, <3>1 DEF IsNavigation, IsLineage, NavFields, LineageFields
    <3> QED  BY <2>1, <3>2, ShowsNavigation
  <2>2. ASSUME Show([nav EXCEPT !.lineage.allDeps = TRUE]) PROVE UrlInv'
    <3>1. IsNavigation([nav EXCEPT !.lineage.allDeps = TRUE])
      BY <1>1 DEF IsNavigation, IsLineage, NavFields, LineageFields
    <3> QED  BY <2>2, <3>1, ShowsNavigation
  <2>3. ASSUME NEW side \in Steppers, NEW by \in {-1, 1},
               IF by = 1 THEN nav.lineage[side] < 3 ELSE nav.lineage[side] > 1,
               Show([nav EXCEPT !.lineage[side] = @ + by])
        PROVE  UrlInv'
    <3>1. side \in {"up", "down"} /\ nav.lineage[side] \in Nat
      BY <1>1, ControlsOfLineage DEF IsLineage
    <3>2. nav.lineage[side] + by \in Nat
      BY <2>3, <3>1
    <3>3. IsNavigation([nav EXCEPT !.lineage[side] = @ + by])
      BY <1>1, <3>1, <3>2 DEF IsNavigation, IsLineage, NavFields, LineageFields
    <3> QED  BY <2>3, <3>3, ShowsNavigation
  <2>4. ASSUME NEW lens \in PickedLenses, Show([nav EXCEPT !.lineage.lens = lens]) PROVE UrlInv'
    <3>1. lens \in Lenses
      BY ControlsOfLineage
    <3>2. IsNavigation([nav EXCEPT !.lineage.lens = lens])
      BY <1>1, <3>1 DEF IsNavigation, IsLineage, NavFields, LineageFields
    <3> QED  BY <2>4, <3>2, ShowsNavigation
  <2> QED  BY <1>5, <2>1, <2>2, <2>3, <2>4 DEF SetLineage
<1> QED  BY <1>3, <1>4, <1>5

LEMMA PreferencesKeepUrl ==
    ASSUME UrlInv, ChangePreferences
    PROVE  UrlInv'
<1>1. PICK depth, lens, n :
          /\ depth \in Depths /\ lens \in PickedLenses
          /\ n = [nav EXCEPT !.lineage.up = depth, !.lineage.down = depth,
                             !.lineage.allDeps = FALSE, !.lineage.lens = lens]
          /\ preferences' = [up |-> depth, down |-> depth, allDeps |-> FALSE, lens |-> lens]
          /\ Write(history, position, n)
          /\ UNCHANGED metricsAvailable
  BY DEF ChangePreferences
<1>2. depth \in Nat /\ lens \in Lenses
  BY <1>1, ControlsOfLineage
<1>3. IsNavigation(n)
  <2>1. /\ IsNavigation(nav) /\ DOMAIN nav = NavFields /\ DOMAIN nav.lineage = LineageFields
    BY DEF UrlInv, IsNavigation, IsLineage
  <2> QED  BY <1>1, <1>2, <2>1 DEF IsNavigation, IsLineage, NavFields, LineageFields
<1>4. /\ metricsAvailable' \in BOOLEAN /\ IsNavigation(nav')
      /\ AreEntries(history', metricsAvailable') /\ position' \in 1 .. Len(history')
  BY <1>1, <1>3, WriteKeepsUrl DEF UrlInv
<1> QED  BY <1>1, <1>2, <1>4 DEF UrlInv

LEMMA UrlStepInv ==
    ASSUME UrlInv, UrlNext \/ UNCHANGED urlVars
    PROVE  UrlInv'
<1>1. /\ "inventory" \in Views /\ "timeline" \in Views /\ "runs" \in Views
      /\ "summary" \in Tabs /\ "lineage" \in Tabs
  BY DEF Views, Tabs
<1>2. CASE OpenResource
  BY <1>1, <1>2, OptionsKeepUrl DEF OpenResource
<1>3. CASE OpenLineage
  BY <1>1, <1>3, OptionsKeepUrl DEF OpenLineage
<1>4. CASE OpenInTimeline
  BY <1>1, <1>4, OptionsKeepUrl DEF OpenInTimeline
<1>5. CASE OpenRun
  BY <1>1, <1>5, OptionsKeepUrl DEF OpenRun
<1>6. CASE Back \/ Forward
  BY <1>6, TraversesShows DEF Back, Forward
<1>7. CASE UNCHANGED urlVars
  BY <1>7 DEF urlVars, UrlInv
<1> QED  BY <1>2, <1>3, <1>4, <1>5, <1>6, <1>7, ControlsKeepUrl, LineageKeepsUrl,
            PreferencesKeepUrl DEF UrlNext

LEMMA UrlStartInv ==
    ASSUME NEW page, page.metrics \in BOOLEAN,
           {page.url.up, page.url.down} \subseteq Nat \cup {NoDepth}, UrlStart(page)
    PROVE  UrlInv
<1> DEFINE url == page.url
           n == InitialNavigation(url)
<1>1. /\ metricsAvailable = page.metrics /\ preferences = BuiltIn /\ nav = n
      /\ history = <<Entry(url, Nothing)>> /\ position = 1
  BY DEF UrlStart
<1>2. /\ n = [f \in NavFields |-> n[f]]
      /\ n.view = OrElse(ParseView(url), "health") /\ n.tab = ParseAssetTab(url)
      /\ n.kind = OrElse(Known(url.kind, Kinds), "all")
      /\ n.adapter = (ParseView(url) = "runs" /\ ShowsAdapter(url))
      /\ n.lineage = LineageOf(url, BuiltIn)
  BY <1>1 DEF InitialNavigation, NavFields
<1> HIDE DEF n
<1>3. n.view \in Views
  BY <1>2, ViewIsParsed DEF OrElse, Views
<1>4. n.tab \in Tabs /\ n.kind \in Kinds
  BY <1>2, ViewIsParsed DEF OrElse, Known, Kinds
<1>5. n.adapter \in BOOLEAN
  BY <1>2
<1>6. IsLineage(n.lineage)
  BY <1>2, BuiltInIsLineage, LineageIsRead
<1>7. IsNavigation(nav)
  BY <1>1, <1>2, <1>3, <1>4, <1>5, <1>6 DEF IsNavigation
<1>8. AreEntries(history, metricsAvailable) /\ Len(history) = 1
  <2> DEFINE e == Entry(url, Nothing)
  <2>1. e.url = url /\ e.shown = Nothing
    BY DEF Entry
  <2>2. IsEntry(e, metricsAvailable)
    BY <2>1 DEF IsEntry
  <2> HIDE DEF e
  <2>3. history \in Seq({e}) /\ Len(history) = 1 /\ history[1] = e
    BY <1>1 DEF e
  <2>4. IsQueue(history)
    BY <2>3, QueueOf
  <2> QED  BY <2>2, <2>3, <2>4 DEF AreEntries
<1> QED  BY <1>1, <1>7, <1>8, BuiltInIsLineage DEF UrlInv

(* Back and Forward onto an entry that the page wrote show what the page showed when it wrote  *)
(* it, whatever was changed since, but for depths above 10, which come back as 10              *)
(* (workspace-url-sync.ts:163, 196, app-navigation.ts:177).                                    *)
THEOREM BackShowsWhatWasLeftAlways == Spec => BackShowsWhatWasLeft
<1> DEFINE Restores == \A to \in {position - 1, position + 1} :
                           LandsOn(to) => Shown(nav') = Restored(history[to].shown)
<1>1. Init => UrlInv
  <2> SUFFICES ASSUME Init PROVE UrlInv
    OBVIOUS
  <2>1. CASE scene = "navigation"
    <3>1. PICK page \in FirstPages : UrlStart(page)
      BY <2>1 DEF Init, StartNavigation
    <3> QED  BY <3>1, ControlsOfLineage, UrlStartInv
  <2>2. CASE scene # "navigation"
    <3>1. PICK page : UrlStart(page) /\ page.url = NoParameters /\ page.metrics = FALSE
      BY <2>2 DEF Init, IdleNavigation
    <3>2. NoParameters.up = NoDepth /\ NoParameters.down = NoDepth
      BY DEF NoParameters
    <3>4. page.metrics \in BOOLEAN /\ {page.url.up, page.url.down} \subseteq Nat \cup {NoDepth}
      BY <3>1, <3>2
    <3> QED  BY ONLY <3>1, <3>4, UrlStartInv
  <2> QED  BY <2>1, <2>2
<1>2. UrlInv /\ [Next]_investigationVars => UrlInv'
  <2> SUFFICES ASSUME UrlInv, [Next]_investigationVars PROVE UrlInv'
    OBVIOUS
  <2>1. UrlNext \/ UNCHANGED urlVars
    BY DEF Next, investigationVars
  <2> QED  BY <2>1, UrlStepInv
<1>3. UrlInv /\ [Next]_investigationVars => [Restores]_urlVars
  <2> SUFFICES ASSUME UrlInv, NEW to, LandsOn(to)
          PROVE  Shown(nav') = Restored(history[to].shown)
    OBVIOUS
  <2> QED  BY TraversesShows DEF LandsOn
<1> QED  BY <1>1, <1>2, <1>3, PTL DEF Spec, BackShowsWhatWasLeft

-----------------------------------------------------------------------------
(* Opening.  First the flags and the environment. *)
LEMMA LastIndex ==
    ASSUME NEW n \in Nat, NEW I \in SUBSET (1 .. n), I # {}
    PROVE  Max(I) \in I
<1> DEFINE down == {m \in Nat : n - m \in I}
<1>1. down # {}
  <2>1. PICK i \in I : TRUE
    OBVIOUS
  <2>2. n - i \in Nat /\ n - (n - i) = i
    OBVIOUS
  <2> QED  BY <2>1, <2>2
<1>2. PICK m \in down : \A k \in down : m <= k
  BY <1>1, SmallestNumber
<1>3. n - m \in I /\ \A i \in I : n - m >= i
  <2>1. n - m \in I
    BY <1>2
  <2>2. ASSUME NEW i \in I PROVE n - m >= i
    <3>1. i \in 1 .. n /\ n - i \in Nat /\ n - (n - i) = i
      OBVIOUS
    <3>2. n - i \in down /\ m \in Nat
      BY <1>2, <3>1
    <3>3. m <= n - i
      BY <1>2, <3>2
    <3> QED  BY <3>1, <3>2, <3>3
  <2> QED  BY <2>1, <2>2
<1> QED  BY <1>3 DEF Max

\* A flag that was not given has no value.
LEMMA NotGiven ==
    ASSUME NEW args, Len(args) \in Nat, DOMAIN args = 1 .. Len(args),
           NEW flag, \A i \in DOMAIN args : args[i].flag # flag
    PROVE  GivenValue(args, flag) = <<>>
BY DEF GivenValue, SelectLastInSeq

LEMMA GivenIsThere ==
    ASSUME NEW args, Len(args) \in Nat, DOMAIN args = 1 .. Len(args), NEW flag,
           \E i \in DOMAIN args : args[i].flag = flag
    PROVE  \E i \in DOMAIN args : args[i].flag = flag /\ GivenValue(args, flag) = args[i].value
<1> DEFINE I == {i \in 1 .. Len(args) : args[i].flag = flag}
<1>1. I # {} /\ I \in SUBSET (1 .. Len(args))
  OBVIOUS
<1>2. Max(I) \in I
  BY <1>1, LastIndex
<1>3. SelectLastInSeq(args, LAMBDA a : a.flag = flag) = Max(I)
  BY <1>1 DEF SelectLastInSeq
<1>4. Max(I) # 0
  BY <1>2
<1> HIDE DEF I
<1>5. GivenValue(args, flag) = args[Max(I)].value
  BY <1>3, <1>4 DEF GivenValue
<1> QED  BY <1>2, <1>5 DEF I

\* What whoever opens the target opens.
TargetGiven(args, env) == TargetOf(WebFlags(args), env)
WonSetting(args, env, s) == IF GivenValue(args, s) # <<>> THEN GivenValue(args, s) ELSE env[s]
OpenedAt(place, args, env) ==
    [kind |-> "place", place |-> place,
     client |-> [s \in SettingsOf(place.provider) |-> WonSetting(args, env, s)]]
AreSettings(args, env) ==
    /\ args \in Seq(ToSet(args)) /\ \A i \in DOMAIN args : args[i].value \in Texts
    /\ env \in [RemoteFlags \cup DirectoryVariables -> Texts]

LEMMA ProviderIsNamed ==
    ASSUME NEW text, NEW provider \in {"s3", "gcs"}, ParseTarget(text).provider = provider
    PROVE  IsPrefix(SchemeOf(provider), text)
<1>1. \A p, t : RemotePlace(p, t).provider \in {p, "none"}
  BY DEF RemotePlace, NoPlace
<1>2. LocalPlace(text).provider \in {"local", "none"}
  BY DEF LocalPlace, Directory, NoPlace
<1> QED  BY <1>1, <1>2 DEF ParseTarget

LEMMA KnownSettings == \A p : SettingsOf(p) \subseteq ClientFlags
BY DEF SettingsOf, ClientFlags

\* The same settings open the same place.
LEMMA SameSettings ==
    ASSUME NEW place, NEW settings, NEW args, NEW env,
           \A s \in ClientFlags : settings[s] = WonSetting(args, env, s),
           OpensAt(place, settings).kind = "place"
    PROVE  OpensAt(place, settings) = OpenedAt(place, args, env)
<1>1. place # NoPlace
  BY DEF OpensAt, Ends
<1>2. [s \in SettingsOf(place.provider) |-> settings[s]]
          = [s \in SettingsOf(place.provider) |-> WonSetting(args, env, s)]
  BY KnownSettings
<1> QED  BY <1>1, <1>2 DEF OpensAt, OpenedAt

LEMMA CliOpensGiven ==
    ASSUME NEW args, NEW env, AreSettings(args, env), OpensCli(args, env).kind = "place"
    PROVE  /\ Alias(args) = <<>> /\ TargetGiven(args, env) # <<>>
           /\ OpensCli(args, env) = OpenedAt(ParseTarget(TargetGiven(args, env)), args, env)
<1>1. Len(args) \in Nat /\ DOMAIN args = 1 .. Len(args)
  BY LenProperties DEF AreSettings
<1>2. /\ \A i \in DOMAIN args : args[i].flag = "target"
      /\ TargetOf(FlagsGiven(args), env) # <<>>
      /\ OpensCli(args, env) = OpensAt(ParseTarget(TargetOf(FlagsGiven(args), env)), env)
  BY DEF OpensCli, Ends
<1>3. Alias(args) = <<>>
  BY <1>1, <1>2, NotGiven DEF Alias
<1>4. TargetGiven(args, env) = TargetOf(FlagsGiven(args), env)
  BY <1>3 DEF TargetGiven, WebFlags
<1>5. ASSUME NEW s \in ClientFlags PROVE env[s] = WonSetting(args, env, s)
  <2>1. s # "target"
    BY DEF ClientFlags
  <2>2. GivenValue(args, s) = <<>>
    BY <1>1, <1>2, <2>1, NotGiven
  <2> QED  BY <2>2 DEF WonSetting
<1> QED  BY <1>2, <1>3, <1>4, <1>5, SameSettings

LEMMA McpOpensGiven ==
    ASSUME NEW args, NEW env, AreSettings(args, env), OpensMcp(args, env).kind = "place"
    PROVE  /\ Alias(args) = <<>> /\ TargetGiven(args, env) # <<>>
           /\ OpensMcp(args, env) = OpenedAt(ParseTarget(TargetGiven(args, env)), args, env)
<1> DEFINE flags == FlagsGiven(args)
<1>1. Len(args) \in Nat /\ DOMAIN args = 1 .. Len(args)
  BY LenProperties DEF AreSettings
<1>2. \A i : StopsAt(args[i]).kind # "place"
  BY DEF StopsAt, Ends
<1>3. /\ \A i \in DOMAIN args : args[i].flag \in RemoteFlags \cup CacheFlags
      /\ TargetOf(flags, env) # <<>>
      /\ OpensMcp(args, env) = OpensAt(ParseTarget(TargetOf(flags, env)), Overlay(env, flags))
  BY <1>2 DEF OpensMcp, Ends
<1>4. Alias(args) = <<>>
  <2>1. "alias" \notin RemoteFlags \cup CacheFlags
    BY DEF RemoteFlags, ClientFlags, CacheFlags
  <2> QED  BY <1>1, <1>3, <2>1, NotGiven DEF Alias
<1>5. TargetGiven(args, env) = TargetOf(flags, env)
  BY <1>4 DEF TargetGiven, WebFlags
<1>6. ASSUME NEW s \in ClientFlags PROVE Overlay(env, flags)[s] = WonSetting(args, env, s)
  BY DEF Overlay, FlagsGiven, RemoteFlags, WonSetting
<1> HIDE DEF flags
<1> QED  BY <1>3, <1>4, <1>5, <1>6, SameSettings

LEMMA WebOpensGiven ==
    ASSUME NEW args, NEW env, AreSettings(args, env), OpensWeb(args, env).kind = "place"
    PROVE  /\ GivenValue(args, "target") # <<>> => TargetGiven(args, env) = GivenValue(args, "target")
           /\ \E place : /\ OpensWeb(args, env) = OpenedAt(place, args, env)
                         /\ TargetGiven(args, env) # <<>> => place = ParseTarget(TargetGiven(args, env))
<1> DEFINE flags == WebFlags(args)
           seen == ApplyToEnv(flags, env)
<1>1. Len(args) \in Nat /\ DOMAIN args = 1 .. Len(args)
  BY LenProperties DEF AreSettings
<1>2. \A i : StopsAt(args[i]).kind # "place"
  BY DEF StopsAt, Ends
<1>3. ~BothTargets(args) /\ OpensWeb(args, env) = SeedFromEnvironment(seen)
  BY <1>2 DEF OpensWeb, Ends
<1>4. seen.target = TargetGiven(args, env)
  BY DEF AreSettings, ApplyToEnv, TargetGiven, TargetOf, RemoteFlags
<1>5. ASSUME NEW s \in ClientFlags PROVE seen[s] = WonSetting(args, env, s)
  <2>1. s \in RemoteFlags /\ s # "target" /\ s \in DOMAIN env
    BY DEF RemoteFlags, ClientFlags, AreSettings
  <2>2. flags[s] = GivenValue(args, s)
    BY <2>1 DEF WebFlags, FlagsGiven
  <2> QED  BY <2>1, <2>2 DEF ApplyToEnv, WonSetting
<1> HIDE DEF seen
<1>6. GivenValue(args, "target") # <<>> => TargetGiven(args, env) = GivenValue(args, "target")
  BY <1>3 DEF BothTargets, TargetGiven, TargetOf, WebFlags, FlagsGiven, RemoteFlags
<1>7. CASE seen.target # <<>>
  <2> DEFINE parsed == ParseTarget(seen.target)
  <2>1. parsed.provider \in {"s3", "gcs"} => ParseLocation(parsed.provider, seen.target) = parsed
    BY ProviderIsNamed DEF ParseLocation
  <2>2. OpensWeb(args, env) = OpensAt(parsed, seen)
    BY <1>3, <1>7, <2>1 DEF SeedFromEnvironment
  <2> HIDE DEF parsed
  <2>3. OpensWeb(args, env) = OpenedAt(parsed, args, env)
    BY <1>5, <2>2, SameSettings
  <2> QED  BY <1>4, <1>6, <2>3 DEF parsed
<1>8. CASE seen.target = <<>>
  <2>1. \E place : SeedFromEnvironment(seen) = OpensAt(place, seen)
    <3> DEFINE directories == <<seen.targetDir, seen.legacyDir, seen.legacyTarget>>
               first == SelectInSeq(directories, LAMBDA d : d # <<>>)
    <3>1. SeedFromEnvironment(seen) = IF first # 0
                                      THEN OpensAt(Directory(ExpandHome(directories[first])), seen)
                                      ELSE Ends("unbound")
      BY <1>8 DEF SeedFromEnvironment
    <3> HIDE DEF directories, first
    <3>2. SeedFromEnvironment(seen).kind = "place"
      BY <1>3
    <3>3. Ends("unbound").kind # "place"
      BY DEF Ends
    <3>4. SeedFromEnvironment(seen) = OpensAt(Directory(ExpandHome(directories[first])), seen)
      BY <3>1, <3>2, <3>3
    <3> QED  BY <3>4
  <2>2. PICK place : OpensWeb(args, env) = OpensAt(place, seen)
    BY <1>3, <2>1
  <2>3. OpensWeb(args, env) = OpenedAt(place, args, env)
    BY <1>5, <2>2, SameSettings
  <2> QED  BY <1>4, <1>6, <1>8, <2>3
<1> QED  BY <1>7, <1>8

LEMMA AgreeOn ==
    ASSUME AreSettings(opening.args, opening.env)
    PROVE  Agree({o \in {Opens(e, opening.args, opening.env) : e \in {"cli", "mcp", "web"}} :
                     o.kind = "place"})
<1> DEFINE args == opening.args
           env == opening.env
           all == {o \in {Opens(e, args, env) : e \in {"cli", "mcp", "web"}} : o.kind = "place"}
           target == TargetGiven(args, env)
           given == GivenValue(args, "target")
<1>0. all \subseteq {OpensCli(args, env), OpensMcp(args, env), OpensWeb(args, env)}
      /\ \A o \in all : o.kind = "place"
  BY DEF Opens
<1>1. ASSUME Alias(args) = <<>>, given # <<>> PROVE target = given
  BY <1>1 DEF TargetGiven, TargetOf, WebFlags, FlagsGiven, RemoteFlags
<1>2. ASSUME NEW o \in all
      PROVE  /\ given # <<>> => target = given
             /\ \E place : /\ o = OpenedAt(place, args, env)
                           /\ target # <<>> => place = ParseTarget(target)
  <2>1. CASE o = OpensCli(args, env)
    BY <1>0, <1>1, <2>1, CliOpensGiven
  <2>2. CASE o = OpensMcp(args, env)
    BY <1>0, <1>1, <2>2, McpOpensGiven
  <2>3. CASE o = OpensWeb(args, env)
    BY <1>0, <2>3, WebOpensGiven
  <2> QED  BY <1>0, <2>1, <2>2, <2>3
<1>3. ASSUME NEW o \in all, target = <<>> PROVE o = OpensWeb(args, env)
  BY <1>0, <1>3, CliOpensGiven, McpOpensGiven
<1>4. \A o, p \in all : o = p
  BY <1>2, <1>3
<1> HIDE DEF all
<1>5. Cardinality(all) <= 1
  <2>1. CASE all = {}
    BY <2>1, FS_EmptySet
  <2>2. CASE all # {}
    <3>1. PICK o \in all : TRUE
      BY <2>2
    <3>2. all = {o}
      BY <1>4, <3>1
    <3> QED  BY <3>2, FS_Singleton
  <2> QED  BY <2>1, <2>2
<1>6. ASSUME NEW o \in all, NEW s \in DOMAIN o.client
      PROVE  o.client[s] = WonSetting(args, env, s)
  BY <1>2 DEF OpenedAt
<1>7. ASSUME NEW o \in all, given # <<>> PROVE o.place = ParseTarget(given)
  BY <1>2, <1>7 DEF OpenedAt
<1> HIDE DEF target, given
<1> QED  BY <1>5, <1>6, <1>7 DEF Agree, WonSetting, all, given

\* Where a place is, as text.
LEMMA PathIsText ==
    ASSUME NEW text \in Texts
    PROVE  ResolvePath(text) \in Texts
<1> DEFINE first == IF text # <<>> /\ Head(text) = "/" THEN <<>> ELSE Cwd
           Enter(path, t) == CASE t \in {"/", "."} -> path
                               [] t = ".." -> SubSeq(path, 1, Len(path) - 1)
                               [] OTHER -> Append(path, t)
           Paths(f) == f = [n \in 0 .. Len(text) |-> IF n = 0 THEN first ELSE Enter(f[n - 1], text[n])]
           step == [n \in 1 .. Len(text) |-> [path \in Texts |-> Enter(path, text[n])]]
<1>1. Len(text) \in Nat /\ \A n \in 1 .. Len(text) : text[n] \in Tokens
  BY DEF Texts
<1>2. first \in Texts
  <2>1. "home" \in Tokens /\ "work" \in Tokens
    BY DEF Tokens
  <2>2. <<>> \in Texts /\ Cwd \in Texts
    BY <2>1 DEF Texts, Cwd
  <2> QED  BY <2>2
<1>3. \A path \in Texts : \A t \in Tokens : Enter(path, t) \in Texts
  <2> SUFFICES ASSUME NEW path \in Texts, NEW t \in Tokens PROVE Enter(path, t) \in Texts
    OBVIOUS
  <2>1. SubSeq(path, 1, Len(path) - 1) \in Texts /\ Append(path, t) \in Texts
    BY DEF Texts
  <2> QED  BY <2>1
<1>4. step \in [1 .. Len(text) -> [Texts -> Texts]]
  BY <1>1, <1>3
<1>5. \A n \in 1 .. Len(text) : \A path \in Texts : step[n][path] = Enter(path, text[n])
  OBVIOUS
<1> HIDE DEF step, first, Enter
<1>6. PICK f \in [0 .. Len(text) -> Texts] :
          f[0] = first /\ \A n \in 1 .. Len(text) : f[n] = step[n][f[n - 1]]
  <2> DEFINE N == Len(text)
  <2>1. N \in Nat /\ step \in [1 .. N -> [Texts -> Texts]]
    BY <1>1, <1>4
  <2> HIDE DEF N
  <2>2. \E f \in [0 .. N -> Texts] : f[0] = first /\ \A n \in 1 .. N : f[n] = step[n][f[n - 1]]
    <3>1. PICK T : T = Texts
      OBVIOUS
    <3>2. first \in T /\ step \in [1 .. N -> [T -> T]]
      BY <1>2, <2>1, <3>1
    <3>3. \E f \in [0 .. N -> T] : f[0] = first /\ \A n \in 1 .. N : f[n] = step[n][f[n - 1]]
      BY ONLY <2>1, <3>2, Iteration
    <3> QED  BY <3>1, <3>3
  <2> QED  BY <2>2 DEF N
<1>7. \A n \in 1 .. Len(text) : n - 1 \in 0 .. Len(text) /\ f[n - 1] \in Texts
  BY <1>1, <1>6
<1>8. Paths(f)
  BY <1>1, <1>5, <1>6, <1>7
<1>9. ASSUME NEW g, Paths(g) PROVE g = f
  <2> DEFINE same == {n \in 0 .. Len(text) : g[n] = f[n]}
  <2>1. 0 \in same
    BY <1>1, <1>6, <1>9
  <2>2. ASSUME NEW n \in 1 .. Len(text), n - 1 \in same PROVE n \in same
    <3>1. n \in 0 .. Len(text) /\ n # 0 /\ g[n - 1] = f[n - 1]
      BY <1>1, <2>2
    <3>2. g[n] = Enter(g[n - 1], text[n])
      BY <1>9, <3>1
    <3>3. f[n] = Enter(f[n - 1], text[n])
      BY <1>8, <3>1
    <3> QED  BY <3>1, <3>2, <3>3
  <2> HIDE DEF same
  <2>3. 0 .. Len(text) \subseteq same
    BY <1>1, <2>1, <2>2, BoundedInduction
  <2>4. \A n \in 0 .. Len(text) : g[n] = f[n]
    BY <2>3 DEF same
  <2> QED  BY <1>6, <1>9, <2>4
<1> HIDE DEF Paths
<1>10. (CHOOSE g : Paths(g)) = f
  BY <1>8, <1>9
<1>11. ResolvePath(text) = f[Len(text)]
  BY <1>10 DEF ResolvePath, Paths, first, Enter
<1> QED  BY <1>1, <1>6, <1>11

LEMMA DirectoryIsText ==
    ASSUME NEW text \in Texts
    PROVE  Directory(text).prefix \in Texts /\ Directory(text).provider = "local"
<1>1. \A names \in Texts : JoinNames(names) \in Texts
  <2> SUFFICES ASSUME NEW names \in Texts PROVE JoinNames(names) \in Texts
    OBVIOUS
  <2>1. Len(names) \in Nat /\ \A n \in 1 .. Len(names) : names[n] \in Tokens
    BY DEF Texts
  <2>0. ASSUME NEW n \in Nat, NEW i \in 1 .. 2 * n - 1, i % 2 # 0 PROVE (i + 1) \div 2 \in 1 .. n
    <3>1. i \in Int
      OBVIOUS
    <3> QED  BY <2>0, <3>1
  <2>2. ASSUME NEW i \in 1 .. 2 * Len(names) - 1, i % 2 # 0 PROVE (i + 1) \div 2 \in 1 .. Len(names)
    BY ONLY <2>0, <2>1, <2>2
  <2>3. \A i \in 1 .. 2 * Len(names) - 1 :
            (IF i % 2 = 0 THEN "/" ELSE names[(i + 1) \div 2]) \in Tokens
    <3>1. "/" \in Tokens
      BY DEF Tokens
    <3> QED  BY <2>1, <2>2, <3>1
  <2>4. 2 * Len(names) - 1 \in Int
    BY <2>1
  <2>5. CASE names = <<>>
    <3>1. 1 .. 2 * Len(names) - 1 = {} /\ 1 .. 0 = {}
      BY <2>5
    <3>2. JoinNames(names) \in [1 .. 0 -> Tokens]
      BY <2>3, <3>1 DEF JoinNames
    <3> QED  BY <3>2, SeqDef DEF Texts
  <2>6. CASE names # <<>>
    <3>1. 2 * Len(names) - 1 \in Nat
      BY <2>1, <2>6 DEF Texts
    <3>2. JoinNames(names) \in [1 .. 2 * Len(names) - 1 -> Tokens]
      BY <2>3 DEF JoinNames
    <3> QED  BY <3>1, <3>2, SeqDef DEF Texts
  <2> QED  BY <2>5, <2>6
<1> QED  BY <1>1, PathIsText DEF Directory

IsPlace(place) ==
    /\ place.prefix \in Texts /\ place.bucket \in Texts /\ place.provider \in {"s3", "gcs", "local"}

LEMMA PlacesAreText ==
    ASSUME NEW text \in Texts
    PROVE  /\ ParseTarget(text) # NoPlace => IsPlace(ParseTarget(text))
           /\ Directory(text) # NoPlace => IsPlace(Directory(text))
<1>1. Directory(text) # NoPlace => IsPlace(Directory(text))
  BY DirectoryIsText DEF Directory, IsPlace, Texts
<1>2. LocalPlace(text) # NoPlace => IsPlace(LocalPlace(text))
  BY <1>1 DEF LocalPlace
<1>3. ASSUME NEW n, NEW m \in Int, NEW t, t = SubSeq(text, m, Len(text)), m >= 1 PROVE t \in Texts
  BY <1>3 DEF Texts
<1>4. ASSUME NEW t \in Texts PROVE NormalizePrefix(t) \in Texts
  <2>1. CASE NamesAt(t) = {}
    BY <2>1 DEF NormalizePrefix, Texts
  <2>2. CASE NamesAt(t) # {}
    <3> DEFINE I == NamesAt(t)
    <3>1. I \in SUBSET (1 .. Len(t)) /\ I \in SUBSET Nat /\ Len(t) \in Nat
      BY DEF NamesAt, Texts
    <3>2. Max(I) \in I
      BY <2>2, <3>1, LastIndex
    <3>3. Min(I) \in I
      <4>1. PICK i \in I : \A j \in I : i <= j
        BY <2>2, <3>1, SmallestNumber
      <4> QED  BY <4>1 DEF Min
    <3>4. Min(I) \in 1 .. Len(t) /\ Max(I) \in 1 .. Len(t)
      BY <3>1, <3>2, <3>3
    <3>5. NormalizePrefix(t) = SubSeq(t, Min(I), Max(I))
      BY <2>2 DEF NormalizePrefix
    <3> HIDE DEF I
    <3>6. SubSeq(t, Min(I), Max(I)) \in Seq(Tokens)
      BY <3>4 DEF Texts
    <3> QED  BY <3>5, <3>6 DEF Texts
  <2> QED  BY <2>1, <2>2
<1>5. ASSUME NEW provider \in {"s3", "gcs"}, NEW t \in Texts, RemotePlace(provider, t) # NoPlace
      PROVE  IsPlace(RemotePlace(provider, t))
  <2> DEFINE slash == SelectInSeq(t, LAMBDA x : x = "/")
             bucket == IF slash = 0 THEN t ELSE SubSeq(t, 1, slash - 1)
             prefix == IF slash = 0 THEN <<>> ELSE SubSeq(t, slash + 1, Len(t))
  <2>1. slash \in 0 .. Len(t)
    <3> DEFINE I == {i \in 1 .. Len(t) : t[i] = "/"}
    <3>1. slash = IF I # {} THEN Min(I) ELSE 0
      BY DEF SelectInSeq
    <3>2. I \in SUBSET Nat /\ Len(t) \in Nat
      BY DEF Texts
    <3>3. I # {} => Min(I) \in I
      <4> SUFFICES ASSUME I # {} PROVE Min(I) \in I
        OBVIOUS
      <4>1. PICK i \in I : \A j \in I : i <= j
        BY <3>2, SmallestNumber
      <4> QED  BY <4>1 DEF Min
    <3> QED  BY <3>1, <3>2, <3>3
  <2> HIDE DEF slash
  <2>2. prefix \in Texts /\ bucket \in Texts
    BY <2>1 DEF Texts
  <2>3. NormalizePrefix(prefix) \in Texts
    BY <1>4, <2>2
  <2>4. RemotePlace(provider, t) = [provider |-> provider, bucket |-> bucket,
                                    prefix |-> NormalizePrefix(prefix)]
    BY <1>5 DEF RemotePlace, slash
  <2> HIDE DEF prefix, bucket
  <2> QED  BY <2>2, <2>3, <2>4 DEF IsPlace
<1>6. \A p \in {"s3", "gcs"} : SubSeq(text, Len(SchemeOf(p)) + 1, Len(text)) \in Texts
  <2>1. \A p : Len(SchemeOf(p)) = 3
    <3>1. Len(<<"s3:", "/", "/">>) = 3 /\ Len(<<"gs:", "/", "/">>) = 3
      OBVIOUS
    <3> QED  BY <3>1 DEF SchemeOf
  <2> QED  BY <2>1 DEF Texts
<1>7. ParseTarget(text) # NoPlace => IsPlace(ParseTarget(text))
  BY <1>2, <1>5, <1>6 DEF ParseTarget
<1> QED  BY <1>1, <1>7

\* Whatever opens, opens a place of the target it was given.
LEMMA ValuesAreTexts ==
    ASSUME NEW args, NEW env, AreSettings(args, env)
    PROVE  /\ \A flag : GivenValue(args, flag) \in Texts
           /\ \A v \in RemoteFlags \cup DirectoryVariables : env[v] \in Texts
           /\ TargetGiven(args, env) \in Texts
<1>1. /\ Len(args) \in Nat /\ DOMAIN args = 1 .. Len(args)
      /\ \A i \in DOMAIN args : args[i].value \in Texts
  BY LenProperties DEF AreSettings
<1>2. <<>> \in Texts
  BY DEF Texts
<1>3. \A flag : GivenValue(args, flag) \in Texts
  BY <1>1, <1>2, NotGiven, GivenIsThere
<1>4. \A v \in RemoteFlags \cup DirectoryVariables : env[v] \in Texts
  BY DEF AreSettings
<1>5. WebFlags(args).target \in Texts /\ env.target \in Texts
  BY <1>3, <1>4 DEF WebFlags, FlagsGiven, RemoteFlags, Alias
<1> QED  BY <1>3, <1>4, <1>5 DEF TargetGiven, TargetOf

LEMMA OpensAtText ==
    ASSUME NEW args, NEW env, AreSettings(args, env), NEW entry \in {"cli", "mcp", "web"},
           NEW o, o = Opens(entry, args, env)
    PROVE  /\ o.kind = "place" => o.place # NoPlace /\ IsPlace(o.place)
           /\ o.kind # "place" => o.place = NoPlace
<1>1. \A k : Ends(k).place = NoPlace
  BY DEF Ends
<1>2. \A a : StopsAt(a).place = NoPlace
  BY <1>1 DEF StopsAt
<1>3. ASSUME NEW place, NEW settings, NEW r, r = OpensAt(place, settings)
      PROVE  /\ r.place = place
             /\ r.kind = "place" <=> place # NoPlace
             /\ r.kind # "place" => r.place = NoPlace
  BY <1>3 DEF OpensAt, Ends
<1>4. ASSUME NEW r, r = SeedFromEnvironment(ApplyToEnv(WebFlags(args), env))
      PROVE  /\ r.kind = "place" => r.place # NoPlace /\ IsPlace(r.place)
             /\ r.kind # "place" => r.place = NoPlace
  <2> DEFINE seen == ApplyToEnv(WebFlags(args), env)
  <2>1. /\ seen.target = TargetGiven(args, env)
        /\ \A v \in DirectoryVariables : seen[v] = env[v]
    BY DEF AreSettings, ApplyToEnv, TargetGiven, TargetOf, RemoteFlags, ClientFlags, DirectoryVariables
  <2>2. seen.target \in Texts /\ \A v \in DirectoryVariables : seen[v] \in Texts
    BY <2>1, ValuesAreTexts
  <2> HIDE DEF seen
  <2>3. CASE seen.target # <<>>
    <3> DEFINE parsed == ParseTarget(seen.target)
    <3>1. parsed.provider \in {"s3", "gcs"} => ParseLocation(parsed.provider, seen.target) = parsed
      BY ProviderIsNamed DEF ParseLocation
    <3>2. r = OpensAt(parsed, seen)
      BY <1>4, <2>3, <3>1 DEF SeedFromEnvironment, seen
    <3>3. parsed # NoPlace => IsPlace(parsed)
      BY <2>2, PlacesAreText
    <3> HIDE DEF parsed
    <3> QED  BY <1>3, <3>2, <3>3
  <2>4. CASE seen.target = <<>>
    <3> DEFINE directories == <<seen.targetDir, seen.legacyDir, seen.legacyTarget>>
               first == SelectInSeq(directories, LAMBDA d : d # <<>>)
    <3>1. r = IF first # 0 THEN OpensAt(Directory(ExpandHome(directories[first])), seen)
              ELSE Ends("unbound")
      BY <1>4, <2>4 DEF SeedFromEnvironment, seen
    <3>2. first \in 0 .. 3
      <4> DEFINE I == {i \in 1 .. 3 : directories[i] # <<>>}
      <4>1. Len(directories) = 3
        OBVIOUS
      <4>2. first = IF I # {} THEN Min(I) ELSE 0
        BY <4>1 DEF SelectInSeq
      <4>3. I \in SUBSET Nat
        OBVIOUS
      <4>4. I # {} => Min(I) \in I
        <5> SUFFICES ASSUME I # {} PROVE Min(I) \in I
          OBVIOUS
        <5>1. PICK i \in I : \A j \in I : i <= j
          BY <4>3, SmallestNumber
        <5> QED  BY <5>1 DEF Min
      <4> HIDE DEF first
      <4> QED  BY <4>2, <4>4
    <3>3. \A i \in 1 .. 3 : directories[i] \in Texts
      BY <2>2 DEF DirectoryVariables
    <3> HIDE DEF directories, first
    <3>4. CASE first = 0
      BY <1>1, <3>1, <3>4 DEF Ends
    <3>5. CASE first # 0
      <4> DEFINE text == ExpandHome(directories[first])
      <4>1. directories[first] \in Texts
        BY <3>2, <3>3, <3>5
      <4>2. text \in Texts
        <5> DEFINE d == directories[first]
        <5>1. d # <<>> => Home \o Tail(d) \in Texts
          <6>0. "home" \in Tokens /\ "/" \in Tokens
            BY DEF Tokens
          <6>1. Home \in Seq(Tokens)
            BY <6>0 DEF Home
          <6>2. d # <<>> => Tail(d) \in Seq(Tokens)
            BY <4>1 DEF Texts
          <6> QED  BY <6>1, <6>2 DEF Texts
        <5> HIDE DEF d
        <5>2. StartsWith(d, {"~"}) => d # <<>>
          BY DEF StartsWith
        <5>3. ExpandHome(d) \in {d, Home \o Tail(d)} /\ (ExpandHome(d) # d => d # <<>>)
          BY <5>2 DEF ExpandHome
        <5>4. ExpandHome(d) \in Texts
          BY <4>1, <5>1, <5>3 DEF d
        <5> QED  BY <5>4 DEF d
      <4>3. r = OpensAt(Directory(text), seen)
        BY <3>1, <3>5
      <4>4. Directory(text) # NoPlace => IsPlace(Directory(text))
        BY <4>2, PlacesAreText
      <4> HIDE DEF text
      <4> QED  BY <1>3, <4>3, <4>4
    <3> QED  BY <3>4, <3>5
  <2> QED  BY <2>3, <2>4
<1>5. TargetOf(FlagsGiven(args), env) \in Texts
  BY ValuesAreTexts DEF TargetOf, FlagsGiven, RemoteFlags
<1>6. ParseTarget(TargetOf(FlagsGiven(args), env)) # NoPlace
          => IsPlace(ParseTarget(TargetOf(FlagsGiven(args), env)))
  BY <1>5, PlacesAreText
<1>7. CASE entry = "cli"
  <2>1. \/ o = Ends("rejected")
        \/ o = OpensAt(ParseTarget(TargetOf(FlagsGiven(args), env)), env)
    BY <1>7 DEF Opens, OpensCli
  <2> QED  BY <1>1, <1>3, <1>6, <2>1 DEF Ends
<1>8. CASE entry = "mcp"
  <2>1. \/ \E a : o = StopsAt(a)
        \/ \E k \in {"rejected", "unbound"} : o = Ends(k)
        \/ o = OpensAt(ParseTarget(TargetOf(FlagsGiven(args), env)), Overlay(env, FlagsGiven(args)))
    BY <1>8 DEF Opens, OpensMcp
  <2> QED  BY <1>1, <1>2, <1>3, <1>6, <2>1 DEF Ends, StopsAt
<1>9. CASE entry = "web"
  <2>1. \/ \E a : o = StopsAt(a)
        \/ o = Ends("rejected")
        \/ o = SeedFromEnvironment(ApplyToEnv(WebFlags(args), env))
    BY <1>9 DEF Opens, OpensWeb
  <2> QED  BY <1>1, <1>2, <1>4, <2>1 DEF Ends, StopsAt
<1> QED  BY <1>7, <1>8, <1>9

\* The keys of a place.
FileNames == ToSet(ArtifactFiles)
ArtifactAt(place, f) == Object(place, <<f>>)

LEMMA FilesNamed ==
    /\ FileNames = {"manifest.json", "run_results.json", "catalog.json", "sources.json"}
    /\ RequiredFiles \subseteq FileNames /\ FileNames \subseteq Tokens /\ "/" \in Tokens
    /\ Len(ArtifactFiles) = 4
    /\ \A i \in 1 .. 4 : ArtifactFiles[i] \in FileNames
    /\ FileNames = {ArtifactFiles[i] : i \in 1 .. 4}
    /\ \A i, j \in 1 .. 4 : ArtifactFiles[i] = ArtifactFiles[j] => i = j
<1>1. Len(ArtifactFiles) = 4 /\ DOMAIN ArtifactFiles = 1 .. 4
  BY DEF ArtifactFiles
<1>2. FileNames = {ArtifactFiles[i] : i \in 1 .. 4}
  BY <1>1 DEF FileNames, ToSet
<1>3. FileNames = {"manifest.json", "run_results.json", "catalog.json", "sources.json"}
  BY <1>2 DEF ArtifactFiles
<1>4. FileNames \subseteq Tokens /\ "/" \in Tokens
  BY DEF FileNames, Tokens
<1>5. \A i, j \in 1 .. 4 : ArtifactFiles[i] = ArtifactFiles[j] => i = j
  BY DEF ArtifactFiles
<1> QED  BY <1>1, <1>2, <1>3, <1>4, <1>5 DEF RequiredFiles

\* A text that does not start with a slash is left as it is.
LEMMA NothingToStrip ==
    ASSUME NEW text \in Texts, text # <<>> => text[1] # "/"
    PROVE  StripSlashes(text) = text
<1>1. CASE text = <<>>
  BY <1>1 DEF StripSlashes, NamesAt
<1>2. CASE text # <<>>
  <2>1. 1 \in NamesAt(text) /\ \A i \in NamesAt(text) : 1 <= i
    BY <1>2 DEF NamesAt, Texts
  <2>2. NamesAt(text) \in SUBSET Nat
    BY DEF NamesAt, Texts
  <2>3. Min(NamesAt(text)) = 1
    BY <2>1, <2>2 DEF Min
  <2>4. StripSlashes(text) = SubSeq(text, 1, Len(text))
    BY <2>1, <2>3 DEF StripSlashes
  <2> QED  BY <2>4 DEF Texts
<1> QED  BY <1>1, <1>2

LEMMA KeyOfFile ==
    ASSUME NEW place, IsPlace(place), NEW f \in FileNames, NEW k, k = JoinKey(place.prefix, <<f>>)
    PROVE  /\ k \in Texts
           /\ place.prefix = <<>> => k = <<f>>
           /\ place.prefix # <<>> =>
                  /\ k = place.prefix \o <<"/">> \o <<f>>
                  /\ Len(k) = Len(place.prefix) + 2
           /\ ArtifactAt(place, f) = <<place.provider, place.bucket, k>>
           /\ ArtifactAt(place, f) \in Objects
<1>1. f # "/" /\ f \in Tokens /\ "/" \in Tokens
  BY FilesNamed
<1>2. <<f>> \in Texts /\ <<f>>[1] = f
  BY <1>1 DEF Texts
<1>3. StripSlashes(<<f>>) = <<f>>
  BY <1>1, <1>2, NothingToStrip
<1>4. place.prefix \in Seq(Tokens)
  BY DEF IsPlace, Texts
<1>5. k = IF place.prefix = <<>> THEN <<f>> ELSE place.prefix \o <<"/">> \o <<f>>
  BY <1>3 DEF JoinKey
<1>6. /\ place.prefix \o <<"/">> \o <<f>> \in Seq(Tokens)
      /\ Len(place.prefix \o <<"/">> \o <<f>>) = Len(place.prefix) + 2
  BY <1>1, <1>4
<1>7. k \in Texts
  BY <1>2, <1>5, <1>6 DEF Texts
<1>8. ArtifactAt(place, f) = <<place.provider, place.bucket, k>>
  BY DEF ArtifactAt, Object
<1>9. <<place.provider, place.bucket, k>> \in Objects
  BY <1>7 DEF Objects, IsPlace
<1> QED  BY <1>5, <1>6, <1>7, <1>8, <1>9

\* A key of the place whose name ends in the file, directly below it, is that of the file.
LEMMA DirectKey ==
    ASSUME NEW place, IsPlace(place), NEW f \in FileNames, NEW k \in Texts
    PROVE  (/\ InPlace(place, k) /\ Last(k) = f
            /\ Len(k) = IF place.prefix = <<>> THEN 1 ELSE Len(place.prefix) + 2)
           <=> k = JoinKey(place.prefix, <<f>>)
<1> DEFINE p == place.prefix
           head == p \o <<"/">>
<1>0. f \in Tokens /\ "/" \in Tokens
  BY FilesNamed
<1>1. p \in Seq(Tokens) /\ k \in Seq(Tokens)
  BY DEF IsPlace, Texts
<1>2. /\ p = <<>> => JoinKey(p, <<f>>) = <<f>>
      /\ p # <<>> => JoinKey(p, <<f>>) = p \o <<"/">> \o <<f>>
  BY KeyOfFile
<1> HIDE DEF p
<1>3. CASE p = <<>>
  <2>1. (Last(k) = f /\ Len(k) = 1) <=> k = <<f>>
    BY <1>1 DEF Last
  <2> QED  BY <1>2, <1>3, <2>1 DEF InPlace, p
<1>4. CASE p # <<>>
  <2>1. head \in Seq(Tokens) /\ Len(head) = Len(p) + 1 /\ Len(p) \in Nat
    BY <1>0, <1>1
  <2>2. InPlace(place, k) <=> Len(head) <= Len(k) /\ SubSeq(head, 1, Len(head)) = SubSeq(k, 1, Len(head))
    BY <1>4 DEF InPlace, IsPrefix, p
  <2> HIDE DEF head
  <2>3. ASSUME InPlace(place, k), Last(k) = f, Len(k) = Len(p) + 2
        PROVE  k = head \o <<f>>
    <3>1. \A i \in 1 .. Len(head) : SubSeq(head, 1, Len(head))[i] = head[i]
      BY <2>1
    <3>2. \A i \in 1 .. Len(head) : SubSeq(k, 1, Len(head))[i] = k[i]
      BY <1>1, <2>1, <2>3
    <3>3. \A i \in 1 .. Len(head) : k[i] = head[i]
      BY <2>2, <2>3, <3>1, <3>2
    <3>4. k[Len(head) + 1] = f /\ Len(k) = Len(head) + 1
      BY <2>1, <2>3 DEF Last
    <3> QED  BY <1>0, <1>1, <2>1, <3>3, <3>4
  <2>4. ASSUME k = head \o <<f>> PROVE InPlace(place, k) /\ Last(k) = f /\ Len(k) = Len(p) + 2
    <3>1. Len(k) = Len(head) + 1 /\ k[Len(head) + 1] = f
      BY <1>0, <1>1, <2>1, <2>4
    <3>2. SubSeq(k, 1, Len(head)) = SubSeq(head, 1, Len(head))
      BY <1>0, <1>1, <2>1, <2>4
    <3> QED  BY <2>1, <2>2, <3>1, <3>2 DEF Last
  <2> QED  BY <1>2, <1>4, <2>3, <2>4 DEF head, p
<1> QED  BY <1>3, <1>4

\* What is stored directly at the place.
LEMMA DirectFiles ==
    ASSUME NEW place, IsPlace(place), DOMAIN stored \subseteq Objects
    PROVE  Direct(place) = {f \in FileNames : ArtifactAt(place, f) \in DOMAIN stored}
<1>1. ASSUME NEW f \in FileNames, NEW o \in DOMAIN stored, o[1] = place.provider,
             o[2] = place.bucket, Last(o[3]) = f, InPlace(place, o[3]),
             Len(o[3]) = IF place.prefix = <<>> THEN 1 ELSE Len(place.prefix) + 2
      PROVE  ArtifactAt(place, f) \in DOMAIN stored
  <2>1. o = <<o[1], o[2], o[3]>> /\ o[3] \in Texts
    BY DEF Objects
  <2>2. o[3] = JoinKey(place.prefix, <<f>>)
    BY <1>1, <2>1, DirectKey
  <2> QED  BY <1>1, <2>1, <2>2, KeyOfFile
<1>2. ASSUME NEW f \in FileNames, ArtifactAt(place, f) \in DOMAIN stored
      PROVE  f \in Direct(place)
  <2> DEFINE k == JoinKey(place.prefix, <<f>>)
  <2>1. ArtifactAt(place, f) = <<place.provider, place.bucket, k>> /\ k \in Texts
    BY KeyOfFile
  <2> HIDE DEF k
  <2>2. InPlace(place, k) /\ Last(k) = f /\ Len(k) = IF place.prefix = <<>> THEN 1 ELSE Len(place.prefix) + 2
    BY <2>1, DirectKey DEF k
  <2>3. /\ <<place.provider, place.bucket, k>>[1] = place.provider
        /\ <<place.provider, place.bucket, k>>[2] = place.bucket
        /\ <<place.provider, place.bucket, k>>[3] = k
    OBVIOUS
  <2> QED  BY <1>2, <2>1, <2>2, <2>3 DEF Direct, FileNames
<1>3. Direct(place) \subseteq FileNames
  BY DEF Direct, FileNames
<1> QED  BY <1>1, <1>2, <1>3 DEF Direct, FileNames

\* What is listed below a place without doubled slashes.
LEMMA ListedName ==
    ASSUME NEW place, IsPlace(place), NEW k \in Texts,
           place.prefix = <<>> \/ IsStrictPrefix(place.prefix \o <<"/">>, k),
           \A i \in DOMAIN k : ~(k[i] = "/" /\ (i = 1 \/ k[i - 1] = "/")),
           NEW r, r = RelativeKey(place, k)
    PROVE  /\ r \in Texts /\ (r # <<>> => r[1] # "/")
           /\ \A f \in FileNames : r = <<f>> => k = JoinKey(place.prefix, <<f>>)
<1> DEFINE p == place.prefix
           head == p \o <<"/">>
<1>0. "/" \in Tokens /\ FileNames \subseteq Tokens
  BY FilesNamed
<1>1. p \in Seq(Tokens) /\ k \in Seq(Tokens)
  BY DEF IsPlace, Texts
<1>2. \A f \in FileNames : /\ p = <<>> => JoinKey(p, <<f>>) = <<f>>
                           /\ p # <<>> => JoinKey(p, <<f>>) = head \o <<f>>
  BY KeyOfFile
<1> HIDE DEF p, head
<1>3. CASE p = <<>>
  <2>1. k # <<>> => k[1] # "/"
    BY <1>1
  <2>2. r = k
    BY <1>3, <2>1, NothingToStrip DEF RelativeKey, p
  <2> QED  BY <1>2, <1>3, <2>1, <2>2 DEF p
<1>4. CASE p # <<>>
  <2>1. /\ head \in Seq(Tokens) /\ Len(head) = Len(p) + 1 /\ Len(p) \in Nat
        /\ head[Len(head)] = "/"
    BY <1>0, <1>1 DEF head
  <2>2. /\ Len(head) <= Len(k) /\ SubSeq(head, 1, Len(head)) = SubSeq(k, 1, Len(head))
        /\ head # k
    BY <1>4 DEF IsStrictPrefix, IsPrefix, p, head
  <2>3. r = SubSeq(k, Len(head) + 1, Len(k))
    <3>1. Len(p) + 2 = Len(head) + 1
      BY <2>1
    <3>2. r = SubSeq(k, Len(p) + 2, Len(k))
      BY <1>4 DEF RelativeKey, p
    <3> QED  BY <3>1, <3>2
  <2>4. \A i \in 1 .. Len(head) : k[i] = head[i]
    <3>1. \A i \in 1 .. Len(head) : SubSeq(head, 1, Len(head))[i] = head[i]
      BY <2>1
    <3>2. \A i \in 1 .. Len(head) : SubSeq(k, 1, Len(head))[i] = k[i]
      BY <1>1, <2>1, <2>2
    <3> QED  BY <2>2, <3>1, <3>2
  <2>5. Len(k) > Len(head)
    <3> SUFFICES ASSUME Len(k) = Len(head) PROVE FALSE
      BY <1>1, <2>1, <2>2
    <3>1. k = head
      BY <1>1, <2>1, <2>4
    <3> QED  BY <2>2, <3>1
  <2>6. r \in Seq(Tokens) /\ Len(r) = Len(k) - Len(head) /\ Len(r) > 0
        /\ \A i \in 1 .. Len(r) : r[i] = k[Len(head) + i]
    BY <1>1, <2>1, <2>3, <2>5
  <2>7. k[Len(head) + 1] # "/"
    <3>1. Len(head) + 1 \in DOMAIN k /\ (Len(head) + 1) - 1 = Len(head) /\ Len(head) \in 1 .. Len(head)
      BY <1>1, <2>1, <2>5
    <3>2. k[Len(head)] = "/"
      BY <2>1, <2>4, <3>1
    <3> QED  BY <3>1, <3>2
  <2>8. r[1] # "/"
    BY <2>6, <2>7
  <2>9. ASSUME NEW f \in FileNames, r = <<f>> PROVE k = head \o <<f>>
    <3>1. Len(r) = 1 /\ r[1] = f
      BY <2>9
    <3>2. Len(k) = Len(head) + 1 /\ k[Len(head) + 1] = f
      <4>1. Len(k) \in Nat /\ Len(head) \in Nat
        BY <1>1, <2>1
      <4>2. Len(k) = Len(head) + 1
        <5>1. Len(r) = Len(k) - Len(head)
          BY <2>6
        <5>2. 1 = Len(k) - Len(head)
          BY <3>1, <5>1
        <5> QED  BY ONLY <4>1, <5>2
      <4>3. r[1] = k[Len(head) + 1]
        BY <2>6, <3>1
      <4> QED  BY <3>1, <4>2, <4>3
    <3> QED  BY <1>0, <1>1, <2>1, <2>4, <3>2
  <2> QED  BY <1>2, <1>4, <2>6, <2>8, <2>9 DEF Texts, p
<1> QED  BY <1>3, <1>4

\* What a session finds, where no key has a doubled slash.
DiscoveredRight(place, discovery) ==
    LET here == {f \in FileNames : ArtifactAt(place, f) \in DOMAIN stored}
    IN /\ {JoinKey(place.prefix, r) : r \in discovery.relatives}
              = IF RequiredFiles \subseteq here THEN {ArtifactAt(place, f)[3] : f \in here} ELSE {}
       /\ discovery.missing = RequiredFiles \ here

LEMMA SessionFinds ==
    ASSUME NEW place, IsPlace(place), DOMAIN stored \subseteq Objects, ~HasOddKeys(place)
    PROVE  DiscoveredRight(place, DiscoverPlace(place))
<1> DEFINE here == {f \in FileNames : ArtifactAt(place, f) \in DOMAIN stored}
           listed == {r \in ListObjects(place) : IsAllowed(r)}
           wanted == {<<f>> : f \in here}
           candidates == Candidates(listed)
<1>0. FileNames = ToSet(ArtifactFiles)
  BY DEF FileNames
<1>1. ASSUME NEW r \in listed PROVE r \in wanted
  <2>1. PICK k : /\ r = RelativeKey(place, k)
                 /\ \E o \in DOMAIN stored : o[1] = place.provider /\ o[2] = place.bucket /\ k = o[3]
                 /\ place.prefix = <<>> \/ IsStrictPrefix(place.prefix \o <<"/">>, k)
    BY DEF ListObjects
  <2>2. PICK o \in DOMAIN stored : o[1] = place.provider /\ o[2] = place.bucket /\ k = o[3]
    BY <2>1
  <2>3. o \in Objects /\ k \in Texts /\ o = <<place.provider, place.bucket, k>>
    BY <2>2 DEF Objects
  <2>4. InPlace(place, o[3])
    BY <2>1, <2>2 DEF InPlace, IsStrictPrefix
  <2>5. \A i \in DOMAIN k : ~(k[i] = "/" /\ (i = 1 \/ k[i - 1] = "/"))
    BY <2>2, <2>4 DEF HasOddKeys
  <2>6. /\ r \in Texts /\ (r # <<>> => r[1] # "/")
        /\ \A f \in FileNames : r = <<f>> => k = JoinKey(place.prefix, <<f>>)
    BY <2>1, <2>3, <2>5, ListedName
  <2>7. StripSlashes(r) = r
    BY <2>6, NothingToStrip
  <2>8. Len(r) = 1 /\ Last(r) \in FileNames
    BY <1>0, <2>7 DEF IsAllowed
  <2>9. r = <<r[1]>> /\ r[1] \in FileNames
    BY <2>6, <2>8 DEF Last, Texts
  <2>10. k = JoinKey(place.prefix, <<r[1]>>)
    BY <2>6, <2>9
  <2>11. ArtifactAt(place, r[1]) = <<place.provider, place.bucket, k>>
    BY <2>9, <2>10, KeyOfFile
  <2>12. r[1] \in here
    BY <2>3, <2>9, <2>11
  <2> QED  BY <2>9, <2>12
<1>2. ASSUME NEW f \in here PROVE <<f>> \in listed
  <2> DEFINE k == JoinKey(place.prefix, <<f>>)
  <2>0. f \in Tokens /\ "/" \in Tokens /\ f \in FileNames /\ f # "/"
    BY FilesNamed
  <2>1. /\ k \in Texts
        /\ place.prefix = <<>> => k = <<f>>
        /\ place.prefix # <<>> => k = place.prefix \o <<"/">> \o <<f>> /\ Len(k) = Len(place.prefix) + 2
        /\ ArtifactAt(place, f) = <<place.provider, place.bucket, k>>
    BY <2>0, KeyOfFile
  <2> HIDE DEF k
  <2>2. StripSlashes(<<f>>) = <<f>>
    <3>1. <<f>> \in Texts /\ <<f>>[1] = f
      BY <2>0 DEF Texts
    <3> QED  BY <2>0, <3>1, NothingToStrip
  <2>3. RelativeKey(place, k) = <<f>>
    <3>1. CASE place.prefix = <<>>
      BY <2>1, <2>2, <3>1 DEF RelativeKey
    <3>2. CASE place.prefix # <<>>
      <4> DEFINE p == place.prefix
      <4>1. p \in Seq(Tokens)
        BY DEF IsPlace, Texts
      <4>2. k = p \o <<"/">> \o <<f>> /\ Len(k) = Len(p) + 2
        BY <2>1, <3>2
      <4> HIDE DEF p
      <4>3. SubSeq(k, Len(p) + 2, Len(k)) = <<f>>
        <5>1. k \in Seq(Tokens) /\ Len(p) + 2 \in 1 .. Len(k) /\ k[Len(p) + 2] = f
          BY <2>0, <4>1, <4>2
        <5>2. \A m \in 1 .. Len(k) : SubSeq(k, m, m) = <<k[m]>>
          <6> SUFFICES ASSUME NEW m \in 1 .. Len(k), NEW one, one = SubSeq(k, m, m)
                       PROVE  one = <<k[m]>>
            OBVIOUS
          <6>1. one \in Seq(Tokens) /\ Len(one) = 1 /\ one[1] = k[m]
            BY <5>1
          <6>2. one = <<one[1]>>
            BY ONLY <6>1
          <6> QED  BY <6>1, <6>2
        <5> QED  BY <4>2, <5>1, <5>2
      <4> QED  BY <3>2, <4>3 DEF RelativeKey, p
    <3> QED  BY <3>1, <3>2
  <2>4. place.prefix = <<>> \/ IsStrictPrefix(place.prefix \o <<"/">>, k)
    <3> SUFFICES ASSUME place.prefix # <<>> PROVE IsStrictPrefix(place.prefix \o <<"/">>, k)
      OBVIOUS
    <3> DEFINE head == place.prefix \o <<"/">>
    <3>1. head \in Seq(Tokens) /\ Len(head) \in Nat
      BY <2>0 DEF IsPlace, Texts
    <3>2. k = head \o <<f>>
      BY <2>1
    <3> HIDE DEF head
    <3>3. Len(k) = Len(head) + 1 /\ SubSeq(k, 1, Len(head)) = SubSeq(head, 1, Len(head))
      BY <2>0, <3>1, <3>2
    <3>4. k # head
      BY <3>1, <3>3
    <3>5. IsStrictPrefix(head, k)
      BY <3>1, <3>3, <3>4 DEF IsStrictPrefix, IsPrefix
    <3> QED  BY <3>5 DEF head
  <2>5. k \in {o[3] : o \in {x \in DOMAIN stored : x[1] = place.provider /\ x[2] = place.bucket}}
    <3>1. PICK o \in DOMAIN stored : o = <<place.provider, place.bucket, k>>
      BY <2>1
    <3>2. o[1] = place.provider /\ o[2] = place.bucket /\ o[3] = k
      BY <3>1
    <3> QED  BY <3>2
  <2>6. <<f>> \in ListObjects(place)
    BY <2>3, <2>4, <2>5 DEF ListObjects
  <2>7. Len(<<f>>) = 1 /\ Last(<<f>>) = f
    BY DEF Last
  <2>8. IsAllowed(<<f>>)
    BY <1>0, <2>0, <2>2, <2>7 DEF IsAllowed
  <2> QED  BY <2>6, <2>8
<1>3. listed = wanted
  BY <1>1, <1>2
<1>4. \A f : Len(<<f>>) = 1 /\ Last(<<f>>) = f /\ RunIdOf(<<f>>) = <<"current">>
  BY DEF Last, RunIdOf
<1> HIDE DEF listed
<1>5. {Last(r) : r \in listed} = here
  BY <1>3, <1>4
<1>6. FilesOf(listed, <<"current">>) = here
  BY <1>3, <1>4 DEF FilesOf
<1>7. {RunIdOf(r) : r \in listed} \subseteq {<<"current">>}
  BY <1>3, <1>4
<1>8. CASE RequiredFiles \subseteq here
  <2>1. "manifest.json" \in here
    BY <1>8 DEF RequiredFiles
  <2>2. <<"current">> \in {RunIdOf(r) : r \in listed}
    <3>1. <<"manifest.json">> \in listed
      BY <1>3, <2>1
    <3> QED  BY <1>4, <3>1
  <2>3. candidates = {<<"current">>}
    BY <1>6, <1>7, <1>8, <2>2 DEF Candidates
  <2> HIDE DEF candidates
  <2>4. Cardinality(candidates) = 1
    BY <2>3, FS_Singleton
  <2>5. {r \in listed : RunIdOf(r) \in candidates} = wanted
    BY <1>3, <1>4, <2>3
  <2>6. DiscoverPlace(place) = [kind |-> "found", relatives |-> wanted, missing |-> {}]
    BY <2>4, <2>5 DEF DiscoverPlace, DiscoverCandidates, listed, candidates
  <2>7. \A f \in here : ArtifactAt(place, f)[3] = JoinKey(place.prefix, <<f>>)
    BY KeyOfFile
  <2>8. {JoinKey(place.prefix, r) : r \in wanted} = {ArtifactAt(place, f)[3] : f \in here}
    <3> HIDE DEF here
    <3> QED  BY <2>7
  <2>9. {JoinKey(place.prefix, r) : r \in DiscoverPlace(place).relatives} = {ArtifactAt(place, f)[3] : f \in here}
    <3>1. DiscoverPlace(place).relatives = wanted
      BY <2>6
    <3> HIDE DEF wanted
    <3> QED  BY <2>8, <3>1
  <2>10. DiscoverPlace(place).missing = RequiredFiles \ here
    BY <1>8, <2>6
  <2> HIDE DEF wanted
  <2> QED  BY <1>8, <2>9, <2>10 DEF DiscoveredRight
<1>9. CASE ~(RequiredFiles \subseteq here)
  <2>1. candidates = {}
    BY <1>6, <1>7, <1>9 DEF Candidates
  <2> HIDE DEF candidates
  <2>2. Cardinality(candidates) = 0
    BY <2>1, FS_EmptySet
  <2>3. DiscoverPlace(place) = [kind |-> "missing", relatives |-> {}, missing |-> MissingOf(listed)]
    BY <2>2 DEF DiscoverPlace, DiscoverCandidates, listed, candidates
  <2>4. MissingOf(listed) = RequiredFiles \ here
    BY <1>5 DEF MissingOf
  <2> QED  BY <1>9, <2>3, <2>4 DEF DiscoveredRight
<1> QED  BY <1>8, <1>9

-----------------------------------------------------------------------------
(* The invariant of an opening: what is held of the objects, what a command has looked for and *)
(* loaded, what it can still count on as long as nothing changes, and how it ended.            *)
OpeningFields == {"args", "env", "published", "at", "entry", "command", "place", "looked", "copies",
                  "found", "plan", "loaded", "discovery", "result"}
Loads == [file : FileNames, gone : BOOLEAN, bad : BOOLEAN]
Quiet == publications = 0 /\ readFaults = 0
Away(f) ==
    LET x == ArtifactAt(opening.place, f)
    IN <<x, 0>> \in held \/ x \notin DOMAIN stored \cup opening.published
ObjectsHeld ==
    /\ opening.published \subseteq Objects /\ DOMAIN stored \subseteq Objects
    /\ stored \in [DOMAIN stored -> Nat \ {0}]
    /\ publications \in Nat /\ readFaults \in Nat
    /\ \A x \in DOMAIN stored \cup opening.published : <<x, VersionOf(x)>> \in held
OpeningShape ==
    /\ opening = [f \in OpeningFields |-> opening[f]]
    /\ AreSettings(opening.args, opening.env)
    /\ opening.at \in {"start", "look", "load", "end"}
    /\ opening.at = "start" => opening.looked = 0 /\ opening.copies = <<>> /\ opening.found = {}
    /\ opening.at \in {"start", "look"} => opening.loaded = <<>>
Looking ==
    \/ opening.at \in {"look", "load"}
    \/ opening.at = "end" /\ opening.entry = "cli" /\ opening.place # NoPlace
LookedRight ==
    /\ opening.entry = "cli" /\ opening.command \in Commands
    /\ opening.place # NoPlace /\ IsPlace(opening.place)
    /\ opening.looked \in 0 .. 4 /\ (opening.at # "look" => opening.looked = 4)
    /\ DOMAIN opening.copies = {ArtifactFiles[i] : i \in 1 .. opening.looked}
    /\ opening.found = {f \in DOMAIN opening.copies : opening.copies[f] # 0}
    /\ \A f \in DOMAIN opening.copies :
           /\ opening.copies[f] # 0 => <<ArtifactAt(opening.place, f), opening.copies[f]>> \in held
           /\ opening.copies[f] = 0 /\ readFaults = 0 => Away(f)
           /\ Quiet => opening.copies[f] = Current(f)
    /\ \A f \in DOMAIN opening.loaded : <<ArtifactAt(opening.place, f), opening.loaded[f]>> \in held
IsToCome(f) == \E i \in 1 .. Len(opening.plan) : opening.plan[i].file = f
LoadsRight ==
    /\ opening.command # "status" /\ opening.plan \in Seq(Loads)
    /\ \A i \in 1 .. Len(opening.plan) : opening.plan[i].file \in Shows(opening.command)
    /\ Quiet => /\ \A i \in 1 .. Len(opening.plan) :
                       opening.plan[i].bad \/ opening.plan[i].gone \/ Current(opening.plan[i].file) # 0
                /\ \A f \in Needs(opening.command, opening.place) : Current(f) # 0
                /\ \A f \in DOMAIN opening.loaded : f \in Shows(opening.command) /\ Current(f) # 0
                /\ \A f \in Shows(opening.command) :
                       Current(f) # 0 => f \in DOMAIN opening.loaded \/ IsToCome(f)
EndedRight ==
    Quiet =>
        /\ (opening.result = "refused")
               <=> \E f \in Needs(opening.command, opening.place) : Current(f) = 0
        /\ opening.result # "refused" =>
               /\ IF opening.command # "status" THEN opening.result = "answered"
                  ELSE (opening.result = "full") <=> \A f \in RequiredFiles : Current(f) # 0
               /\ DOMAIN opening.loaded = {f \in Shows(opening.command) : Current(f) # 0}
SessionRight ==
    /\ opening.loaded = <<>> /\ IsPlace(opening.place)
    /\ HasOddKeys(opening.place) \/ DiscoveredRight(opening.place, opening.discovery)
OpeningInv ==
    /\ ObjectsHeld /\ OpeningShape
    /\ Looking => LookedRight
    /\ opening.at = "load" => LoadsRight
    /\ opening.at = "end" /\ opening.entry = "cli" /\ opening.place # NoPlace => EndedRight
    /\ opening.at = "end" /\ opening.entry # "cli" /\ opening.place # NoPlace => SessionRight

\* What is there is what has a version.
LEMMA VersionsAreHeld ==
    ASSUME ObjectsHeld
    PROVE  /\ \A x : VersionOf(x) # 0 <=> x \in DOMAIN stored
           /\ \A x : VersionOf(x) # 0 => <<x, VersionOf(x)>> \in held
           /\ \A x \in opening.published : <<x, VersionOf(x)>> \in held
           /\ \A x \in DOMAIN stored : VersionOf(x) \in Nat
BY DEF ObjectsHeld, VersionOf

LEMMA HereIsCurrent ==
    ASSUME ObjectsHeld, IsPlace(opening.place)
    PROVE  Direct(opening.place) = {f \in FileNames : Current(f) # 0}
<1>1. DOMAIN stored \subseteq Objects
  BY DEF ObjectsHeld
<1>2. Direct(opening.place) = {f \in FileNames : ArtifactAt(opening.place, f) \in DOMAIN stored}
  BY <1>1, DirectFiles
<1>3. \A f : Current(f) = VersionOf(ArtifactAt(opening.place, f))
  BY DEF Current, ArtifactAt
<1> QED  BY <1>2, <1>3, VersionsAreHeld

\* The invariant has the two properties.
LEMMA OpenedRight ==
    ASSUME OpeningInv
    PROVE  EntriesAgree /\ OpenedIsStored
<1>1. EntriesAgree
  BY AgreeOn DEF OpeningInv, OpeningShape, EntriesAgree
<1>2. ASSUME opening.at = "end", opening.place # NoPlace, opening.entry = "cli"
      PROVE  OpenedIsStored
  <2>1. ObjectsHeld /\ LookedRight /\ EndedRight
    BY <1>2 DEF OpeningInv, Looking
  <2> DEFINE here == Direct(opening.place)
  <2>2. here = {f \in FileNames : Current(f) # 0}
    BY <2>1, HereIsCurrent DEF LookedRight
  <2>3. DOMAIN opening.copies = FileNames
    <3>1. opening.looked = 4
      BY <1>2, <2>1 DEF LookedRight
    <3> QED  BY <2>1, <3>1, FilesNamed DEF LookedRight
  <2>4. \A f \in DOMAIN opening.loaded :
            <<Object(opening.place, <<f>>), opening.loaded[f]>> \in held
    BY <2>1 DEF LookedRight, ArtifactAt
  <2>5. ASSUME readFaults = 0, NEW f \in FileNames \ opening.found
        PROVE  <<Object(opening.place, <<f>>), 0>> \in held \/ f \notin here
    <3>1. Away(f)
      BY <2>1, <2>3, <2>5 DEF LookedRight
    <3>2. Current(f) # 0 => ArtifactAt(opening.place, f) \in DOMAIN stored
      BY <2>1, VersionsAreHeld DEF Current, ArtifactAt
    <3> QED  BY <2>2, <3>1, <3>2 DEF Away, ArtifactAt
  <2>6. \A S : S \subseteq FileNames => (S \subseteq here <=> \A f \in S : Current(f) # 0)
    BY <2>2
  <2>7. /\ RequiredFiles \subseteq FileNames
        /\ Needs(opening.command, opening.place) \subseteq FileNames
        /\ Shows(opening.command) \subseteq FileNames
    BY FilesNamed DEF Needs, Shows, RequiredFiles, FileNames
  <2>8. Shows(opening.command) \cap here = {f \in Shows(opening.command) : Current(f) # 0}
    BY <2>2, <2>7
  <2> HIDE DEF here
  <2>9. ASSUME publications = 0, readFaults = 0
        PROVE  /\ (opening.result = "refused") <=> ~(Needs(opening.command, opening.place) \subseteq here)
               /\ opening.result # "refused" =>
                      /\ IF opening.command # "status" THEN opening.result = "answered"
                         ELSE (opening.result = "full") <=> RequiredFiles \subseteq here
                      /\ DOMAIN opening.loaded = Shows(opening.command) \cap here
    BY <2>1, <2>6, <2>7, <2>8, <2>9 DEF EndedRight, Quiet
  <2> QED  BY <1>2, <2>4, <2>5, <2>9 DEF OpenedIsStored, here, FileNames
<1>3. ASSUME opening.at = "end", opening.place # NoPlace, opening.entry # "cli"
      PROVE  OpenedIsStored
  <2> DEFINE place == opening.place
  <2>1. ObjectsHeld /\ SessionRight
    BY <1>3 DEF OpeningInv
  <2>2. IsPlace(place) /\ DOMAIN stored \subseteq Objects
    BY <2>1 DEF SessionRight, ObjectsHeld
  <2>3. Direct(place) = {f \in FileNames : ArtifactAt(place, f) \in DOMAIN stored}
    BY <2>2, DirectFiles
  <2>4. DOMAIN opening.loaded = {}
    BY <2>1 DEF SessionRight
  <2>5. \/ HasOddKeys(place)
        \/ /\ {JoinKey(place.prefix, r) : r \in opening.discovery.relatives}
                  = IF RequiredFiles \subseteq Direct(place)
                    THEN {Object(place, <<f>>)[3] : f \in Direct(place)} ELSE {}
           /\ opening.discovery.missing = RequiredFiles \ Direct(place)
    BY <2>1, <2>3 DEF SessionRight, DiscoveredRight, ArtifactAt
  <2> QED  BY <1>3, <2>4, <2>5 DEF OpenedIsStored
<1> QED  BY <1>1, <1>2, <1>3 DEF OpenedIsStored

LEMMA OpeningStartInv ==
    ASSUME NEW o \in Openings, OpeningStart(o)
    PROVE  OpeningInv
<1>1. /\ AreSettings(o.args, o.env) /\ o.published \subseteq Objects /\ DOMAIN o.stored \subseteq Objects
      /\ o.stored \in [DOMAIN o.stored -> Nat \ {0}]
  BY OpeningsAreTexts DEF AreSettings
<1>2. /\ opening = [f \in OpeningFields |-> opening[f]]
      /\ opening.args = o.args /\ opening.env = o.env /\ opening.published = o.published
      /\ opening.at = "start" /\ opening.looked = 0 /\ opening.copies = <<>> /\ opening.found = {}
      /\ opening.loaded = <<>>
  BY DEF OpeningStart, OpeningFields
<1>3. /\ stored = o.stored /\ publications = 0 /\ readFaults = 0
      /\ held = {<<x, o.stored[x]>> : x \in DOMAIN o.stored}
                \cup {<<x, 0>> : x \in o.published \ DOMAIN o.stored}
  BY DEF OpeningStart
<1>4. \A x \in DOMAIN stored \cup opening.published : <<x, VersionOf(x)>> \in held
  BY <1>2, <1>3 DEF VersionOf
<1>5. ObjectsHeld
  BY <1>1, <1>2, <1>3, <1>4 DEF ObjectsHeld
<1>6. OpeningShape
  BY <1>1, <1>2 DEF OpeningShape
<1> QED  BY <1>2, <1>5, <1>6 DEF OpeningInv, Looking

\* A step of the command: nothing of what is stored changes.
LEMMA ObjectsStay ==
    ASSUME ObjectsHeld, OnlyOpening, readFaults' \in Nat, readFaults' >= readFaults,
           opening'.place = opening.place, opening'.published = opening.published
    PROVE  /\ ObjectsHeld'
           /\ \A f : Current(f)' = Current(f)
           /\ \A f : Away(f) => Away(f)'
           /\ readFaults' = 0 => readFaults = 0
           /\ Quiet' => Quiet
<1>1. stored' = stored /\ held' = held /\ publications' = publications
  BY DEF OnlyOpening
<1>2. \A x : VersionOf(x)' = VersionOf(x)
  BY <1>1 DEF VersionOf
<1>3. readFaults \in Nat
  BY DEF ObjectsHeld
<1>4. readFaults' = 0 => readFaults = 0
  BY <1>3
<1> QED  BY <1>1, <1>2, <1>4 DEF ObjectsHeld, Current, Away, Quiet

LEMMA AbsentIsAway ==
    ASSUME ObjectsHeld, NEW f, Current(f) = 0
    PROVE  Away(f)
BY VersionsAreHeld DEF Current, Away, ArtifactAt, ObjectsHeld, VersionOf

\* A command starts.
LEMMA RunCommandInv ==
    ASSUME OpeningInv, RunCommand
    PROVE  OpeningInv'
<1>1. ObjectsHeld /\ OpeningShape /\ opening.at = "start"
  BY DEF OpeningInv, RunCommand
<1>2. PICK command \in Commands : opening' = CommandOpens(command, OpensCli(opening.args, opening.env))
  BY DEF RunCommand
<1> DEFINE opens == OpensCli(opening.args, opening.env)
<1>3. /\ opens.kind = "place" => opens.place # NoPlace /\ IsPlace(opens.place)
      /\ opens.kind # "place" => opens.place = NoPlace
  <2>1. opens = Opens("cli", opening.args, opening.env)
    BY DEF Opens
  <2>2. AreSettings(opening.args, opening.env)
    BY <1>1 DEF OpeningShape
  <2> HIDE DEF opens
  <2> QED  BY <2>1, <2>2, OpensAtText
<1> HIDE DEF opens
<1>4. /\ opening' = [f \in OpeningFields |-> opening'[f]]
      /\ opening'.args = opening.args /\ opening'.env = opening.env
      /\ opening'.published = opening.published /\ opening'.looked = opening.looked
      /\ opening'.copies = opening.copies /\ opening'.found = opening.found
      /\ opening'.loaded = opening.loaded
      /\ opening'.place = opens.place /\ opening'.entry = "cli" /\ opening'.command = command
      /\ opening'.at = IF opens.kind = "place" THEN "look" ELSE "end"
  BY <1>1, <1>2 DEF CommandOpens, Ended, opens, OpeningShape, OpeningFields
<1>5. ObjectsHeld'
  BY <1>1, <1>4 DEF RunCommand, OnlyOpening, ObjectsHeld, VersionOf
<1>6. OpeningShape'
  BY <1>1, <1>4 DEF OpeningShape
<1>7. opening'.looked = 0 /\ opening'.copies = <<>> /\ opening'.found = {} /\ opening'.loaded = <<>>
  BY <1>1, <1>4 DEF OpeningShape
<1>8. CASE opens.kind = "place"
  <2>1. 1 .. 0 = {} /\ DOMAIN (<<>>) = {}
    OBVIOUS
  <2>2. LookedRight'
    BY <1>3, <1>4, <1>7, <1>8, <2>1 DEF LookedRight
  <2> QED  BY <1>4, <1>5, <1>6, <1>8, <2>2 DEF OpeningInv
<1>9. CASE opens.kind # "place"
  BY <1>3, <1>4, <1>5, <1>6, <1>9 DEF OpeningInv, Looking
<1> QED  BY <1>8, <1>9

\* It looks for one more of the files.
LEMMA LookForInv ==
    ASSUME OpeningInv, LookFor
    PROVE  OpeningInv'
<1>1. ObjectsHeld /\ OpeningShape /\ LookedRight /\ opening.at = "look" /\ opening.looked \in 0 .. 3
  BY FilesNamed DEF OpeningInv, Looking, LookFor, LookedRight
<1> DEFINE file == ArtifactFiles[opening.looked + 1]
<1>2. PICK fails \in BOOLEAN :
          LET version == IF fails THEN 0 ELSE Current(file)
          IN /\ readFaults' = readFaults + IF fails THEN 1 ELSE 0
             /\ opening' = [opening EXCEPT !.looked = @ + 1, !.copies = With(@, file, version),
                                          !.found = IF version = 0 THEN @ ELSE @ \cup {file}]
  BY DEF LookFor
<1> DEFINE version == IF fails THEN 0 ELSE Current(file)
<1>3. /\ opening' = [f \in OpeningFields |-> opening'[f]]
      /\ opening'.args = opening.args /\ opening'.env = opening.env
      /\ opening'.published = opening.published /\ opening'.looked = opening.looked + 1
      /\ opening'.copies = With(opening.copies, file, version)
      /\ opening'.found = IF version = 0 THEN opening.found ELSE opening.found \cup {file}
      /\ opening'.loaded = opening.loaded /\ opening'.place = opening.place
      /\ opening'.entry = opening.entry /\ opening'.command = opening.command /\ opening'.at = "look"
  BY <1>1, <1>2 DEF OpeningShape, OpeningFields
<1>4. readFaults \in Nat /\ readFaults' = readFaults + (IF fails THEN 1 ELSE 0)
  BY <1>1, <1>2 DEF ObjectsHeld
<1>5. readFaults' \in Nat /\ readFaults' >= readFaults /\ (readFaults' = 0 => ~fails)
  BY <1>4
<1>6. /\ ObjectsHeld' /\ (\A f : Current(f)' = Current(f)) /\ (\A f : Away(f) => Away(f)')
      /\ (readFaults' = 0 => readFaults = 0) /\ (Quiet' => Quiet)
  <2>1. OnlyOpening
    BY DEF LookFor
  <2> QED  BY <1>1, <1>3, <1>5, <2>1, ObjectsStay
<1>7. OpeningShape'
  BY <1>1, <1>3 DEF OpeningShape
<1> DEFINE Done(n) == {ArtifactFiles[i] : i \in 1 .. n}
<1>8. file \notin DOMAIN opening.copies /\ Done(opening.looked + 1) = Done(opening.looked) \cup {file}
  <2>1. DOMAIN opening.copies = Done(opening.looked)
    BY <1>1 DEF LookedRight
  <2>2. opening.looked + 1 \in 1 .. 4
    BY <1>1
  <2>3. \A i \in 1 .. opening.looked : i \in 1 .. 4 /\ i # opening.looked + 1
    BY <1>1
  <2>4. file \notin Done(opening.looked)
    BY <2>2, <2>3, FilesNamed
  <2>5. 1 .. opening.looked + 1 = (1 .. opening.looked) \cup {opening.looked + 1}
    BY <1>1
  <2> QED  BY <2>1, <2>4, <2>5
<1> HIDE DEF file, version
<1> DEFINE copies == opening'.copies
<1>9. /\ DOMAIN copies = DOMAIN opening.copies \cup {file} /\ copies[file] = version
      /\ \A f \in DOMAIN opening.copies : copies[f] = opening.copies[f]
  <2>1. copies = With(opening.copies, file, version)
    BY <1>3
  <2>2. /\ DOMAIN copies = DOMAIN opening.copies \cup {file} /\ copies[file] = version
        /\ \A f \in DOMAIN opening.copies : f # file => copies[f] = opening.copies[f]
    BY <2>1 DEF With
  <2> QED  BY <1>8, <2>2
<1>10. DOMAIN copies = {ArtifactFiles[i] : i \in 1 .. opening'.looked}
  BY <1>1, <1>3, <1>8, <1>9 DEF LookedRight
<1>11. opening'.found = {f \in DOMAIN copies : copies[f] # 0}
  <2>1. opening.found = {f \in DOMAIN opening.copies : opening.copies[f] # 0}
    BY <1>1 DEF LookedRight
  <2> HIDE DEF copies
  <2> QED  BY <1>3, <1>8, <1>9, <2>1
<1>12. \A f : ArtifactAt(opening.place, f)' = ArtifactAt(opening.place, f)
  BY <1>3 DEF ArtifactAt, Object
<1>13. held' = held
  BY DEF LookFor, OnlyOpening
<1>14. ASSUME NEW f \in DOMAIN copies
       PROVE  /\ copies[f] # 0 => <<ArtifactAt(opening.place, f)', copies[f]>> \in held'
              /\ copies[f] = 0 /\ readFaults' = 0 => Away(f)'
              /\ Quiet' => copies[f] = Current(f)'
  <2>1. CASE f = file
    <3>1. version # 0 => version = VersionOf(ArtifactAt(opening.place, f))
      BY <2>1 DEF version, Current, ArtifactAt
    <3>2. version # 0 => <<ArtifactAt(opening.place, f), version>> \in held
      BY <1>1, <3>1, VersionsAreHeld
    <3>3. readFaults' = 0 => version = Current(f)
      BY <1>5, <2>1 DEF version
    <3>4. version = 0 /\ readFaults' = 0 => Away(f)
      BY <1>1, <3>3, AbsentIsAway
    <3>5. Quiet' => readFaults' = 0
      BY DEF Quiet
    <3> QED  BY <1>6, <1>9, <1>12, <1>13, <2>1, <3>2, <3>3, <3>4, <3>5
  <2>2. CASE f # file
    <3>1. f \in DOMAIN opening.copies /\ copies[f] = opening.copies[f]
      BY <1>9, <2>2
    <3> HIDE DEF copies
    <3> QED  BY <1>1, <1>6, <1>12, <1>13, <3>1 DEF LookedRight
  <2> QED  BY <2>1, <2>2
<1>15. \A f \in DOMAIN opening'.loaded : <<ArtifactAt(opening.place, f)', opening'.loaded[f]>> \in held'
  BY <1>1, <1>3, <1>12, <1>13 DEF LookedRight
<1>16. LookedRight'
  <2>1. /\ opening'.entry = "cli" /\ opening'.command \in Commands
        /\ opening'.place # NoPlace /\ IsPlace(opening.place)'
        /\ opening'.looked \in 0 .. 4
    BY <1>1, <1>3 DEF LookedRight, IsPlace
  <2> QED  BY <1>3, <1>10, <1>11, <1>14, <1>15, <2>1 DEF LookedRight
<1> QED  BY <1>3, <1>6, <1>7, <1>16 DEF OpeningInv

LEMMA TwoInARow ==
    ASSUME NEW S, NEW x \in Seq(S), NEW y \in Seq(S), Len(x) = 1, Len(y) = 1
    PROVE  x \o y \in Seq(S) /\ Len(x \o y) = 2 /\ (x \o y)[1] = x[1] /\ (x \o y)[2] = y[1]
<1>1. x \o y \in Seq(S) /\ Len(x \o y) = 2
  OBVIOUS
<1>2. \A i \in 1 .. Len(x) + Len(y) : (x \o y)[i] = IF i <= Len(x) THEN x[i] ELSE y[i - Len(x)]
  BY ConcatProperties
<1>3. /\ 1 \in 1 .. Len(x) + Len(y) /\ 1 <= Len(x)
      /\ 2 \in 1 .. Len(x) + Len(y) /\ ~(2 <= Len(x)) /\ 2 - Len(x) = 1
  OBVIOUS
<1> QED  BY <1>1, <1>2, <1>3

LEMMA PairOf ==
    ASSUME NEW S, NEW a \in S, NEW b \in S
    PROVE  LET p == <<a>> \o <<b>> IN p \in Seq(S) /\ Len(p) = 2 /\ p[1] = a /\ p[2] = b
<1>1. /\ <<a>> \in Seq(S) /\ <<b>> \in Seq(S)
      /\ Len(<<a>>) = 1 /\ Len(<<b>>) = 1 /\ <<a>>[1] = a /\ <<b>>[1] = b
  OBVIOUS
<1> QED  BY <1>1, TwoInARow

\* What a command must have is what it cannot do without.
LEMMA RequiresIsNeeds ==
    ASSUME NEW command, NEW place, command \in Commands
    PROVE  Requires(command, place) = Needs(command, place)
BY DEF Commands, Requires, Needs, RequiredFiles, AboutNodes, AboutRun

\* What is loaded is what the command requires, or what it may do without.
LEMMA PlanRight ==
    ASSUME NEW command \in Commands \ {"status"}, NEW place, NEW E,
           NEW plan, plan = Plan(command, E)
    PROVE  /\ plan \in Seq(Loads)
           /\ \A i \in 1 .. Len(plan) :
                  /\ plan[i].bad \/ plan[i].gone \/ plan[i].file \in E \cup Requires(command, place)
                  /\ plan[i].file \in Shows(command)
           /\ \A f \in Shows(command) \cap E : \E i \in 1 .. Len(plan) : plan[i].file = f
<1> DEFINE Right(e) == e.bad \/ e.gone \/ e.file \in E \cup Requires(command, place)
           Loaded == {plan[i].file : i \in 1 .. Len(plan)}
<1>1. /\ "manifest.json" \in FileNames /\ "run_results.json" \in FileNames
      /\ "catalog.json" \in FileNames
  BY FilesNamed
<1>2. \A f \in FileNames : MustLoad(f) \in Loads /\ LoadUnlessGone(f) \in Loads /\ TryLoad(f) \in Loads
  BY DEF Loads, MustLoad, LoadUnlessGone, TryLoad
<1>3. \A f : /\ MustLoad(f).file = f
              /\ LoadUnlessGone(f).gone /\ LoadUnlessGone(f).file = f
              /\ TryLoad(f).bad /\ TryLoad(f).file = f
  BY DEF MustLoad, LoadUnlessGone, TryLoad
<1>4. SUFFICES /\ plan \in Seq(Loads) /\ \A i \in 1 .. Len(plan) : Right(plan[i])
               /\ Loaded \subseteq Shows(command) /\ Shows(command) \cap E \subseteq Loaded
  OBVIOUS
<1>5. ASSUME NEW f \in Requires(command, place), f \in FileNames, NEW load, load \in Loads,
             plan = <<MustLoad(f)>> \o IfFound(E, load), Shows(command) = {f, load.file}
      PROVE  /\ plan \in Seq(Loads) /\ \A i \in 1 .. Len(plan) : Right(plan[i])
             /\ Loaded \subseteq Shows(command) /\ Shows(command) \cap E \subseteq Loaded
  <2> DEFINE a == MustLoad(f)
             s == IfFound(E, load)
  <2>1. a \in Loads /\ a.file = f
    BY <1>2, <1>3, <1>5
  <2>2. s = IF load.file \in E THEN <<load>> ELSE <<>>
    BY DEF IfFound
  <2>3. plan = <<a>> \o s
    BY <1>5
  <2> HIDE DEF a, s
  <2>4. CASE load.file \in E
    <3>1. plan = <<a>> \o <<load>>
      BY <2>2, <2>3, <2>4
    <3>2. plan \in Seq(Loads) /\ Len(plan) = 2 /\ plan[1] = a /\ plan[2] = load
      <4>1. LET p == <<a>> \o <<load>>
            IN p \in Seq(Loads) /\ Len(p) = 2 /\ p[1] = a /\ p[2] = load
        BY <1>5, <2>1, PairOf
      <4> QED  BY <3>1, <4>1
    <3>3. 1 \in 1 .. Len(plan) /\ 2 \in 1 .. Len(plan) /\ \A i \in 1 .. Len(plan) : i = 1 \/ i = 2
      BY <3>2
    <3> QED  BY <1>5, <2>1, <2>4, <3>2, <3>3
  <2>5. CASE load.file \notin E
    <3>1. plan = <<a>>
      BY <2>1, <2>2, <2>3, <2>5
    <3>2. plan \in Seq(Loads) /\ Len(plan) = 1 /\ plan[1] = a
      BY <2>1, <3>1
    <3>3. 1 \in 1 .. Len(plan) /\ \A i \in 1 .. Len(plan) : i = 1
      BY <3>2
    <3> QED  BY <1>5, <2>1, <2>5, <3>2, <3>3
  <2> QED  BY <2>4, <2>5
<1>6. CASE command \in {"graph", "diagnose-node"}
  <2>1. "manifest.json" \in Requires(command, place) /\ Shows(command) = {"manifest.json"}
    BY <1>1, <1>6 DEF Requires, RequiredFiles, Shows, AboutRun, FileNames
  <2>2. plan = <<MustLoad("manifest.json")>>
    BY <1>6 DEF Plan
  <2>3. plan \in Seq(Loads) /\ Len(plan) = 1 /\ plan[1].file = "manifest.json"
    BY <1>1, <1>2, <1>3, <2>2
  <2>4. 1 \in 1 .. Len(plan) /\ \A i \in 1 .. Len(plan) : i = 1
    BY <2>3
  <2> QED  BY <2>1, <2>3, <2>4
<1>7. CASE command \in {"graph-field", "field"}
  <2>1. /\ "manifest.json" \in Requires(command, place)
        /\ Shows(command) = {"manifest.json", "catalog.json"}
    BY <1>1, <1>7 DEF Requires, Shows, AboutRun, FileNames
  <2>2. PICK load \in {LoadUnlessGone("catalog.json"), TryLoad("catalog.json")} :
            plan = <<MustLoad("manifest.json")>> \o IfFound(E, load)
    BY <1>7 DEF Plan
  <2>3. load \in Loads /\ load.file = "catalog.json"
    BY <1>1, <1>2, <1>3, <2>2
  <2> QED  BY <1>1, <1>5, <2>1, <2>2, <2>3
<1>8. CASE command = "failures"
  <2> DEFINE load == MustLoad("manifest.json")
  <2>1. /\ "run_results.json" \in Requires(command, place)
        /\ Shows(command) = {"run_results.json", "manifest.json"}
    BY <1>1, <1>8 DEF Requires, Shows, AboutRun, FileNames
  <2>2. plan = <<MustLoad("run_results.json")>> \o IfFound(E, load)
    BY <1>8 DEF Plan
  <2>3. load \in Loads /\ load.file = "manifest.json"
    BY <1>1, <1>2, <1>3
  <2> HIDE DEF load
  <2> QED  BY <1>1, <1>5, <2>1, <2>2, <2>3
<1>9. CASE command = "timeline"
  <2> DEFINE a == MustLoad("run_results.json")
             b == TryLoad("manifest.json")
  <2>1. /\ "run_results.json" \in Requires(command, place)
        /\ Shows(command) = {"run_results.json", "manifest.json"}
    BY <1>1, <1>9 DEF Requires, Shows, AboutRun, FileNames
  <2>2. plan = <<a, b>>
    BY <1>9 DEF Plan
  <2>3. a \in Loads /\ b \in Loads /\ a.file = "run_results.json" /\ b.file = "manifest.json" /\ b.bad
    BY <1>1, <1>2, <1>3
  <2> HIDE DEF a, b
  <2>4. plan \in Seq(Loads) /\ Len(plan) = 2 /\ plan[1] = a /\ plan[2] = b
    BY <2>2, <2>3
  <2>5. 1 \in 1 .. Len(plan) /\ 2 \in 1 .. Len(plan) /\ \A i \in 1 .. Len(plan) : i = 1 \/ i = 2
    BY <2>4
  <2> QED  BY <2>1, <2>3, <2>4, <2>5
<1>10. CASE command = "diagnose-run"
  <2>1. plan = <<>> /\ Shows(command) = {}
    BY <1>10 DEF Plan, Shows, AboutRun
  <2>2. plan \in Seq(Loads) /\ 1 .. Len(plan) = {}
    BY <2>1
  <2> QED  BY <2>1, <2>2
<1> QED  BY <1>6, <1>7, <1>8, <1>9, <1>10 DEF Commands

\* What a command has looked for stays what it was.
LEMMA LookedStays ==
    ASSUME ObjectsHeld, LookedRight, OnlyOpening, readFaults' \in Nat, readFaults' >= readFaults,
           opening'.place = opening.place, opening'.published = opening.published,
           opening'.entry = opening.entry, opening'.command = opening.command,
           opening'.looked = opening.looked, opening'.copies = opening.copies,
           opening'.found = opening.found, opening.looked = 4,
           \A f \in DOMAIN opening'.loaded :
               <<ArtifactAt(opening.place, f), opening'.loaded[f]>> \in held
    PROVE  /\ ObjectsHeld' /\ LookedRight' /\ (Quiet' => Quiet)
           /\ \A f : Current(f)' = Current(f)
<1>1. /\ ObjectsHeld' /\ (\A f : Current(f)' = Current(f)) /\ (\A f : Away(f) => Away(f)')
      /\ (readFaults' = 0 => readFaults = 0) /\ (Quiet' => Quiet)
  BY ObjectsStay
<1>2. held' = held
  BY DEF OnlyOpening
<1>3. \A f : ArtifactAt(opening.place, f)' = ArtifactAt(opening.place, f)
  BY DEF ArtifactAt, Object
<1>4. ASSUME NEW f \in DOMAIN opening'.copies
      PROVE  /\ opening'.copies[f] # 0 => <<ArtifactAt(opening.place, f)', opening'.copies[f]>> \in held'
             /\ opening'.copies[f] = 0 /\ readFaults' = 0 => Away(f)'
             /\ Quiet' => opening'.copies[f] = Current(f)'
  BY <1>1, <1>2, <1>3 DEF LookedRight
<1>5. \A f \in DOMAIN opening'.loaded : <<ArtifactAt(opening.place, f)', opening'.loaded[f]>> \in held'
  BY <1>2, <1>3
<1>6. /\ opening'.entry = "cli" /\ opening'.command \in Commands
      /\ opening'.place # NoPlace /\ IsPlace(opening.place)'
      /\ opening'.looked = 4
      /\ DOMAIN opening'.copies = {ArtifactFiles[i] : i \in 1 .. opening'.looked}
      /\ opening'.found = {f \in DOMAIN opening'.copies : opening'.copies[f] # 0}
  BY DEF LookedRight, IsPlace
<1>7. LookedRight'
  BY <1>4, <1>5, <1>6 DEF LookedRight
<1> QED  BY <1>1, <1>7

\* All four are known: whoever has looked for them has found what is there, as long as nothing changes.
LEMMA FoundIsThere ==
    ASSUME LookedRight, opening.looked = 4
    PROVE  /\ DOMAIN opening.copies = FileNames
           /\ Quiet => opening.found = {f \in FileNames : Current(f) # 0}
           /\ Quiet => \A f \in FileNames : Readable(f) = Current(f)
<1>1. DOMAIN opening.copies = FileNames
  BY FilesNamed DEF LookedRight
<1> QED  BY <1>1 DEF LookedRight, Readable

LEMMA DecideInv ==
    ASSUME OpeningInv, Decide
    PROVE  OpeningInv'
<1>1. ObjectsHeld /\ OpeningShape /\ LookedRight /\ opening.at = "look" /\ opening.looked = 4
  BY FilesNamed DEF OpeningInv, Looking, Decide
<1> DEFINE here == {f \in ToSet(ArtifactFiles) : Readable(f) # 0}
           enrichments == IF opening.command = "failures" THEN here ELSE opening.found
           required == Requires(opening.command, opening.place)
<1>2. opening' = IF ~(required \subseteq opening.found) THEN Ended(opening, "refused")
                 ELSE IF opening.command = "status" THEN Ended(opening, Readiness(opening.found))
                 ELSE [opening EXCEPT !.at = "load", !.plan = Plan(opening.command, enrichments)]
  BY DEF Decide
<1> HIDE DEF required, enrichments
<1>3. /\ opening' = [f \in OpeningFields |-> opening'[f]]
      /\ opening'.args = opening.args /\ opening'.env = opening.env
      /\ opening'.published = opening.published /\ opening'.looked = opening.looked
      /\ opening'.copies = opening.copies /\ opening'.found = opening.found
      /\ opening'.loaded = opening.loaded /\ opening'.place = opening.place
      /\ opening'.entry = opening.entry /\ opening'.command = opening.command
      /\ opening'.at \in {"load", "end"}
  BY <1>1, <1>2 DEF Ended, OpeningShape, OpeningFields
<1>4. /\ ~(required \subseteq opening.found) => opening'.at = "end" /\ opening'.result = "refused"
      /\ required \subseteq opening.found /\ opening.command = "status"
             => opening'.at = "end" /\ opening'.result = Readiness(opening.found)
      /\ required \subseteq opening.found /\ opening.command # "status"
             => opening'.at = "load" /\ opening'.plan = Plan(opening.command, enrichments)
  BY <1>1, <1>2 DEF Ended, OpeningShape, OpeningFields
<1>5. /\ ObjectsHeld' /\ LookedRight' /\ (Quiet' => Quiet)
      /\ \A f : Current(f)' = Current(f)
  <2>1. OnlyOpening /\ readFaults' = readFaults /\ readFaults \in Nat
    BY <1>1 DEF Decide, ObjectsHeld
  <2>2. readFaults' \in Nat /\ readFaults' >= readFaults
    BY <2>1
  <2>3. \A f \in DOMAIN opening'.loaded :
            <<ArtifactAt(opening.place, f), opening'.loaded[f]>> \in held
    BY <1>1, <1>3 DEF LookedRight
  <2> QED  BY <1>1, <1>3, <2>1, <2>2, <2>3, LookedStays
<1>6. OpeningShape'
  BY <1>1, <1>3 DEF OpeningShape
<1>7. /\ Quiet => opening.found = {f \in FileNames : Current(f) # 0}
      /\ Quiet => enrichments = {f \in FileNames : Current(f) # 0}
  <2>1. Quiet => here = {f \in FileNames : Current(f) # 0}
    BY <1>1, FoundIsThere DEF FileNames
  <2> QED  BY <1>1, <2>1, FoundIsThere DEF enrichments
<1>8. /\ required \subseteq RequiredFiles /\ RequiredFiles \subseteq FileNames
      /\ required = Needs(opening.command, opening.place)
      /\ Shows(opening.command) \subseteq FileNames
  <2>1. required \subseteq RequiredFiles /\ RequiredFiles \subseteq FileNames
    BY FilesNamed DEF required, Requires, RequiredFiles
  <2>2. required = Needs(opening.command, opening.place)
    BY <1>1, RequiresIsNeeds DEF required, LookedRight
  <2> QED  BY <2>1, <2>2 DEF Shows, FileNames
<1>12. opening'.loaded = <<>>
  BY <1>1, <1>3 DEF OpeningShape
<1>9. CASE ~(required \subseteq opening.found)
  <2>1. Quiet => \E f \in required : Current(f) = 0
    BY <1>7, <1>8, <1>9
  <2>2. Needs(opening.command, opening.place)' = Needs(opening.command, opening.place)
    BY <1>3 DEF Needs
  <2>3. opening'.result = "refused"
    BY <1>4, <1>9
  <2>4. EndedRight'
    BY <1>5, <1>8, <2>1, <2>2, <2>3 DEF EndedRight
  <2> QED  BY <1>1, <1>3, <1>4, <1>5, <1>6, <1>9, <2>4 DEF OpeningInv, LookedRight
<1>10. CASE required \subseteq opening.found /\ opening.command = "status"
  <2>1. /\ Readiness(opening.found) # "refused"
        /\ Readiness(opening.found) = "full" <=> RequiredFiles \subseteq opening.found
    BY DEF Readiness, RequiredFiles
  <2>2. Quiet => (RequiredFiles \subseteq opening.found <=> \A f \in RequiredFiles : Current(f) # 0)
    BY <1>7, <1>8
  <2>3. Quiet => \A f \in required : Current(f) # 0
    BY <1>7, <1>10
  <2>4. Shows(opening.command)' = {} /\ DOMAIN (opening'.loaded) = {}
    BY <1>3, <1>10, <1>12 DEF Shows, AboutRun
  <2>5. Needs(opening.command, opening.place)' = Needs(opening.command, opening.place)
    BY <1>3 DEF Needs
  <2>6. opening'.result = Readiness(opening.found) /\ opening'.command = "status"
    BY <1>3, <1>4, <1>10
  <2>7. EndedRight'
    BY <1>5, <1>8, <2>1, <2>2, <2>3, <2>4, <2>5, <2>6 DEF EndedRight
  <2> QED  BY <1>1, <1>3, <1>4, <1>5, <1>6, <1>10, <2>7 DEF OpeningInv, LookedRight
<1>11. CASE required \subseteq opening.found /\ opening.command # "status"
  <2>1. PICK plan : plan = opening'.plan
    OBVIOUS
  <2>2. opening.command \in Commands \ {"status"} /\ plan = Plan(opening.command, enrichments)
    BY <1>1, <1>4, <1>11, <2>1 DEF LookedRight
  <2>3. /\ plan \in Seq(Loads)
        /\ \A i \in 1 .. Len(plan) :
               /\ plan[i].bad \/ plan[i].gone \/ plan[i].file \in enrichments \cup required
               /\ plan[i].file \in Shows(opening.command)
        /\ \A f \in Shows(opening.command) \cap enrichments : \E i \in 1 .. Len(plan) : plan[i].file = f
    <3>1. required = Requires(opening.command, opening.place)
      BY DEF required
    <3>2. PICK c, p : c = opening.command /\ p = opening.place
      OBVIOUS
    <3>3. c \in Commands \ {"status"} /\ plan = Plan(c, enrichments) /\ required = Requires(c, p)
      BY <2>2, <3>1, <3>2
    <3>4. /\ plan \in Seq(Loads)
          /\ \A i \in 1 .. Len(plan) :
                 /\ plan[i].bad \/ plan[i].gone \/ plan[i].file \in enrichments \cup required
                 /\ plan[i].file \in Shows(c)
          /\ \A f \in Shows(c) \cap enrichments : \E i \in 1 .. Len(plan) : plan[i].file = f
      BY ONLY <3>3, PlanRight
    <3> QED  BY <3>2, <3>4
  <2>4. Quiet => \A f \in enrichments \cup required : Current(f) # 0
    BY <1>7, <1>11
  <2>5. Quiet => \A f \in Shows(opening.command) : Current(f) # 0 => f \in enrichments
    BY <1>7, <1>8
  <2>6. /\ Quiet' => \A i \in 1 .. Len(plan) : plan[i].bad \/ plan[i].gone \/ Current(plan[i].file)' # 0
        /\ Quiet' => \A f \in Needs(opening.command, opening.place) : Current(f)' # 0
    BY <1>5, <1>8, <2>3, <2>4
  <2>7. Quiet' => \A f \in Shows(opening.command) : Current(f)' # 0 => IsToCome(f)'
    BY <1>5, <2>1, <2>3, <2>5 DEF IsToCome
  <2>8. /\ Needs(opening.command, opening.place)' = Needs(opening.command, opening.place)
        /\ Shows(opening.command)' = Shows(opening.command) /\ DOMAIN (opening'.loaded) = {}
    BY <1>3, <1>12 DEF Needs, Shows
  <2>9. LoadsRight'
    BY <1>3, <1>11, <2>1, <2>3, <2>6, <2>7, <2>8 DEF LoadsRight
  <2> QED  BY <1>4, <1>5, <1>6, <1>11, <2>9 DEF OpeningInv
<1> QED  BY <1>9, <1>10, <1>11

\* One file is loaded, passed over, or makes the command fail.
LEMMA LoadFileInv ==
    ASSUME OpeningInv, LoadFile
    PROVE  OpeningInv'
<1>1. /\ ObjectsHeld /\ OpeningShape /\ LookedRight /\ LoadsRight
      /\ opening.at = "load" /\ opening.looked = 4 /\ opening.plan # <<>>
  BY DEF OpeningInv, Looking, LoadFile, LookedRight
<1>2. PICK plan \in Seq(Loads) : plan = opening.plan
  BY <1>1 DEF LoadsRight
<1>3. PICK next : next = Head(plan)
  OBVIOUS
<1>4. /\ Len(plan) \in Nat \ {0} /\ next = plan[1] /\ next \in Loads
      /\ Tail(plan) \in Seq(Loads) /\ Len(Tail(plan)) = Len(plan) - 1
      /\ \A i \in 1 .. Len(Tail(plan)) : Tail(plan)[i] = plan[i + 1]
  BY <1>1, <1>2, <1>3
<1>5. PICK version : version = Readable(next.file)
  OBVIOUS
<1>6. PICK fails \in BOOLEAN :
          /\ readFaults' = readFaults + IF fails THEN 1 ELSE 0
          /\ opening' =
                 IF ~fails /\ version # 0
                 THEN [opening EXCEPT !.plan = Tail(@), !.loaded = With(@, next.file, version)]
                 ELSE IF next.bad \/ (next.gone /\ version = 0)
                 THEN [opening EXCEPT !.plan = Tail(@)]
                 ELSE Ended(opening, "failed")
  BY <1>2, <1>3, <1>5 DEF LoadFile
<1> DEFINE loads == ~fails /\ version # 0
           passes == ~loads /\ (next.bad \/ (next.gone /\ version = 0))
<1>7. /\ opening' = [f \in OpeningFields |-> opening'[f]]
      /\ opening'.args = opening.args /\ opening'.env = opening.env
      /\ opening'.published = opening.published /\ opening'.looked = opening.looked
      /\ opening'.copies = opening.copies /\ opening'.found = opening.found
      /\ opening'.place = opening.place
      /\ opening'.entry = opening.entry /\ opening'.command = opening.command
  BY <1>1, <1>6 DEF Ended, OpeningShape, OpeningFields
<1>8. /\ loads => /\ opening'.at = "load" /\ opening'.plan = Tail(plan)
                  /\ opening'.loaded = With(opening.loaded, next.file, version)
      /\ passes => /\ opening'.at = "load" /\ opening'.plan = Tail(plan)
                   /\ opening'.loaded = opening.loaded
      /\ ~loads /\ ~passes => opening'.at = "end" /\ opening'.result = "failed"
                              /\ opening'.loaded = opening.loaded
  BY <1>1, <1>2, <1>6 DEF Ended, OpeningShape, OpeningFields
<1>9. /\ readFaults \in Nat /\ readFaults' \in Nat /\ readFaults' >= readFaults
      /\ (readFaults' = 0 => ~fails)
  <2>1. readFaults \in Nat
    BY <1>1 DEF ObjectsHeld
  <2> QED  BY <1>6, <2>1
<1>10. next.file \in FileNames
  BY <1>4 DEF Loads
<1>11. version # 0 => <<ArtifactAt(opening.place, next.file), version>> \in held
  <2>1. CASE IsLocal
    <3>1. version = VersionOf(ArtifactAt(opening.place, next.file))
      BY <1>5, <2>1 DEF Readable, Current, ArtifactAt
    <3> QED  BY <1>1, <3>1, VersionsAreHeld
  <2>2. CASE ~IsLocal
    <3>1. version = opening.copies[next.file] /\ next.file \in DOMAIN opening.copies
      BY <1>1, <1>5, <1>10, <2>2, FoundIsThere DEF Readable
    <3> QED  BY <1>1, <3>1 DEF LookedRight
  <2> QED  BY <2>1, <2>2
<1>12. Quiet => version = Current(next.file)
  BY <1>1, <1>5, <1>10, FoundIsThere
<1> HIDE DEF loads, passes
<1>13. \A f \in DOMAIN opening'.loaded : <<ArtifactAt(opening.place, f), opening'.loaded[f]>> \in held
  <2>1. \A f \in DOMAIN opening.loaded : <<ArtifactAt(opening.place, f), opening.loaded[f]>> \in held
    BY <1>1 DEF LookedRight
  <2>2. CASE loads
    <3>1. /\ DOMAIN opening'.loaded = DOMAIN opening.loaded \cup {next.file}
          /\ \A f \in DOMAIN opening'.loaded :
                 opening'.loaded[f] = IF f = next.file THEN version ELSE opening.loaded[f]
      BY <1>8, <2>2 DEF With
    <3>2. version # 0
      BY <2>2 DEF loads
    <3> QED  BY <1>11, <2>1, <3>1, <3>2
  <2>3. CASE ~loads
    BY <1>8, <2>1, <2>3
  <2> QED  BY <2>2, <2>3
<1>14. /\ ObjectsHeld' /\ LookedRight' /\ (Quiet' => Quiet)
       /\ \A f : Current(f)' = Current(f)
  <2>1. OnlyOpening
    BY DEF LoadFile
  <2> QED  BY <1>1, <1>7, <1>9, <1>13, <2>1, LookedStays
<1>15. OpeningShape'
  BY <1>1, <1>7, <1>8 DEF OpeningShape
<1>16. Quiet' => readFaults' = 0 /\ Quiet
  BY <1>14 DEF Quiet
<1>17. /\ opening.command # "status"
       /\ \A i \in 1 .. Len(plan) : plan[i].file \in Shows(opening.command)
       /\ Quiet => /\ \A i \in 1 .. Len(plan) : plan[i].bad \/ plan[i].gone \/ Current(plan[i].file) # 0
                   /\ \A f \in Needs(opening.command, opening.place) : Current(f) # 0
                   /\ \A f \in DOMAIN opening.loaded : f \in Shows(opening.command) /\ Current(f) # 0
                   /\ \A f \in Shows(opening.command) : Current(f) # 0 =>
                          f \in DOMAIN opening.loaded \/ \E i \in 1 .. Len(plan) : plan[i].file = f
  BY <1>1, <1>2 DEF LoadsRight, IsToCome
<1>20. /\ Needs(opening.command, opening.place)' = Needs(opening.command, opening.place)
       /\ Shows(opening.command)' = Shows(opening.command)
  BY <1>7 DEF Needs, Shows
<1>18. CASE loads \/ passes
  <2>1. PICK rest : rest = Tail(plan)
    OBVIOUS
  <2>2. /\ opening'.plan = rest /\ opening'.at = "load" /\ rest \in Seq(Loads)
        /\ \A i \in 1 .. Len(rest) : i + 1 \in 1 .. Len(plan) /\ rest[i] = plan[i + 1]
        /\ \A i \in 1 .. Len(plan) : i = 1 \/ (i - 1 \in 1 .. Len(rest) /\ rest[i - 1] = plan[i])
    <3>1. opening'.plan = rest /\ opening'.at = "load"
      BY <1>8, <1>18, <2>1
    <3>2. rest \in Seq(Loads) /\ Len(rest) = Len(plan) - 1
      BY <1>4, <2>1
    <3>3. \A i \in 1 .. Len(rest) : i + 1 \in 1 .. Len(plan) /\ rest[i] = plan[i + 1]
      BY <1>4, <2>1, <3>2
    <3>4. ASSUME NEW i \in 1 .. Len(plan), i # 1
          PROVE  i - 1 \in 1 .. Len(rest) /\ rest[i - 1] = plan[i]
      <4>1. i - 1 \in 1 .. Len(rest) /\ (i - 1) + 1 = i
        BY <1>4, <3>2, <3>4
      <4> QED  BY <3>3, <4>1
    <3> QED  BY <3>1, <3>2, <3>3, <3>4
  <2>3. ASSUME Quiet', NEW i \in 1 .. Len(rest)
        PROVE  rest[i].bad \/ rest[i].gone \/ Current(rest[i].file)' # 0
    <3>1. PICK e : e = plan[i + 1]
      OBVIOUS
    <3>2. rest[i] = e /\ (e.bad \/ e.gone \/ Current(e.file) # 0)
      BY <1>14, <1>17, <2>2, <2>3, <3>1
    <3>3. Current(e.file)' = Current(e.file)
      BY <1>14
    <3> QED  BY <3>2, <3>3
  <2>4. /\ loads => DOMAIN (opening'.loaded) = DOMAIN opening.loaded \cup {next.file}
        /\ ~loads => opening'.loaded = opening.loaded
    BY <1>8, <1>18 DEF With
  <2>5. ASSUME Quiet', NEW f \in Shows(opening.command), Current(f)' # 0
        PROVE  f \in DOMAIN (opening'.loaded) \/ \E i \in 1 .. Len(rest) : rest[i].file = f
    <3>1. Quiet /\ ~fails /\ Current(f) # 0
      BY <1>9, <1>14, <1>16, <2>5
    <3>2. next.file = f => loads
      BY <1>12, <3>1 DEF loads
    <3>3. CASE f \in DOMAIN opening.loaded
      BY <2>4, <3>3
    <3>4. CASE f \notin DOMAIN opening.loaded
      <4>1. PICK i \in 1 .. Len(plan) : plan[i].file = f
        BY <1>17, <3>1, <3>4
      <4>2. CASE i = 1
        BY <1>4, <2>4, <3>2, <4>1, <4>2
      <4>3. CASE i # 1
        BY <2>2, <4>1, <4>3
      <4> QED  BY <4>2, <4>3
    <3> QED  BY <3>3, <3>4
  <2>6. Quiet' => \A f \in DOMAIN (opening'.loaded) : f \in Shows(opening.command) /\ Current(f)' # 0
    <3>1. next.file \in Shows(opening.command)
      BY <1>4, <1>17
    <3>2. Quiet /\ loads => Current(next.file) # 0
      BY <1>12 DEF loads
    <3> QED  BY <1>14, <1>17, <2>4, <3>1, <3>2
  <2>7. Quiet' => \A f \in Shows(opening.command) :
            Current(f)' # 0 => f \in DOMAIN (opening'.loaded) \/ IsToCome(f)'
    BY <2>2, <2>5 DEF IsToCome
  <2>8. /\ \A i \in 1 .. Len(rest) : rest[i].file \in Shows(opening.command)
        /\ Quiet' => \A f \in Needs(opening.command, opening.place) : Current(f)' # 0
    BY <1>14, <1>17, <2>2
  <2>9. LoadsRight'
    BY <1>7, <1>17, <1>20, <2>2, <2>3, <2>6, <2>7, <2>8 DEF LoadsRight
  <2> QED  BY <1>14, <1>15, <2>2, <2>9 DEF OpeningInv
<1>19. CASE ~(loads \/ passes)
  <2>1. ~Quiet'
    <3> SUFFICES ASSUME Quiet' PROVE FALSE
      OBVIOUS
    <3>1. Quiet /\ ~fails
      BY <1>9, <1>16
    <3>2. version = 0 /\ ~next.bad /\ ~next.gone
      BY <1>19, <3>1 DEF loads, passes
    <3>3. 1 \in 1 .. Len(plan) /\ next = plan[1]
      BY <1>4
    <3> QED  BY <1>12, <1>17, <3>1, <3>2, <3>3
  <2>2. EndedRight'
    BY <2>1 DEF EndedRight
  <2> QED  BY <1>1, <1>7, <1>8, <1>14, <1>15, <1>19, <2>2 DEF OpeningInv, LookedRight
<1> QED  BY <1>18, <1>19

LEMMA AnswerInv ==
    ASSUME OpeningInv, Answer
    PROVE  OpeningInv'
<1>1. /\ ObjectsHeld /\ OpeningShape /\ LookedRight /\ LoadsRight
      /\ opening.at = "load" /\ opening.looked = 4 /\ opening.plan = <<>>
  BY DEF OpeningInv, Looking, Answer, LookedRight
<1>2. /\ opening' = [f \in OpeningFields |-> opening'[f]]
      /\ opening'.args = opening.args /\ opening'.env = opening.env
      /\ opening'.published = opening.published /\ opening'.looked = opening.looked
      /\ opening'.copies = opening.copies /\ opening'.found = opening.found
      /\ opening'.place = opening.place /\ opening'.loaded = opening.loaded
      /\ opening'.entry = opening.entry /\ opening'.command = opening.command
      /\ opening'.at = "end" /\ opening'.result = "answered"
  BY <1>1 DEF Answer, Ended, OpeningShape, OpeningFields
<1>3. /\ ObjectsHeld' /\ LookedRight' /\ (Quiet' => Quiet)
      /\ \A f : Current(f)' = Current(f)
  <2>1. OnlyOpening /\ readFaults' = readFaults /\ readFaults \in Nat
    BY <1>1 DEF Answer, ObjectsHeld
  <2>2. readFaults' \in Nat /\ readFaults' >= readFaults
    BY <2>1
  <2>3. \A f \in DOMAIN opening'.loaded :
            <<ArtifactAt(opening.place, f), opening'.loaded[f]>> \in held
    BY <1>1, <1>2 DEF LookedRight
  <2> QED  BY <1>1, <1>2, <2>1, <2>2, <2>3, LookedStays
<1>4. OpeningShape'
  BY <1>1, <1>2 DEF OpeningShape
<1>5. 1 .. Len(opening.plan) = {}
  BY <1>1
<1>6. EndedRight'
  <2>1. /\ Needs(opening.command, opening.place)' = Needs(opening.command, opening.place)
        /\ Shows(opening.command)' = Shows(opening.command)
    BY <1>2 DEF Needs, Shows
  <2>2. /\ opening.command # "status"
        /\ Quiet => /\ \A f \in Needs(opening.command, opening.place) : Current(f) # 0
                    /\ \A f \in DOMAIN opening.loaded : f \in Shows(opening.command) /\ Current(f) # 0
                    /\ \A f \in Shows(opening.command) : Current(f) # 0 => f \in DOMAIN opening.loaded
    BY <1>1, <1>5 DEF LoadsRight, IsToCome
  <2> QED  BY <1>2, <1>3, <2>1, <2>2 DEF EndedRight
<1> QED  BY <1>1, <1>2, <1>3, <1>4, <1>6 DEF OpeningInv, LookedRight

\* A session lists the place it opens.
LEMMA OpenSessionInv ==
    ASSUME OpeningInv, OpenSession
    PROVE  OpeningInv'
<1>1. ObjectsHeld /\ OpeningShape /\ opening.at = "start"
  BY DEF OpeningInv, OpenSession
<1>2. PICK entry \in {"mcp", "web"} :
          opening' = SessionEnds(entry, Opens(entry, opening.args, opening.env))
  BY DEF OpenSession
<1>3. PICK opens : opens = Opens(entry, opening.args, opening.env)
  OBVIOUS
<1>4. /\ opens.kind = "place" => opens.place # NoPlace /\ IsPlace(opens.place)
      /\ opens.kind # "place" => opens.place = NoPlace
  BY <1>1, <1>3, OpensAtText DEF OpeningShape
<1>5. /\ opening' = [f \in OpeningFields |-> opening'[f]]
      /\ opening'.args = opening.args /\ opening'.env = opening.env
      /\ opening'.published = opening.published /\ opening'.loaded = opening.loaded
      /\ opening'.place = opens.place /\ opening'.entry = entry /\ opening'.at = "end"
      /\ opens.kind = "place" => opening'.discovery = DiscoverPlace(opens.place)
  BY <1>1, <1>2, <1>3 DEF SessionEnds, DiscoveryEnds, Ended, OpeningShape, OpeningFields
<1>6. UNCHANGED <<stored, held, publications, readFaults>>
  BY DEF OpenSession, OnlyOpening
<1>7. ObjectsHeld'
  BY <1>1, <1>5, <1>6 DEF ObjectsHeld, VersionOf
<1>8. OpeningShape'
  BY <1>1, <1>5 DEF OpeningShape
<1>9. opens.kind = "place" => SessionRight'
  <2> SUFFICES ASSUME opens.kind = "place" PROVE SessionRight'
    OBVIOUS
  <2> DEFINE place == opens.place
  <2>1. opening'.loaded = <<>> /\ IsPlace(place)
    BY <1>1, <1>4, <1>5 DEF OpeningShape
  <2>2. HasOddKeys(place) \/ DiscoveredRight(place, DiscoverPlace(place))
    BY <1>1, <2>1, SessionFinds DEF ObjectsHeld
  <2>3. /\ HasOddKeys(place)' <=> HasOddKeys(place)
        /\ \A d : DiscoveredRight(place, d)' <=> DiscoveredRight(place, d)
    BY <1>6 DEF HasOddKeys, InPlace, DiscoveredRight, ArtifactAt, Object
  <2> QED  BY <1>5, <2>1, <2>2, <2>3 DEF SessionRight
<1> QED  BY <1>4, <1>5, <1>7, <1>8, <1>9 DEF OpeningInv, Looking

\* Files change while a command looks for them and loads them: what it has seen was there.
LEMMA ChangesInv ==
    ASSUME OpeningInv, Publish \/ Withdraw
    PROVE  OpeningInv'
<1>1. ObjectsHeld /\ OpeningShape /\ LookedRight /\ opening.at \in {"look", "load"}
  BY DEF OpeningInv, Looking, Publish, Withdraw
<1>2. /\ opening' = opening /\ readFaults' = readFaults /\ publications' = publications + 1
      /\ publications \in Nat
  BY <1>1 DEF Publish, Withdraw, ObjectsHeld
<1>3. ~Quiet'
  BY <1>2 DEF Quiet
<1>4. /\ DOMAIN stored' \subseteq DOMAIN stored \cup opening.published
      /\ held \subseteq held' /\ stored' \in [DOMAIN stored' -> Nat \ {0}]
      /\ \A x \in DOMAIN stored' \cup opening.published : <<x, VersionOf(x)'>> \in held'
  <2>1. CASE Publish
    <3>1. PICK o \in opening.published :
              stored' = With(stored, o, VersionOf(o) + 1) /\ held' = held \cup {<<o, stored'[o]>>}
      BY <2>1 DEF Publish
    <3>2. /\ DOMAIN stored' = DOMAIN stored \cup {o} /\ stored'[o] = VersionOf(o) + 1
          /\ \A x \in DOMAIN stored : x # o => stored'[x] = stored[x]
      BY <3>1 DEF With
    <3>3. stored' \in [DOMAIN stored' -> Nat \ {0}]
      <4>1. stored' = [x \in DOMAIN stored' |-> stored'[x]]
        BY <3>1 DEF With
      <4>2. VersionOf(o) \in Nat
        BY <1>1, VersionsAreHeld DEF VersionOf
      <4>3. VersionOf(o) + 1 \in Nat \ {0}
        BY <4>2
      <4> QED  BY <1>1, <3>2, <4>1, <4>3 DEF ObjectsHeld
    <3>4. ASSUME NEW x \in DOMAIN stored' \cup opening.published PROVE <<x, VersionOf(x)'>> \in held'
      <4>1. CASE x = o
        BY <3>1, <3>2, <4>1 DEF VersionOf
      <4>2. CASE x # o
        <5>1. VersionOf(x)' = VersionOf(x)
          BY <3>2, <4>2 DEF VersionOf
        <5> QED  BY <1>1, <3>1, <3>2, <4>2, <5>1 DEF ObjectsHeld
      <4> QED  BY <4>1, <4>2
    <3> QED  BY <3>1, <3>2, <3>3, <3>4
  <2>2. CASE Withdraw
    <3>1. PICK o \in opening.published \cap DOMAIN stored :
              stored' = [x \in DOMAIN stored \ {o} |-> stored[x]] /\ held' = held \cup {<<o, 0>>}
      BY <2>2 DEF Withdraw
    <3>2. stored' \in [DOMAIN stored' -> Nat \ {0}]
      BY <1>1, <3>1 DEF ObjectsHeld
    <3>3. ASSUME NEW x \in DOMAIN stored' \cup opening.published PROVE <<x, VersionOf(x)'>> \in held'
      <4>1. CASE x = o
        BY <3>1, <4>1 DEF VersionOf
      <4>2. CASE x # o
        <5>1. VersionOf(x)' = VersionOf(x)
          BY <3>1, <4>2 DEF VersionOf
        <5> QED  BY <1>1, <3>1, <4>2, <5>1 DEF ObjectsHeld
      <4> QED  BY <4>1, <4>2
    <3> QED  BY <3>1, <3>2, <3>3
  <2> QED  BY <2>1, <2>2
<1>5. ObjectsHeld'
  BY <1>1, <1>2, <1>4 DEF ObjectsHeld
<1>6. OpeningShape'
  BY <1>1, <1>2 DEF OpeningShape
<1>7. \A f : ArtifactAt(opening.place, f)' = ArtifactAt(opening.place, f)
  BY <1>2 DEF ArtifactAt, Object
<1>8. \A f : Away(f) => Away(f)'
  BY <1>2, <1>4, <1>7 DEF Away
<1>9. ASSUME NEW f \in DOMAIN opening.copies
      PROVE  /\ opening.copies[f] # 0 => <<ArtifactAt(opening.place, f)', opening.copies[f]>> \in held'
             /\ opening.copies[f] = 0 /\ readFaults' = 0 => Away(f)'
  BY <1>1, <1>2, <1>4, <1>7, <1>8 DEF LookedRight
<1>10. \A f \in DOMAIN opening.loaded : <<ArtifactAt(opening.place, f)', opening.loaded[f]>> \in held'
  BY <1>1, <1>4, <1>7 DEF LookedRight
<1>11. IsPlace(opening.place)'
  BY <1>1, <1>2 DEF LookedRight, IsPlace
<1>12. LookedRight'
  BY <1>1, <1>2, <1>3, <1>9, <1>10, <1>11 DEF LookedRight
<1>13. opening.at = "load" => LoadsRight'
  <2>1. Shows(opening.command)' = Shows(opening.command)
    BY <1>2 DEF Shows
  <2> QED  BY <1>2, <1>3, <2>1 DEF OpeningInv, LoadsRight
<1> QED  BY <1>1, <1>2, <1>5, <1>6, <1>12, <1>13 DEF OpeningInv

LEMMA OpeningStepInv ==
    ASSUME OpeningInv, OpeningNext
    PROVE  OpeningInv'
<1>1. CASE RunCommand
  BY <1>1, RunCommandInv
<1>2. CASE LookFor
  BY <1>2, LookForInv
<1>3. CASE Decide
  BY <1>3, DecideInv
<1>4. CASE LoadFile
  BY <1>4, LoadFileInv
<1>5. CASE Answer
  BY <1>5, AnswerInv
<1>6. CASE OpenSession
  BY <1>6, OpenSessionInv
<1>7. CASE Publish \/ Withdraw
  BY <1>7, ChangesInv
<1> QED  BY <1>1, <1>2, <1>3, <1>4, <1>5, <1>6, <1>7 DEF OpeningNext

LEMMA OpeningKeptInv ==
    ASSUME OpeningInv, UNCHANGED openingVars
    PROVE  OpeningInv'
<1>1. /\ opening' = opening /\ stored' = stored /\ held' = held /\ publications' = publications
      /\ readFaults' = readFaults
  BY DEF openingVars
<1>2. /\ \A x : VersionOf(x)' = VersionOf(x)
      /\ \A f : Current(f)' = Current(f)
      /\ \A f : ArtifactAt(opening.place, f)' = ArtifactAt(opening.place, f)
      /\ Quiet' <=> Quiet
  BY <1>1 DEF VersionOf, Current, ArtifactAt, Object, Quiet
<1>3. \A f : Away(f)' <=> Away(f)
  BY <1>1, <1>2 DEF Away
<1>4. ObjectsHeld => ObjectsHeld'
  BY <1>1, <1>2 DEF ObjectsHeld
<1>5. OpeningShape => OpeningShape'
  BY <1>1 DEF OpeningShape
<1>6. LookedRight => LookedRight'
  BY <1>1, <1>2, <1>3 DEF LookedRight, IsPlace
<1>7. LoadsRight => LoadsRight'
  <2>1. /\ \A f : IsToCome(f)' <=> IsToCome(f)
        /\ Shows(opening.command)' = Shows(opening.command)
        /\ Needs(opening.command, opening.place)' = Needs(opening.command, opening.place)
    BY <1>1 DEF IsToCome, Shows, Needs
  <2> QED  BY <1>1, <1>2, <2>1 DEF LoadsRight
<1>8. EndedRight => EndedRight'
  <2>1. /\ Shows(opening.command)' = Shows(opening.command)
        /\ Needs(opening.command, opening.place)' = Needs(opening.command, opening.place)
    BY <1>1 DEF Shows, Needs
  <2> QED  BY <1>1, <1>2, <2>1 DEF EndedRight
<1>9. SessionRight => SessionRight'
  <2>1. HasOddKeys(opening.place)' <=> HasOddKeys(opening.place)
    BY <1>1 DEF HasOddKeys, InPlace
  <2>2. DiscoveredRight(opening.place, opening.discovery)'
            <=> DiscoveredRight(opening.place, opening.discovery)
    BY <1>1 DEF DiscoveredRight, ArtifactAt, Object
  <2> QED  BY <1>1, <2>1, <2>2 DEF SessionRight, IsPlace
<1> QED  BY <1>1, <1>4, <1>5, <1>6, <1>7, <1>8, <1>9 DEF OpeningInv, Looking

OpeningSceneInv == IF scene = "opening" THEN OpeningInv ELSE opening.at = "idle"

LEMMA OpeningSceneStep ==
    ASSUME OpeningSceneInv, [Next]_investigationVars
    PROVE  OpeningSceneInv'
<1>1. scene' = scene
  BY DEF Next, investigationVars
<1>2. CASE scene = "opening" /\ OpeningNext
  BY <1>1, <1>2, OpeningStepInv DEF OpeningSceneInv
<1>3. CASE UNCHANGED openingVars
  <2>1. opening' = opening
    BY <1>3 DEF openingVars
  <2> QED  BY <1>1, <1>3, <2>1, OpeningKeptInv DEF OpeningSceneInv
<1>4. UNCHANGED openingVars \/ (scene = "opening" /\ OpeningNext)
  BY DEF Next, investigationVars
<1> QED  BY <1>2, <1>3, <1>4

LEMMA OpeningAlways ==
    Spec => []OpeningSceneInv
<1>1. Init => OpeningSceneInv
  BY OpeningStartInv DEF Init, StartOpening, IdleOpening, OpeningSceneInv
<1>2. OpeningSceneInv /\ [Next]_investigationVars => OpeningSceneInv'
  BY OpeningSceneStep
<1> QED  BY <1>1, <1>2, PTL DEF Spec

LEMMA IdleIsRight ==
    ASSUME OpeningSceneInv
    PROVE  EntriesAgree /\ OpenedIsStored
BY OpenedRight DEF OpeningSceneInv, EntriesAgree, OpenedIsStored

(* Whatever the flags and the environment: the entry points that find a place find the same    *)
(* one with the same client, and the value of a flag wins over the environment                 *)
(* (entrypoint-options.ts:174, cli-artifact-resolve.ts:18).                                    *)
THEOREM EntriesAgreeAlways ==
    Spec => []EntriesAgree
<1>1. OpeningSceneInv => EntriesAgree
  BY IdleIsRight
<1> QED  BY <1>1, OpeningAlways, PTL

(* Whatever is stored, and however often it changes: what a command loads the place held, what *)
(* it says is missing was absent or could not be read; as long as nothing changes and no read  *)
(* fails, it is refused exactly for a file it cannot do without, and loads just those of its   *)
(* files that are there; and a session finds the same files (dbt-artifact-bundle.ts:118,       *)
(* artifact-discovery.ts:200).                                                                 *)
THEOREM OpenedIsStoredAlways ==
    Spec => []OpenedIsStored
<1>1. OpeningSceneInv => OpenedIsStored
  BY IdleIsRight
<1> QED  BY <1>1, OpeningAlways, PTL

-----------------------------------------------------------------------------
(* Filters: what is in the list that comes out. *)
DistinctIds(rows) == \A i, j \in 1 .. Len(rows) : rows[i].id = rows[j].id => i = j

LEMMA AppendMembers ==
    ASSUME NEW S, NEW q \in Seq(S), NEW x \in S
    PROVE  LET r == Append(q, x)
           IN  /\ r \in Seq(S) /\ ToSet(r) = ToSet(q) \cup {x}
               /\ DistinctIds(q) /\ (\A y \in ToSet(q) : y.id # x.id) => DistinctIds(r)
<1> DEFINE r == Append(q, x)
           N == Len(q)
<1>1. /\ r \in Seq(S) /\ Len(r) = N + 1 /\ r[N + 1] = x /\ \A i \in 1 .. N : r[i] = q[i]
      /\ N \in Nat /\ DOMAIN q = 1 .. N
  BY AppendProperties, LenProperties
<1>2. DOMAIN r = 1 .. N + 1
  BY <1>1, LenProperties
<1> HIDE DEF r, N
<1>3. ToSet(r) = ToSet(q) \cup {x}
  <2>1. ASSUME NEW y \in ToSet(r) PROVE y \in ToSet(q) \cup {x}
    <3>1. PICK i \in 1 .. N + 1 : y = r[i]
      BY <1>2, <2>1 DEF ToSet
    <3>2. i \in 1 .. N \/ i = N + 1
      BY <1>1
    <3> QED  BY <1>1, <3>1, <3>2 DEF ToSet
  <2>2. ASSUME NEW y \in ToSet(q) PROVE y \in ToSet(r)
    <3>1. PICK i \in 1 .. N : y = q[i]
      BY <1>1, <2>2 DEF ToSet
    <3>2. i \in 1 .. N + 1
      BY <1>1
    <3> QED  BY <1>1, <1>2, <3>1, <3>2 DEF ToSet
  <2>3. x \in ToSet(r)
    <3>1. N + 1 \in 1 .. N + 1
      BY <1>1
    <3> QED  BY <1>1, <1>2, <3>1 DEF ToSet
  <2> QED  BY <2>1, <2>2, <2>3
<1>4. ASSUME DistinctIds(q), \A y \in ToSet(q) : y.id # x.id PROVE DistinctIds(r)
  <2> SUFFICES ASSUME NEW i \in 1 .. N + 1, NEW j \in 1 .. N + 1, r[i].id = r[j].id PROVE i = j
    BY <1>1 DEF DistinctIds
  <2>1. \A k \in 1 .. N : r[k].id # x.id
    BY <1>1, <1>4 DEF ToSet
  <2>2. CASE i \in 1 .. N /\ j \in 1 .. N
    BY <1>1, <1>4, <2>2 DEF DistinctIds, N
  <2>3. CASE i = N + 1 \/ j = N + 1
    <3>1. i \in 1 .. N \/ i = N + 1
      BY <1>1
    <3>2. j \in 1 .. N \/ j = N + 1
      BY <1>1
    <3> QED  BY <1>1, <2>1, <2>3, <3>1, <3>2
  <2> QED  BY <1>1, <2>2, <2>3
<1> QED  BY <1>1, <1>3, <1>4 DEF r

\* The members of a sequence, of its first n places.
FirstPart(s, n) == {s[i] : i \in 1 .. n}

LEMMA PartGrows ==
    ASSUME NEW s, NEW N \in Nat, NEW n \in 1 .. N, N = Len(s)
    PROVE  /\ FirstPart(s, n) = FirstPart(s, n - 1) \cup {s[n]}
           /\ DistinctIds(s) => \A y \in FirstPart(s, n - 1) : y.id # s[n].id
<1>1. 1 .. n = 1 .. n - 1 \cup {n}
  OBVIOUS
<1>2. FirstPart(s, n) = FirstPart(s, n - 1) \cup {s[n]}
  BY <1>1 DEF FirstPart
<1>3. ASSUME DistinctIds(s), NEW i \in 1 .. n - 1 PROVE s[i].id # s[n].id
  <2>1. i \in 1 .. N /\ i # n
    OBVIOUS
  <2> QED  BY <1>3, <2>1 DEF DistinctIds
<1>4. DistinctIds(s) => \A y \in FirstPart(s, n - 1) : y.id # s[n].id
  BY <1>3 DEF FirstPart
<1> QED  BY <1>2, <1>4

LEMMA OnlyKeeps ==
    ASSUME NEW S, NEW s \in Seq(S), NEW kept
    PROVE  LET q == Only(s, kept)
           IN  /\ q \in Seq(S) /\ ToSet(q) = ToSet(s) \cap kept
               /\ DistinctIds(s) => DistinctIds(q)
<1> DEFINE N == Len(s)
           Keep(q, n) == IF s[n] \in kept THEN Append(q, s[n]) ELSE q
           Defines(f) == f = [n \in 0 .. N |->
                                 IF n = 0 THEN <<>>
                                 ELSE IF s[n] \in kept THEN Append(f[n - 1], s[n]) ELSE f[n - 1]]
           step == [n \in 1 .. N |-> [q \in Seq(S) |-> Keep(q, n)]]
           Right(q, n) == /\ q \in Seq(S) /\ ToSet(q) = FirstPart(s, n) \cap kept
                          /\ DistinctIds(s) => DistinctIds(q)
<1>1. N \in Nat /\ DOMAIN s = 1 .. N /\ \A n \in 1 .. N : s[n] \in S
  BY LenProperties
<1>2. step \in [1 .. N -> [Seq(S) -> Seq(S)]]
  <2>1. \A n \in 1 .. N : \A q \in Seq(S) : Keep(q, n) \in Seq(S)
    BY <1>1, AppendProperties
  <2> HIDE DEF Keep
  <2> QED  BY <2>1
<1>3. \A n \in 1 .. N : \A q \in Seq(S) : step[n][q] = Keep(q, n)
  OBVIOUS
<1> HIDE DEF step
<1>4. PICK f \in [0 .. N -> Seq(S)] : f[0] = <<>> /\ \A n \in 1 .. N : f[n] = step[n][f[n - 1]]
  <2> HIDE DEF N
  <2>1. PICK T : T = Seq(S)
    OBVIOUS
  <2>2. PICK first : first = <<>>
    OBVIOUS
  <2>3. N \in Nat /\ first \in T /\ step \in [1 .. N -> [T -> T]]
    BY <1>1, <1>2, <2>1, <2>2
  <2>4. \E f \in [0 .. N -> T] : f[0] = first /\ \A n \in 1 .. N : f[n] = step[n][f[n - 1]]
    BY ONLY <2>3, Iteration
  <2> QED  BY <2>1, <2>2, <2>4
<1>5. \A n \in 0 .. N : n # 0 => n \in 1 .. N /\ n - 1 \in 0 .. N /\ f[n - 1] \in Seq(S)
  <2> HIDE DEF N
  <2> QED  BY <1>1, <1>4
<1>6. Defines(f)
  <2>1. \A n \in 0 .. N : n # 0 => f[n] = Keep(f[n - 1], n)
    BY <1>3, <1>4, <1>5
  <2> QED  BY <1>4, <2>1
<1>7. ASSUME NEW g, Defines(g) PROVE Right(g[N], N)
  <2> DEFINE right == {n \in 0 .. N : Right(g[n], n)}
  <2>1. 0 \in right
    <3>1. g[0] = <<>>
      BY <1>1, <1>7
    <3>2. ToSet(<<>>) = {} /\ FirstPart(s, 0) = {} /\ DistinctIds(<<>>)
      BY DEF ToSet, FirstPart, DistinctIds
    <3> QED  BY <1>1, <3>1, <3>2
  <2>2. ASSUME NEW n \in 1 .. N, n - 1 \in right PROVE n \in right
    <3>1. n \in 0 .. N /\ n # 0 /\ Right(g[n - 1], n - 1) /\ s[n] \in S
      BY <1>1, <2>2
    <3>2. g[n] = Keep(g[n - 1], n)
      BY <1>7, <3>1
    <3>3. /\ FirstPart(s, n) = FirstPart(s, n - 1) \cup {s[n]}
          /\ DistinctIds(s) => \A y \in FirstPart(s, n - 1) : y.id # s[n].id
      BY <1>1, PartGrows
    <3> DEFINE q == g[n - 1]
               x == s[n]
    <3>4. q \in Seq(S) /\ x \in S /\ ToSet(q) = FirstPart(s, n - 1) \cap kept
          /\ (DistinctIds(s) => DistinctIds(q))
      BY <3>1
    <3> HIDE DEF q, x, N
    <3>5. LET r == Append(q, x)
          IN  /\ r \in Seq(S) /\ ToSet(r) = ToSet(q) \cup {x}
              /\ DistinctIds(q) /\ (\A y \in ToSet(q) : y.id # x.id) => DistinctIds(r)
      BY ONLY <3>4, AppendMembers
    <3>6. CASE x \in kept
      <4>1. g[n] = Append(q, x)
        BY <3>2, <3>6 DEF q, x
      <4>2. ToSet(g[n]) = FirstPart(s, n) \cap kept
        BY <3>3, <3>4, <3>5, <3>6, <4>1 DEF x
      <4>3. DistinctIds(s) => DistinctIds(g[n])
        BY <3>3, <3>4, <3>5, <4>1 DEF x
      <4> QED  BY <3>1, <3>5, <4>1, <4>2, <4>3
    <3>7. CASE x \notin kept
      <4>1. g[n] = q
        BY <3>2, <3>7 DEF q, x
      <4>2. ToSet(g[n]) = FirstPart(s, n) \cap kept
        BY <3>3, <3>4, <3>7, <4>1 DEF x
      <4> QED  BY <3>1, <3>4, <4>1, <4>2
    <3> QED  BY <3>6, <3>7
  <2> HIDE DEF right, N
  <2>3. 0 .. N \subseteq right
    BY <1>1, <2>1, <2>2, BoundedInduction
  <2> QED  BY <1>1, <2>3 DEF right
<1> HIDE DEF Defines, Right
<1>8. Right((CHOOSE g : Defines(g))[N], N)
  BY <1>6, <1>7
<1>9. Only(s, kept) = (CHOOSE g : Defines(g))[N]
  BY DEF Only, Defines
<1>10. FirstPart(s, N) = ToSet(s)
  BY <1>1 DEF FirstPart, ToSet
<1> QED  BY <1>8, <1>9, <1>10 DEF Right

LEMMA OnlyFromSeq ==
    ASSUME NEW S, NEW s \in Seq(S), NEW kept
    PROVE  Only(s, kept) \in Seq(S)
BY OnlyKeeps

LEMMA LargestOf ==
    ASSUME NEW N \in Nat, NEW v, \A i \in 1 .. N : v[i] \in Int
    PROVE  LET S == {1} \cup {v[i] : i \in 1 .. N}
           IN  Max(S) \in Int /\ Max(S) >= 1 /\ \A i \in 1 .. N : Max(S) >= v[i]
<1> DEFINE Below(n) == {1} \cup {v[i] : i \in 1 .. n}
           done == {n \in 0 .. N : \E x \in Below(n) : \A y \in Below(n) : x >= y}
<1>1. 0 \in done
  OBVIOUS
<1>2. ASSUME NEW n \in 1 .. N, n - 1 \in done PROVE n \in done
  <2>1. PICK x \in Below(n - 1) : \A y \in Below(n - 1) : x >= y
    BY <1>2
  <2>2. Below(n) = Below(n - 1) \cup {v[n]} /\ Below(n - 1) \subseteq Int /\ v[n] \in Int
    <3>1. 1 .. n = 1 .. n - 1 \cup {n}
      OBVIOUS
    <3> QED  BY <3>1
  <2> HIDE DEF Below
  <2>3. CASE x >= v[n]
    BY <2>1, <2>2, <2>3
  <2>4. CASE ~(x >= v[n])
    <3>1. \A y \in Below(n) : v[n] >= y
      BY <2>1, <2>2, <2>4
    <3> QED  BY <2>2, <3>1
  <2> QED  BY <2>3, <2>4
<1>3. N \in done
  <2> HIDE DEF done
  <2>1. 0 .. N \subseteq done
    BY <1>1, <1>2, BoundedInduction
  <2> QED  BY <2>1
<1>4. Below(N) \subseteq Int /\ 1 \in Below(N)
  OBVIOUS
<1> HIDE DEF Below
<1>5. PICK x \in Below(N) : \A y \in Below(N) : x >= y
  BY <1>3
<1>6. Max(Below(N)) \in Below(N) /\ \A y \in Below(N) : Max(Below(N)) >= y
  BY <1>5 DEF Max
<1>7. Max(Below(N)) \in Int /\ Max(Below(N)) >= 1
  BY <1>4, <1>6
<1>8. \A i \in 1 .. N : v[i] \in Below(N)
  BY DEF Below
<1> QED  BY <1>6, <1>7, <1>8 DEF Below

LEMMA MinOfTwo ==
    ASSUME NEW a \in Int, NEW b \in Int
    PROVE  Min({a, b}) \in Int /\ Min({a, b}) = IF a <= b THEN a ELSE b
BY DEF Min

LEMMA MaxOfTwo ==
    ASSUME NEW a \in Int, NEW b \in Int
    PROVE  Max({a, b}) \in Int /\ Max({a, b}) = IF a >= b THEN a ELSE b
BY DEF Max

-----------------------------------------------------------------------------
(* The brush of the timeline.  A chart ends at a number; a window is two. *)
FilterFields == {"query", "statuses", "types", "selected", "showTests", "failuresOnly", "direction",
                 "depth", "window", "showAll"}
IsWindow(w) == w = [start |-> w.start, end |-> w.end] /\ w.start \in Int /\ w.end \in Int
IsFilters(f) == f = [x \in FilterFields |-> f[x]] /\ IsWindow(f.window)
AreBars(items) == IsQueue(items) /\ \A i \in DOMAIN items : IsBar(items[i])
TimelineInv == AreBars(gantt.items) /\ IsFilters(filters)

LEMMA BarsOfSeq ==
    ASSUME NEW items, AreBars(items), NEW S, S = {items[i] : i \in DOMAIN items},
           NEW q \in Seq(S)
    PROVE  AreBars(q)
<1>1. IsQueue(q)
  BY QueueOf
<1>2. \A i \in DOMAIN q : q[i] \in S
  BY LenProperties
<1> QED  BY <1>1, <1>2 DEF AreBars

LEMMA ChartEnds ==
    ASSUME NEW g, AreBars(g.items), NEW f
    PROVE  ChartOf(g, f).maxEnd \in Int /\ ChartOf(g, f).maxEnd >= 1
<1> DEFINE S == {g.items[i] : i \in DOMAIN g.items}
           parents == FilteredParents(g, f)
           shown == DisplayedParents(g, f, parents)
           data == FilteredData(g, f)
<1>1. g.items \in Seq(S)
  BY DEF AreBars, IsQueue
<1> HIDE DEF S
<1>2. parents \in Seq(S)
  BY <1>1, OnlyFromSeq DEF FilteredParents
<1> HIDE DEF parents
<1>3. shown \in Seq(S)
  BY <1>2, OnlyFromSeq DEF DisplayedParents
<1> HIDE DEF shown
<1>4. WithChips(g, f, shown) \in Seq(S)
  <2> DEFINE chips == Only(g.items, {t \in ToSet(g.items) : IsChip(t) /\ t.parent \in ItemIds(shown)})
  <2>1. chips \in Seq(S)
    BY <1>1, OnlyFromSeq
  <2> HIDE DEF chips
  <2>2. shown \o chips \in Seq(S)
    BY <1>3, <2>1, ConcatProperties
  <2> QED  BY <1>3, <2>2 DEF WithChips, chips
<1>5. data \in Seq(S)
  BY <1>4 DEF FilteredData, shown, parents
<1> HIDE DEF data
<1>6. AreBars(data)
  BY <1>5, BarsOfSeq DEF S
<1>7. Len(data) \in Nat /\ DOMAIN data = 1 .. Len(data)
  BY <1>5, LenProperties
<1> DEFINE v == [i \in 1 .. Len(data) |-> data[i].end]
<1>8. \A i \in 1 .. Len(data) : v[i] \in Int
  BY <1>6, <1>7 DEF AreBars, IsBar
<1>9. {v[i] : i \in 1 .. Len(data)} = {data[i].end : i \in DOMAIN data}
  BY <1>7
<1> HIDE DEF v
<1>10. LET E == {1} \cup {data[i].end : i \in DOMAIN data} IN Max(E) \in Int /\ Max(E) >= 1
  BY <1>7, <1>8, <1>9, LargestOf
<1>11. ChartOf(g, f).maxEnd = Max({1} \cup {data[i].end : i \in DOMAIN data})
  BY DEF ChartOf, ChartOfData, ChartOfBundles, ChartOfRows, Chart, data
<1> QED  BY <1>10, <1>11

LEMMA LeastWindow ==
    ASSUME NEW maxEnd \in Int, maxEnd >= 1
    PROVE  MinWindow(maxEnd) \in Int /\ 1 <= MinWindow(maxEnd) /\ MinWindow(maxEnd) <= maxEnd
<1> DEFINE m == Max({MinBrushWindow, maxEnd \div 100})
<1>1. MinBrushWindow \in Int /\ MinBrushWindow >= 1 /\ maxEnd \div 100 \in Int
  BY RunsOfBars
<1>2. m \in Int /\ m >= 1
  BY <1>1, MaxOfTwo
<1> HIDE DEF m
<1>3. Min({m, maxEnd}) \in Int /\ Min({m, maxEnd}) = IF m <= maxEnd THEN m ELSE maxEnd
  BY <1>2, MinOfTwo
<1> QED  BY <1>2, <1>3 DEF MinWindow, m

LEMMA WindowIsClamped ==
    ASSUME NEW maxEnd \in Int, maxEnd >= 1, NEW w, IsWindow(w)
    PROVE  LET c == ClampWindow(w, maxEnd)
               In(x) == IF x < 0 THEN 0 ELSE IF x > maxEnd THEN maxEnd ELSE x
           IN  IsWindow(c) /\ c.start = In(w.start) /\ c.end = In(w.end)
<1> DEFINE In(x) == IF x < 0 THEN 0 ELSE IF x > maxEnd THEN maxEnd ELSE x
<1>1. \A x \in Int : Max({0, Min({x, maxEnd})}) \in Int /\ Max({0, Min({x, maxEnd})}) = In(x)
  <2> TAKE x \in Int
  <2>1. Min({x, maxEnd}) \in Int /\ Min({x, maxEnd}) = IF x <= maxEnd THEN x ELSE maxEnd
    BY MinOfTwo
  <2>2. PICK y \in Int : y = Min({x, maxEnd})
    BY <2>1
  <2>3. Max({0, y}) \in Int /\ Max({0, y}) = IF 0 >= y THEN 0 ELSE y
    BY MaxOfTwo
  <2> QED  BY <2>1, <2>2, <2>3
<1>2. w.start \in Int /\ w.end \in Int
  BY DEF IsWindow
<1>3. ClampWindow(w, maxEnd) = [start |-> In(w.start), end |-> In(w.end)]
  BY <1>1, <1>2 DEF ClampWindow
<1>4. In(w.start) \in Int /\ In(w.end) \in Int
  BY <1>2
<1> QED  BY <1>3, <1>4 DEF IsWindow

\* Where a drag has come to.
LEMMA DraggedIs ==
    ASSUME NEW maxEnd \in Int, maxEnd >= 1, NEW selection, IsWindow(selection),
           NEW mode \in {"create", "pan", "start", "end"}, NEW from \in Int, NEW to \in Int,
           NEW w, w = Dragged(mode, from, to, selection, maxEnd)
    PROVE  /\ IsWindow(w)
           /\ mode = "pan" =>
                  /\ w.end = w.start + (selection.end - selection.start)
                  /\ selection.end - selection.start <= maxEnd => 0 <= w.start /\ w.end <= maxEnd
           /\ mode = "start" => /\ w.end = selection.end
                                /\ w.start <= selection.end - MinWindow(maxEnd)
           /\ mode = "end" => /\ w.start = selection.start
                              /\ w.end >= selection.start + MinWindow(maxEnd)
<1> DEFINE m == MinWindow(maxEnd)
           s == selection.start
           e == selection.end
<1>1. m \in Int /\ s \in Int /\ e \in Int /\ selection = [start |-> s, end |-> e]
  BY LeastWindow DEF IsWindow
<1> HIDE DEF m
<1>2. CASE mode = "create"
  <2>1. w = [start |-> Min({from, to}), end |-> Max({from, to})]
    BY <1>2 DEF Dragged
  <2>2. Min({from, to}) \in Int /\ Max({from, to}) \in Int
    BY MinOfTwo, MaxOfTwo
  <2> QED  BY <1>2, <2>1, <2>2 DEF IsWindow
<1>3. CASE mode = "pan"
  <2> DEFINE x == Max({0, s + (to - from)})
             a == Min({x, maxEnd - (e - s)})
  <2>1. x \in Int /\ x >= 0
    <3>1. s + (to - from) \in Int
      BY <1>1
    <3> QED  BY <3>1, MaxOfTwo
  <2> HIDE DEF x
  <2>2. maxEnd - (e - s) \in Int
    BY <1>1
  <2>3. a \in Int /\ a = IF x <= maxEnd - (e - s) THEN x ELSE maxEnd - (e - s)
    BY <2>1, <2>2, MinOfTwo
  <2> HIDE DEF a
  <2>4. w = [start |-> a, end |-> a + (e - s)]
    BY <1>3 DEF Dragged, a, x
  <2>5. IsWindow(w)
    BY <1>1, <2>3, <2>4 DEF IsWindow
  <2> QED  BY <1>1, <1>3, <2>1, <2>3, <2>4, <2>5
<1>4. CASE mode = "start"
  <2> DEFINE x == Max({0, s + (to - from)})
             a == Min({x, e - m})
  <2>1. x \in Int
    <3>1. s + (to - from) \in Int
      BY <1>1
    <3> QED  BY <3>1, MaxOfTwo
  <2> HIDE DEF x
  <2>2. e - m \in Int
    BY <1>1
  <2>3. a \in Int /\ a = IF x <= e - m THEN x ELSE e - m
    BY <2>1, <2>2, MinOfTwo
  <2> HIDE DEF a
  <2>4. w = [selection EXCEPT !.start = a]
    BY <1>4 DEF Dragged, a, x, m
  <2>5. w = [start |-> a, end |-> e]
    BY <1>1, <2>4
  <2>6. IsWindow(w)
    BY <1>1, <2>3, <2>5 DEF IsWindow
  <2> QED  BY <1>1, <1>4, <2>1, <2>3, <2>5, <2>6 DEF m
<1>5. CASE mode = "end"
  <2> DEFINE x == Min({maxEnd, e + (to - from)})
             a == Max({x, s + m})
  <2>1. x \in Int
    <3>1. e + (to - from) \in Int
      BY <1>1
    <3> QED  BY <3>1, MinOfTwo
  <2> HIDE DEF x
  <2>2. s + m \in Int
    BY <1>1
  <2>3. a \in Int /\ a = IF x >= s + m THEN x ELSE s + m
    BY <2>1, <2>2, MaxOfTwo
  <2> HIDE DEF a
  <2>4. w = [selection EXCEPT !.end = a]
    BY <1>5 DEF Dragged, a, x, m
  <2>5. w = [start |-> s, end |-> a]
    BY <1>1, <2>4
  <2>6. IsWindow(w)
    BY <1>1, <2>3, <2>5 DEF IsWindow
  <2> QED  BY <1>1, <1>5, <2>1, <2>3, <2>5, <2>6 DEF m
<1> QED  BY <1>2, <1>3, <1>4, <1>5

\* What the end of a drag leaves, as it is shown.
WindowOf(w, maxEnd) == IF w = FullRun THEN [start |-> 0, end |-> maxEnd] ELSE w

LEMMA DragEndsInside ==
    ASSUME NEW maxEnd \in Int, maxEnd >= 1, NEW selection, IsWindow(selection),
           NEW mode \in {"create", "pan", "start", "end"}, NEW from \in Int, NEW to \in Int,
           IsWindow(filters.window),
           NEW w, w = EndBrushDrag(Dragged(mode, from, to, selection, maxEnd), mode, maxEnd)
    PROVE  /\ IsWindow(w)
           /\ w = filters.window \/ WindowStaysInside(selection, WindowOf(w, maxEnd), maxEnd)
<1> DEFINE d == Dragged(mode, from, to, selection, maxEnd)
           c == ClampWindow(d, maxEnd)
           m == MinWindow(maxEnd)
           s == selection.start
           e == selection.end
           In(x) == IF x < 0 THEN 0 ELSE IF x > maxEnd THEN maxEnd ELSE x
<1>1. m \in Int /\ 1 <= m /\ m <= maxEnd /\ s \in Int /\ e \in Int
  BY LeastWindow DEF IsWindow
<1>2. /\ IsWindow(d)
      /\ mode = "pan" => /\ d.end = d.start + (e - s)
                         /\ e - s <= maxEnd => 0 <= d.start /\ d.end <= maxEnd
      /\ mode = "start" => d.end = e /\ d.start <= e - m
      /\ mode = "end" => d.start = s /\ d.end >= s + m
  BY DraggedIs
<1> HIDE DEF d
<1>3. IsWindow(c) /\ c.start = In(d.start) /\ c.end = In(d.end)
  BY <1>2, WindowIsClamped
<1>4. w = CASE mode = "create" /\ c.end - c.start < m -> filters.window
            [] c.start <= 0 /\ c.end >= maxEnd
               /\ (mode # "create" \/ c.end - c.start >= m) -> FullRun
            [] OTHER -> c
  BY DEF EndBrushDrag, d, c, m
<1> HIDE DEF c, m
<1>5. IsWindow(FullRun)
  BY DEF IsWindow, FullRun
<1>6. \/ w = filters.window
      \/ (mode = "create" => c.end - c.start >= m) /\ w = FullRun
      \/ (mode = "create" => c.end - c.start >= m) /\ w = c
  <2>1. CASE mode = "create" /\ c.end - c.start < m
    BY <1>4, <2>1
  <2>2. CASE ~(mode = "create" /\ c.end - c.start < m)
    <3>1. mode = "create" => c.end - c.start >= m
      BY <1>1, <1>3, <2>2 DEF IsWindow
    <3> QED  BY <1>4, <2>2, <3>1
  <2> QED  BY <2>1, <2>2
<1>7. IsWindow(w)
  BY <1>3, <1>5, <1>6
<1>8. WindowOf(FullRun, maxEnd).start = 0 /\ WindowOf(FullRun, maxEnd).end = maxEnd
  BY DEF WindowOf
<1>9. ASSUME IsInside(selection, maxEnd), mode = "create" => c.end - c.start >= m
      PROVE  0 <= c.start /\ c.end <= maxEnd /\ c.start < c.end
             /\ (c.end - c.start >= m \/ c.end - c.start >= e - s)
  <2>1. 0 <= s /\ s < e /\ e <= maxEnd
    BY <1>9 DEF IsInside
  <2>2. d.start \in Int /\ d.end \in Int
    BY <1>2 DEF IsWindow
  <2>3. CASE mode = "create"
    BY <1>1, <1>3, <1>9, <2>2, <2>3
  <2>4. CASE mode = "pan"
    BY <1>1, <1>2, <1>3, <2>1, <2>2, <2>4
  <2>5. CASE mode = "start"
    BY <1>1, <1>2, <1>3, <2>1, <2>2, <2>5
  <2>6. CASE mode = "end"
    BY <1>1, <1>2, <1>3, <2>1, <2>2, <2>6
  <2> QED  BY <2>3, <2>4, <2>5, <2>6
<1>10. Min({m, e - s}) \in Int /\ Min({m, e - s}) <= m /\ Min({m, e - s}) <= e - s
  BY <1>1, MinOfTwo
<1>11. ASSUME w # filters.window PROVE WindowStaysInside(selection, WindowOf(w, maxEnd), maxEnd)
  <2> SUFFICES ASSUME IsInside(selection, maxEnd)
               PROVE  /\ IsInside(WindowOf(w, maxEnd), maxEnd)
                      /\ WindowOf(w, maxEnd).end - WindowOf(w, maxEnd).start >= Min({m, e - s})
    BY DEF WindowStaysInside, m
  <2>1. CASE w = FullRun
    BY <1>1, <1>8, <1>10, <2>1 DEF IsInside
  <2>2. CASE w # FullRun
    <3>1. w = c /\ WindowOf(w, maxEnd) = c /\ (mode = "create" => c.end - c.start >= m)
      BY <1>6, <1>11, <2>2 DEF WindowOf
    <3>2. c.start \in Int /\ c.end \in Int
      BY <1>3 DEF IsWindow
    <3> QED  BY <1>1, <1>9, <1>10, <3>1, <3>2 DEF IsInside
  <2> QED  BY <2>1, <2>2
<1> QED  BY <1>7, <1>11

-----------------------------------------------------------------------------
(* Only the brush moves the window. *)
WindowChange ==
    filters'.window # filters.window =>
        WindowStaysInside(WindowOf(filters.window, ChartOf(gantt, filters).maxEnd),
                          WindowOf(filters'.window, ChartOf(gantt, filters).maxEnd),
                          ChartOf(gantt, filters).maxEnd)

LEMMA WindowMoved ==
    ASSUME NEW w, IsWindow(w), IsFilters(filters), filters' = [filters EXCEPT !.window = w]
    PROVE  IsFilters(filters') /\ filters'.window = w
BY DEF IsFilters, FilterFields

LEMMA DragBrushStep ==
    ASSUME TimelineInv, DragBrush
    PROVE  TimelineInv' /\ WindowChange
<1> DEFINE chart == ChartOf(gantt, filters)
           E == chart.maxEnd
           selection == WindowOf(filters.window, E)
<1>1. E \in Int /\ E >= 1
  BY ChartEnds DEF TimelineInv
<1>2. IsWindow(filters.window) /\ IsFilters(filters)
  BY DEF TimelineInv, IsFilters
<1>3. BrushSelection(filters, E) = selection
  BY DEF BrushSelection, WindowOf
<1>4. PICK w \in BrushedOver(chart) : SetFilters([filters EXCEPT !.window = w])
  BY DEF DragBrush
<1>5. w \in DraggedWindows(chart, selection)
  BY <1>3, <1>4 DEF BrushedOver
<1> HIDE DEF chart
<1>6. PICK d \in {"create", "pan", "start", "end"} \X (BrushPoints \cap 0 .. E), to \in BrushPoints :
          w = EndBrushDrag(Dragged(d[1], d[2], to, selection, E), d[1], E)
  BY <1>5 DEF DraggedWindows
<1>7. d[1] \in {"create", "pan", "start", "end"} /\ d[2] \in Int /\ to \in Int
  BY <1>6, RunsOfBars
<1>8. IsWindow(selection)
  BY <1>1, <1>2 DEF WindowOf, IsWindow
<1> HIDE DEF selection, E
<1>9. /\ IsWindow(w)
      /\ w = filters.window \/ WindowStaysInside(selection, WindowOf(w, E), E)
  BY <1>1, <1>2, <1>6, <1>7, <1>8, DragEndsInside
<1>10. filters' = [filters EXCEPT !.window = w] /\ gantt' = gantt
  BY <1>4 DEF SetFilters, Click
<1>11. IsFilters(filters') /\ filters'.window = w
  BY <1>2, <1>9, <1>10, WindowMoved
<1>12. TimelineInv'
  BY <1>10, <1>11 DEF TimelineInv
<1>13. WindowChange
  BY <1>9, <1>11 DEF WindowChange, selection, E, chart
<1> QED  BY <1>12, <1>13

LEMMA ResetZoomStep ==
    ASSUME TimelineInv, ResetZoom
    PROVE  TimelineInv' /\ WindowChange
<1> DEFINE E == ChartOf(gantt, filters).maxEnd
           selection == WindowOf(filters.window, E)
<1>1. E \in Int /\ E >= 1
  BY ChartEnds DEF TimelineInv
<1> HIDE DEF E
<1>2. IsWindow(FullRun) /\ IsFilters(filters) /\ IsWindow(filters.window)
  BY DEF IsWindow, FullRun, TimelineInv, IsFilters
<1>3. filters' = [filters EXCEPT !.window = FullRun] /\ gantt' = gantt
  BY DEF ResetZoom, SetFilters, Click
<1>4. IsFilters(filters') /\ filters'.window = FullRun
  BY <1>2, <1>3, WindowMoved
<1>5. TimelineInv'
  BY <1>3, <1>4 DEF TimelineInv
<1>6. selection.start \in Int /\ selection.end \in Int
  BY <1>1, <1>2 DEF WindowOf, IsWindow
<1> HIDE DEF selection
<1>7. WindowOf(FullRun, E).start = 0 /\ WindowOf(FullRun, E).end = E
  BY DEF WindowOf
<1>8. MinWindow(E) \in Int /\ MinWindow(E) <= E
  BY <1>1, LeastWindow
<1>9. LET least == Min({MinWindow(E), selection.end - selection.start}) IN least \in Int /\ least <= E
  BY <1>6, <1>8, <1>1, MinOfTwo
<1>10. WindowStaysInside(selection, WindowOf(FullRun, E), E)
  BY <1>1, <1>7, <1>9 DEF WindowStaysInside, IsInside
<1> QED  BY <1>4, <1>5, <1>10 DEF WindowChange, selection, E

LEMMA OtherStep ==
    ASSUME TimelineInv, TimelineNext, ~DragBrush, ~ResetZoom
    PROVE  TimelineInv' /\ WindowChange
<1>1. IsFilters(filters)
  BY DEF TimelineInv
<1>2. IsFilters(filters') /\ filters'.window = filters.window /\ gantt' = gantt
  <2>1. CASE ToggleTimelineStatus
    BY <1>1, <2>1 DEF ToggleTimelineStatus, SetFilters, Click, IsFilters, FilterFields
  <2>2. CASE ToggleTimelineType
    BY <1>1, <2>2 DEF ToggleTimelineType, SetFilters, Click, IsFilters, FilterFields
  <2>3. CASE ToggleShowTests
    BY <1>1, <2>3 DEF ToggleShowTests, SetFilters, Click, IsFilters, FilterFields
  <2>4. CASE ToggleFailuresOnly
    BY <1>1, <2>4 DEF ToggleFailuresOnly, SetFilters, Click, IsFilters, FilterFields
  <2>5. CASE SearchTimeline
    BY <1>1, <2>5 DEF SearchTimeline, SetFilters, Click, IsFilters, FilterFields
  <2>6. CASE ClearTimelineFilters
    BY <1>1, <2>6 DEF ClearTimelineFilters, SetFilters, Click, IsFilters, FilterFields
  <2>7. CASE SetTimelineDepth
    BY <1>1, <2>7 DEF SetTimelineDepth, SetFilters, Click, IsFilters, FilterFields
  <2>8. CASE SetTimelineDirection
    BY <1>1, <2>8 DEF SetTimelineDirection, SetFilters, Click, IsFilters, FilterFields
  <2>9. CASE ToggleNeighborhoodRows
    BY <1>1, <2>9 DEF ToggleNeighborhoodRows, SetFilters, Click, IsFilters, FilterFields
  <2>10. \A id : SelectItem(id) => IsFilters(filters') /\ filters'.window = filters.window
                                   /\ gantt' = gantt
    BY <1>1 DEF SelectItem, SetFilters, Click, IsFilters, FilterFields
  <2>11. CASE PointerClick \/ PressEnter
    BY <2>10, <2>11 DEF PointerClick, PressEnter
  <2>12. CASE PointerMove \/ PointerLeave
    BY <1>1, <2>12 DEF PointerMove, PointerLeave, Click
  <2> QED
    BY <2>1, <2>2, <2>3, <2>4, <2>5, <2>6, <2>7, <2>8, <2>9, <2>11, <2>12 DEF TimelineNext
<1> QED  BY <1>2 DEF TimelineInv, WindowChange

LEMMA TimelineStep ==
    ASSUME TimelineInv, [Next]_investigationVars
    PROVE  TimelineInv' /\ [WindowChange]_timelineVars
<1>1. TimelineNext \/ UNCHANGED timelineVars
  BY DEF Next, investigationVars
<1>2. CASE TimelineNext
  BY <1>2, DragBrushStep, ResetZoomStep, OtherStep
<1>3. CASE UNCHANGED timelineVars
  BY <1>3 DEF TimelineInv, timelineVars
<1> QED  BY <1>1, <1>2, <1>3

LEMMA TimelineStartInv ==
    ASSUME NEW g, NEW defaults, NEW selected, AreBars(g.items), TimelineStart(g, defaults, selected)
    PROVE  TimelineInv
<1>1. gantt = g /\ filters.window = FullRun
  BY DEF TimelineStart
<1>2. filters = [x \in FilterFields |-> filters[x]]
  BY DEF TimelineStart, FilterFields
<1>3. IsWindow(FullRun)
  BY DEF IsWindow, FullRun
<1> QED  BY <1>1, <1>2, <1>3 DEF TimelineInv, IsFilters

LEMMA InitTimeline == Init => TimelineInv
<1> SUFFICES ASSUME Init PROVE TimelineInv
  OBVIOUS
<1>1. CASE scene = "timeline"
  <2>1. PICK g \in TimelineRuns : \E defaults, selected : TimelineStart(g, defaults, selected)
    BY <1>1 DEF Init, StartTimeline
  <2>2. AreBars(g.items)
    BY RunsOfBars DEF AreBars, IsQueue
  <2> QED  BY <2>1, <2>2, TimelineStartInv
<1>2. CASE scene # "timeline"
  <2>1. PICK g, defaults, selected : TimelineStart(g, defaults, selected) /\ g.items = <<>>
    BY <1>2 DEF Init, IdleTimeline
  <2>2. AreBars(<<>>)
    BY DEF AreBars, IsQueue
  <2> QED  BY <2>1, <2>2, TimelineStartInv
<1> QED  BY <1>1, <1>2

(* A drag of the brush from a window inside the run ends with one inside it, no shorter than   *)
(* the least one unless it already was (GanttTimeBrush.tsx:97).                                *)
THEOREM DragKeepsWindowAlways == Spec => DragKeepsWindow
<1>1. [WindowChange]_timelineVars =>
          [filters'.window # filters.window =>
               ChangeStaysInside(ChartOf(gantt, filters).maxEnd)]_timelineVars
  BY DEF WindowChange, ChangeStaysInside, BrushSelection, WindowOf
<1>2. TimelineInv /\ [Next]_investigationVars
      => TimelineInv' /\ [filters'.window # filters.window =>
                              ChangeStaysInside(ChartOf(gantt, filters).maxEnd)]_timelineVars
  BY <1>1, TimelineStep
<1> QED  BY <1>2, InitTimeline, PTL DEF Spec, DragKeepsWindow

-----------------------------------------------------------------------------
(* Sorts: the same, as often. *)
LEMMA LargestIn ==
    ASSUME NEW N \in Nat, NEW A \in SUBSET (0 .. N), A # {}
    PROVE  Max(A) \in A /\ \A x \in A : Max(A) >= x
<1> DEFINE B == {N - a : a \in A}
<1>1. B \in SUBSET Nat /\ B # {}
  <2>1. \A a \in A : N - a \in Nat
    OBVIOUS
  <2> QED  BY <2>1
<1>2. PICK b \in B : \A c \in B : b <= c
  BY <1>1, SmallestNumber
<1>3. PICK a \in A : b = N - a
  OBVIOUS
<1>4. \A x \in A : a >= x
  <2> TAKE x \in A
  <2>1. N - x \in B /\ a \in Nat /\ x \in Nat
    OBVIOUS
  <2> HIDE DEF B
  <2> QED  BY <1>2, <1>3, <2>1
<1> QED  BY <1>4 DEF Max

(* Where an element goes: after those that it is not earlier than. *)
IsInserted(r, q, x, p) ==
    /\ Len(r) = Len(q) + 1
    /\ \A i \in 1 .. Len(q) + 1 : r[i] = IF i < p THEN q[i] ELSE IF i = p THEN x ELSE q[i - 1]
LEMMA InsertPlaces ==
    ASSUME NEW S, NEW q \in Seq(S), NEW x \in S, NEW earlier
    PROVE  LET p == PlaceOf(q, x, earlier)
           IN  /\ p \in 1 .. Len(q) + 1
               /\ p > 1 => <<x, q[p - 1]>> \notin earlier
               /\ \A k \in p .. Len(q) : <<x, q[k]>> \in earlier
               /\ Insert(q, x, earlier) \in Seq(S) /\ IsInserted(Insert(q, x, earlier), q, x, p)
<1> DEFINE r == Insert(q, x, earlier)
           N == Len(q)
           A == {0} \cup {k \in 1 .. N : <<x, q[k]>> \notin earlier}
           p == PlaceOf(q, x, earlier)
<1>1. N \in Nat /\ DOMAIN q = 1 .. N /\ \A i \in 1 .. N : q[i] \in S
  BY LenProperties
<1>2. /\ p \in 1 .. N + 1
      /\ p > 1 => <<x, q[p - 1]>> \notin earlier
      /\ \A k \in p .. N : <<x, q[k]>> \in earlier
  <2>1. A \in SUBSET (0 .. N) /\ A # {}
    BY <1>1
  <2>2. \A k \in 1 .. N : k \in A <=> <<x, q[k]>> \notin earlier
    OBVIOUS
  <2> HIDE DEF A
  <2>3. PICK m \in A : p = m + 1 /\ \A y \in A : m >= y
    <3>1. Max(A) \in A /\ \A y \in A : Max(A) >= y
      BY <1>1, <2>1, LargestIn
    <3>2. p = Max(A) + 1
      BY DEF PlaceOf, A
    <3> HIDE DEF p
    <3> QED  BY <3>1, <3>2
  <2> HIDE DEF p, N
  <2>4. m \in 0 .. N
    BY <2>1
  <2>5. p > 1 => <<x, q[p - 1]>> \notin earlier
    <3>1. p > 1 => p - 1 \in 1 .. N /\ p - 1 = m
      BY <1>1, <2>3, <2>4
    <3> QED  BY <2>2, <3>1
  <2>6. ASSUME NEW k \in p .. N PROVE <<x, q[k]>> \in earlier
    <3>1. k \in 1 .. N /\ ~(m >= k)
      BY <1>1, <2>3, <2>4
    <3> QED  BY <2>2, <2>3, <3>1
  <2>7. p \in 1 .. N + 1
    BY <1>1, <2>3, <2>4
  <2> QED  BY <2>5, <2>6, <2>7
<1> DEFINE a == SubSeq(q, 1, p - 1)
           b == SubSeq(q, p, N)
<1>3. r = a \o <<x>> \o b
  BY DEF Insert, InsertAt
<1> HIDE DEF p, r, N
<1>4. a \in Seq(S) /\ Len(a) = p - 1 /\ \A i \in 1 .. p - 1 : a[i] = q[i]
  <2>1. \A i \in 1 .. p - 1 : q[i] \in S
    BY <1>1, <1>2
  <2>2. 1 \in Int /\ p - 1 \in Int
    BY <1>2
  <2>3. /\ a \in Seq(S) /\ Len(a) = (IF 1 <= p - 1 THEN (p - 1) - 1 + 1 ELSE 0)
        /\ \A i \in 1 .. (p - 1) - 1 + 1 : a[i] = q[1 + i - 1]
    BY ONLY <2>1, <2>2, SubSeqProperties
  <2> HIDE DEF a
  <2>4. Len(a) = p - 1
    BY <1>2, <2>3
  <2>5. \A i \in 1 .. p - 1 : a[i] = q[i]
    BY <1>2, <2>3
  <2> QED  BY <2>3, <2>4, <2>5
<1>5. b \in Seq(S) /\ Len(b) = N - p + 1 /\ \A i \in 1 .. N - p + 1 : b[i] = q[p + i - 1]
  <2>1. \A i \in p .. N : q[i] \in S
    BY <1>1, <1>2
  <2>2. p \in Int /\ N \in Int
    BY <1>1, <1>2
  <2>3. /\ b \in Seq(S) /\ Len(b) = (IF p <= N THEN N - p + 1 ELSE 0)
        /\ \A i \in 1 .. N - p + 1 : b[i] = q[p + i - 1]
    BY ONLY <2>1, <2>2, SubSeqProperties
  <2> HIDE DEF b
  <2>4. Len(b) = N - p + 1
    BY <1>1, <1>2, <2>3
  <2> QED  BY <2>3, <2>4
<1> HIDE DEF a, b
<1>6. <<x>> \in Seq(S) /\ Len(<<x>>) = 1 /\ <<x>>[1] = x
  OBVIOUS
<1> DEFINE u == <<x>>
           v == a \o u
<1> HIDE DEF u
<1>7. v \in Seq(S) /\ Len(v) = p /\ \A i \in 1 .. p : v[i] = IF i < p THEN q[i] ELSE x
  <2>1. /\ v \in Seq(S) /\ Len(v) = Len(a) + Len(u)
        /\ \A i \in 1 .. Len(a) + Len(u) : v[i] = IF i <= Len(a) THEN a[i] ELSE u[i - Len(a)]
    BY <1>4, <1>6, ConcatProperties DEF u
  <2> HIDE DEF v
  <2>2. Len(u) = 1 /\ u[1] = x
    BY <1>6 DEF u
  <2>3. ASSUME NEW i \in 1 .. p PROVE v[i] = IF i < p THEN q[i] ELSE x
    <3>1. v[i] = IF i <= p - 1 THEN a[i] ELSE u[i - (p - 1)]
      BY <1>2, <1>4, <2>1, <2>2
    <3>2. CASE i < p
      <4>1. i <= p - 1 /\ i \in 1 .. p - 1
        BY <1>2, <3>2
      <4> QED  BY <1>4, <3>1, <3>2, <4>1
    <3>3. CASE ~(i < p)
      <4>1. ~(i <= p - 1) /\ i - (p - 1) = 1
        BY <1>2, <3>3
      <4> QED  BY <2>2, <3>1, <3>3, <4>1
    <3> QED  BY <3>2, <3>3
  <2> QED  BY <1>2, <1>4, <2>1, <2>2, <2>3
<1>8. r = v \o b
  BY <1>3 DEF u, v
<1> HIDE DEF v
<1>9. /\ r \in Seq(S) /\ Len(r) = N + 1
      /\ \A i \in 1 .. N + 1 : r[i] = IF i < p THEN q[i] ELSE IF i = p THEN x ELSE q[i - 1]
  <2>1. /\ r \in Seq(S) /\ Len(r) = Len(v) + Len(b)
        /\ \A i \in 1 .. Len(v) + Len(b) : r[i] = IF i <= Len(v) THEN v[i] ELSE b[i - Len(v)]
    BY <1>5, <1>7, <1>8, ConcatProperties
  <2>2. Len(r) = N + 1
    BY <1>1, <1>2, <1>5, <1>7, <2>1
  <2>3. ASSUME NEW i \in 1 .. N + 1
        PROVE  r[i] = IF i < p THEN q[i] ELSE IF i = p THEN x ELSE q[i - 1]
    <3>1. r[i] = IF i <= p THEN v[i] ELSE b[i - p]
      BY <1>1, <1>2, <1>5, <1>7, <2>1
    <3>2. CASE i <= p
      <4>1. i \in 1 .. p
        BY <1>2, <3>2
      <4> QED  BY <1>2, <1>7, <3>1, <3>2, <4>1
    <3>3. CASE ~(i <= p)
      <4>1. i - p \in 1 .. N - p + 1 /\ p + (i - p) - 1 = i - 1 /\ ~(i < p) /\ i # p
        BY <1>1, <1>2, <3>3
      <4> QED  BY <1>5, <3>1, <3>3, <4>1
    <3> QED  BY <3>2, <3>3
  <2> QED  BY <2>1, <2>2, <2>3
<1> QED  BY <1>1, <1>2, <1>9 DEF IsInserted, p, r, N

LEMMA InsertMembers ==
    ASSUME NEW S, NEW q \in Seq(S), NEW x \in S, NEW earlier
    PROVE  LET r == Insert(q, x, earlier)
           IN  /\ r \in Seq(S) /\ ToSet(r) = ToSet(q) \cup {x} /\ Len(r) = Len(q) + 1
               /\ DistinctIds(q) /\ (\A y \in ToSet(q) : y.id # x.id) => DistinctIds(r)
<1> DEFINE r == Insert(q, x, earlier)
           N == Len(q)
           p == PlaceOf(q, x, earlier)
<1>1. N \in Nat /\ DOMAIN q = 1 .. N /\ \A i \in 1 .. N : q[i] \in S
  BY LenProperties
<1>2. p \in 1 .. N + 1 /\ r \in Seq(S) /\ IsInserted(r, q, x, p)
  BY InsertPlaces
<1> HIDE DEF p, r
<1>3. /\ r \in Seq(S) /\ Len(r) = N + 1
      /\ \A i \in 1 .. N + 1 : r[i] = IF i < p THEN q[i] ELSE IF i = p THEN x ELSE q[i - 1]
  BY <1>2 DEF IsInserted
<1> HIDE DEF N
<1>4. DOMAIN r = 1 .. N + 1
  BY <1>3, LenProperties
<1>5. ToSet(r) = ToSet(q) \cup {x}
  <2>1. ASSUME NEW y \in ToSet(r) PROVE y \in ToSet(q) \cup {x}
    <3>1. PICK i \in 1 .. N + 1 : y = r[i]
      BY <1>4, <2>1 DEF ToSet
    <3>2. CASE i < p
      <4>1. i \in 1 .. N
        BY <1>1, <1>2, <3>2
      <4> QED  BY <1>1, <1>3, <3>1, <3>2, <4>1 DEF ToSet
    <3>3. CASE i = p
      BY <1>2, <1>3, <3>1, <3>3
    <3>4. CASE i > p
      <4>1. i - 1 \in 1 .. N /\ ~(i < p) /\ i # p
        BY <1>1, <1>2, <3>4
      <4> QED  BY <1>1, <1>3, <3>1, <4>1 DEF ToSet
    <3> QED  BY <1>2, <3>2, <3>3, <3>4
  <2>2. ASSUME NEW y \in ToSet(q) PROVE y \in ToSet(r)
    <3>1. PICK i \in 1 .. N : y = q[i]
      BY <1>1, <2>2 DEF ToSet
    <3>2. CASE i < p
      <4>1. i \in 1 .. N + 1 /\ r[i] = q[i]
        BY <1>1, <1>3, <3>2
      <4> QED  BY <1>4, <3>1, <4>1 DEF ToSet
    <3>3. CASE ~(i < p)
      <4>1. i + 1 \in 1 .. N + 1 /\ ~(i + 1 < p) /\ i + 1 # p /\ (i + 1) - 1 = i
        BY <1>1, <1>2, <3>3
      <4>2. r[i + 1] = q[i]
        BY <1>3, <4>1
      <4> QED  BY <1>4, <3>1, <4>1, <4>2 DEF ToSet
    <3> QED  BY <3>2, <3>3
  <2>3. x \in ToSet(r)
    <3>1. p \in 1 .. N + 1 /\ r[p] = x
      BY <1>1, <1>2, <1>3
    <3> QED  BY <1>4, <3>1 DEF ToSet
  <2> QED  BY <2>1, <2>2, <2>3
<1>6. ASSUME DistinctIds(q), \A y \in ToSet(q) : y.id # x.id PROVE DistinctIds(r)
  <2> SUFFICES ASSUME NEW i \in 1 .. N + 1, NEW j \in 1 .. N + 1, r[i].id = r[j].id PROVE i = j
    BY <1>3 DEF DistinctIds
  <2> DEFINE At(k) == IF k < p THEN k ELSE k - 1
  <2>1. \A k \in 1 .. N : q[k].id # x.id
    BY <1>1, <1>6 DEF ToSet
  <2>2. \A k \in 1 .. N + 1 : k # p => At(k) \in 1 .. N /\ r[k] = q[At(k)]
    BY <1>1, <1>2, <1>3
  <2>3. r[p] = x
    BY <1>2, <1>3
  <2>4. CASE i # p /\ j # p
    <3>1. At(i) = At(j)
      BY <1>6, <2>2, <2>4 DEF DistinctIds, N
    <3> QED  BY <1>2, <2>4, <3>1
  <2>5. CASE i = p \/ j = p
    BY <2>1, <2>2, <2>3, <2>5
  <2> QED  BY <2>4, <2>5
<1> QED  BY <1>3, <1>5, <1>6 DEF r, N

(* What is sorted is inserted one by one. *)
Inserts(f, s, earlier) ==
    /\ f[0] = <<>> /\ \A n \in 1 .. Len(s) : f[n] = Insert(f[n - 1], s[n], earlier)
    /\ Sorted(s, earlier) = f[Len(s)]

LEMMA SortedInserts ==
    ASSUME NEW S, NEW s \in Seq(S), NEW earlier
    PROVE  \E f \in [0 .. Len(s) -> Seq(S)] : Inserts(f, s, earlier)
<1> DEFINE N == Len(s)
           Defines(f) == f = [n \in 0 .. N |->
                                 IF n = 0 THEN <<>> ELSE Insert(f[n - 1], s[n], earlier)]
           step == [n \in 1 .. N |-> [q \in Seq(S) |-> Insert(q, s[n], earlier)]]
<1>1. N \in Nat /\ DOMAIN s = 1 .. N /\ \A n \in 1 .. N : s[n] \in S
  BY LenProperties
<1>2. step \in [1 .. N -> [Seq(S) -> Seq(S)]]
  <2>1. \A n \in 1 .. N : \A q \in Seq(S) : Insert(q, s[n], earlier) \in Seq(S)
    BY <1>1, InsertPlaces
  <2> QED  BY <2>1
<1>3. \A n \in 1 .. N : \A q \in Seq(S) : step[n][q] = Insert(q, s[n], earlier)
  OBVIOUS
<1> HIDE DEF step
<1>4. PICK f \in [0 .. N -> Seq(S)] : f[0] = <<>> /\ \A n \in 1 .. N : f[n] = step[n][f[n - 1]]
  <2> HIDE DEF N
  <2>1. PICK T : T = Seq(S)
    OBVIOUS
  <2>2. PICK first : first = <<>>
    OBVIOUS
  <2>3. N \in Nat /\ first \in T /\ step \in [1 .. N -> [T -> T]]
    BY <1>1, <1>2, <2>1, <2>2
  <2>4. \E f \in [0 .. N -> T] : f[0] = first /\ \A n \in 1 .. N : f[n] = step[n][f[n - 1]]
    BY ONLY <2>3, Iteration
  <2> QED  BY <2>1, <2>2, <2>4
<1>5. \A n \in 0 .. N : n # 0 => n \in 1 .. N /\ n - 1 \in 0 .. N /\ f[n - 1] \in Seq(S)
  <2> HIDE DEF N
  <2> QED  BY <1>1, <1>4
<1>6. Defines(f)
  <2>1. \A n \in 0 .. N : n # 0 => f[n] = Insert(f[n - 1], s[n], earlier)
    BY <1>3, <1>4, <1>5
  <2> QED  BY <1>4, <2>1
<1> DEFINE g == CHOOSE h : Defines(h)
<1>7. Defines(g)
  <2> HIDE DEF Defines
  <2> QED  BY <1>6
<1>8. Sorted(s, earlier) = g[N]
  BY DEF Sorted
<1> HIDE DEF g
<1>9. g[0] = <<>> /\ \A n \in 1 .. N : g[n] = Insert(g[n - 1], s[n], earlier)
  <2>1. 0 \in 0 .. N /\ \A n \in 1 .. N : n \in 0 .. N /\ n # 0
    BY <1>1
  <2> QED  BY <1>7, <2>1
<1>10. g = [n \in 0 .. N |-> g[n]]
  BY <1>7
<1> HIDE DEF Defines, N
<1>11. \A n \in 0 .. N : g[n] \in Seq(S)
  <2> DEFINE lists == {n \in 0 .. N : g[n] \in Seq(S)}
  <2>1. 0 \in lists
    <3>1. <<>> \in Seq(S) /\ 0 \in 0 .. N
      BY <1>1
    <3> QED  BY <1>9, <3>1
  <2>2. ASSUME NEW n \in 1 .. N, n - 1 \in lists PROVE n \in lists
    <3>1. g[n - 1] \in Seq(S) /\ s[n] \in S /\ n \in 0 .. N
      BY <1>1, <2>2
    <3>2. PICK q \in Seq(S) : q = g[n - 1]
      BY <3>1
    <3>3. Insert(q, s[n], earlier) \in Seq(S)
      BY <3>1, InsertPlaces
    <3> QED  BY <1>9, <3>1, <3>2, <3>3
  <2> HIDE DEF lists
  <2>3. 0 .. N \subseteq lists
    BY <1>1, <2>1, <2>2, BoundedInduction
  <2> QED  BY <2>3 DEF lists
<1>12. g \in [0 .. N -> Seq(S)]
  BY <1>10, <1>11
<1> QED  BY <1>8, <1>9, <1>12 DEF Inserts, N

LEMMA SortedKeeps ==
    ASSUME NEW S, NEW s \in Seq(S), NEW earlier
    PROVE  LET q == Sorted(s, earlier)
           IN  /\ q \in Seq(S) /\ ToSet(q) = ToSet(s)
               /\ DistinctIds(s) => DistinctIds(q)
<1> DEFINE N == Len(s)
           Right(q, n) == /\ q \in Seq(S) /\ ToSet(q) = FirstPart(s, n)
                          /\ DistinctIds(s) => DistinctIds(q)
<1>1. N \in Nat /\ DOMAIN s = 1 .. N /\ \A n \in 1 .. N : s[n] \in S
  BY LenProperties
<1>2. PICK g \in [0 .. N -> Seq(S)] : Inserts(g, s, earlier)
  BY SortedInserts
<1>3. /\ g[0] = <<>> /\ \A n \in 1 .. N : g[n] = Insert(g[n - 1], s[n], earlier)
      /\ Sorted(s, earlier) = g[N]
  BY <1>2 DEF Inserts
<1>4. Right(g[N], N)
  <2> DEFINE right == {n \in 0 .. N : Right(g[n], n)}
  <2>1. 0 \in right
    <3>1. g[0] = <<>> /\ 0 \in 0 .. N
      BY <1>1, <1>3
    <3>2. ToSet(<<>>) = {} /\ FirstPart(s, 0) = {} /\ DistinctIds(<<>>)
      BY DEF ToSet, FirstPart, DistinctIds
    <3>3. Right(g[0], 0)
      BY <3>1, <3>2
    <3> QED  BY <3>1, <3>3
  <2>2. ASSUME NEW n \in 1 .. N, n - 1 \in right PROVE n \in right
    <3>1. n \in 0 .. N /\ Right(g[n - 1], n - 1) /\ s[n] \in S
      BY <1>1, <2>2
    <3> DEFINE q == g[n - 1]
               x == s[n]
    <3>2. g[n] = Insert(q, x, earlier)
      BY <1>3
    <3>3. /\ FirstPart(s, n) = FirstPart(s, n - 1) \cup {x}
          /\ DistinctIds(s) => \A y \in FirstPart(s, n - 1) : y.id # x.id
      BY <1>1, PartGrows
    <3>4. q \in Seq(S) /\ x \in S /\ ToSet(q) = FirstPart(s, n - 1)
          /\ (DistinctIds(s) => DistinctIds(q))
      BY <3>1
    <3> HIDE DEF q, x, N
    <3>5. LET r == Insert(q, x, earlier)
          IN  /\ r \in Seq(S) /\ ToSet(r) = ToSet(q) \cup {x} /\ Len(r) = Len(q) + 1
              /\ DistinctIds(q) /\ (\A y \in ToSet(q) : y.id # x.id) => DistinctIds(r)
      BY ONLY <3>4, InsertMembers
    <3>6. ToSet(g[n]) = FirstPart(s, n)
      BY <3>2, <3>3, <3>4, <3>5
    <3>7. DistinctIds(s) => DistinctIds(g[n])
      BY <3>2, <3>3, <3>4, <3>5
    <3> QED  BY <3>1, <3>2, <3>5, <3>6, <3>7
  <2> HIDE DEF right, N
  <2>3. 0 .. N \subseteq right
    BY <1>1, <2>1, <2>2, BoundedInduction
  <2> QED  BY <1>1, <2>3 DEF right
<1>5. FirstPart(s, N) = ToSet(s)
  BY <1>1 DEF FirstPart, ToSet
<1> QED  BY <1>3, <1>4, <1>5

(* What goes before has no smaller key, and what has a smaller key goes before: then the keys  *)
(* of what is sorted do not decrease.                                                          *)
InOrder(q, key) == \A i, j \in 1 .. Len(q) : i <= j => key[q[i]] <= key[q[j]]

LEMMA InsertInOrder ==
    ASSUME NEW S, NEW q \in Seq(S), NEW x \in S, NEW earlier, NEW key \in [S -> Int],
           \A y, z \in S : /\ <<y, z>> \in earlier => key[y] <= key[z]
                           /\ <<y, z>> \notin earlier => key[z] <= key[y],
           InOrder(q, key)
    PROVE  InOrder(Insert(q, x, earlier), key)
<1> DEFINE N == Len(q)
           r == Insert(q, x, earlier)
           p == PlaceOf(q, x, earlier)
<1>1. N \in Nat /\ \A i \in 1 .. N : q[i] \in S /\ key[q[i]] \in Int
  BY LenProperties
<1>2. /\ p \in 1 .. N + 1
      /\ p > 1 => <<x, q[p - 1]>> \notin earlier
      /\ \A k \in p .. N : <<x, q[k]>> \in earlier
      /\ IsInserted(r, q, x, p)
  BY InsertPlaces
<1> HIDE DEF p, r
<1>3. Len(r) = N + 1 /\ \A i \in 1 .. N + 1 : r[i] = IF i < p THEN q[i] ELSE IF i = p THEN x ELSE q[i - 1]
  BY <1>2 DEF IsInserted
<1>4. \A i, j \in 1 .. N : i <= j => key[q[i]] <= key[q[j]]
  BY DEF InOrder
<1> HIDE DEF N
<1>5. ASSUME NEW k \in 1 .. N, k < p PROVE key[q[k]] <= key[x]
  <2>1. p - 1 \in 1 .. N /\ k <= p - 1 /\ p > 1
    BY <1>1, <1>2, <1>5
  <2>2. key[q[p - 1]] <= key[x]
    BY <1>1, <1>2, <2>1
  <2>3. key[q[k]] <= key[q[p - 1]]
    BY <1>4, <2>1
  <2> QED  BY <1>1, <2>1, <2>2, <2>3
<1>6. ASSUME NEW k \in 1 .. N, p <= k PROVE key[x] <= key[q[k]]
  <2>1. k \in p .. N
    BY <1>1, <1>2, <1>6
  <2> QED  BY <1>1, <1>2, <2>1
<1> SUFFICES ASSUME NEW i \in 1 .. N + 1, NEW j \in 1 .. N + 1, i <= j PROVE key[r[i]] <= key[r[j]]
  BY <1>3 DEF InOrder, r
<1>7. CASE j < p
  <2>1. i \in 1 .. N /\ j \in 1 .. N /\ r[i] = q[i] /\ r[j] = q[j]
    BY <1>1, <1>2, <1>3, <1>7
  <2> QED  BY <1>4, <2>1
<1>8. CASE j = p
  <2>1. CASE i = p
    BY <1>3, <1>8, <2>1
  <2>2. CASE i # p
    <3>1. i \in 1 .. N /\ i < p
      BY <1>1, <1>2, <1>8, <2>2
    <3> QED  BY <1>3, <1>5, <1>8, <3>1
  <2> QED  BY <2>1, <2>2
<1>9. CASE j > p
  <2>1. j - 1 \in 1 .. N /\ p <= j - 1 /\ r[j] = q[j - 1]
    BY <1>1, <1>2, <1>3, <1>9
  <2>2. key[x] <= key[r[j]]
    BY <1>6, <2>1
  <2>3. CASE i = p
    BY <1>3, <2>2, <2>3
  <2>4. CASE i < p
    <3>1. i \in 1 .. N /\ r[i] = q[i] /\ i <= j - 1
      BY <1>1, <1>2, <1>3, <2>1, <2>4
    <3> QED  BY <1>4, <2>1, <3>1
  <2>5. CASE i > p
    <3>1. i - 1 \in 1 .. N /\ r[i] = q[i - 1] /\ i - 1 <= j - 1
      BY <1>1, <1>2, <1>3, <2>5
    <3> QED  BY <1>4, <2>1, <3>1
  <2> QED  BY <1>2, <2>3, <2>4, <2>5
<1> QED  BY <1>2, <1>7, <1>8, <1>9

LEMMA SortedInOrder ==
    ASSUME NEW S, NEW s \in Seq(S), NEW earlier, NEW key \in [S -> Int],
           \A y, z \in S : /\ <<y, z>> \in earlier => key[y] <= key[z]
                           /\ <<y, z>> \notin earlier => key[z] <= key[y]
    PROVE  InOrder(Sorted(s, earlier), key)
<1> DEFINE N == Len(s)
<1>1. N \in Nat /\ \A n \in 1 .. N : s[n] \in S
  BY LenProperties
<1>2. PICK g \in [0 .. N -> Seq(S)] : Inserts(g, s, earlier)
  BY SortedInserts
<1>3. /\ g[0] = <<>> /\ \A n \in 1 .. N : g[n] = Insert(g[n - 1], s[n], earlier)
      /\ Sorted(s, earlier) = g[N]
  BY <1>2 DEF Inserts
<1> HIDE DEF N
<1> DEFINE ordered == {n \in 0 .. N : InOrder(g[n], key)}
<1>4. 0 \in ordered
  BY <1>1, <1>3 DEF InOrder
<1>5. ASSUME NEW n \in 1 .. N, n - 1 \in ordered PROVE n \in ordered
  <2>1. n - 1 \in 0 .. N /\ n \in 0 .. N /\ g[n - 1] \in Seq(S) /\ s[n] \in S /\ InOrder(g[n - 1], key)
    BY <1>1, <1>5
  <2>2. PICK q \in Seq(S) : q = g[n - 1]
    BY <2>1
  <2>3. PICK x \in S : x = s[n]
    BY <2>1
  <2>4. InOrder(q, key)
    BY <2>1, <2>2
  <2>5. InOrder(Insert(q, x, earlier), key)
    BY <2>4, InsertInOrder
  <2> QED  BY <1>3, <2>1, <2>2, <2>3, <2>5
<1> HIDE DEF ordered
<1>6. 0 .. N \subseteq ordered
  BY <1>1, <1>4, <1>5, BoundedInduction
<1> QED  BY <1>1, <1>3, <1>6 DEF ordered

-----------------------------------------------------------------------------
(* Matches of a query: the rows of the run that its criteria hold for, each once. *)
IsList(rows, S) == rows \in Seq(S) /\ DistinctIds(rows)

LEMMA OnlyList ==
    ASSUME NEW S, NEW s, IsList(s, S), NEW kept
    PROVE  IsList(Only(s, kept), S) /\ ToSet(Only(s, kept)) = ToSet(s) \cap kept
BY OnlyKeeps DEF IsList

LEMMA SortedList ==
    ASSUME NEW S, NEW s, IsList(s, S), NEW earlier
    PROVE  IsList(Sorted(s, earlier), S) /\ ToSet(Sorted(s, earlier)) = ToSet(s)
BY SortedKeeps DEF IsList

Satisfies(e, criteria) ==
    /\ criteria.status = {} \/ StatusLabel(e.status) \in criteria.status
    /\ criteria.min = Unset \/ e.time >= criteria.min
    /\ criteria.max = Unset \/ e.time <= criteria.max
    /\ criteria.pattern = <<>> \/ MatchesGlob(e.id, criteria.pattern)
Heavy(e, mins) == \A metric \in Metrics : mins[metric] = Unset \/ e.metrics[metric] >= mins[metric]

LEMMA SearchList ==
    ASSUME NEW S, NEW s, IsList(s, S), NEW criteria
    PROVE  LET q == SearchRunResults(s, criteria)
           IN  IsList(q, S) /\ ToSet(q) = {e \in ToSet(s) : Satisfies(e, criteria)}
<1> DEFINE kept == {e \in ToSet(s) : Satisfies(e, criteria)}
<1>1. SearchRunResults(s, criteria) = Only(s, kept)
  BY DEF SearchRunResults, Satisfies
<1>2. ToSet(s) \cap kept = kept
  OBVIOUS
<1> HIDE DEF kept
<1>3. IsList(Only(s, kept), S) /\ ToSet(Only(s, kept)) = ToSet(s) \cap kept
  BY OnlyList
<1> QED  BY <1>1, <1>2, <1>3 DEF kept

LEMMA SortByKeyList ==
    ASSUME NEW S, NEW s, IsList(s, S), NEW sort
    PROVE  LET q == SortByExecutionSortKey(s, sort) IN IsList(q, S) /\ ToSet(q) = ToSet(s)
BY SortedList DEF SortByExecutionSortKey

LEMMA BlockList ==
    ASSUME NEW S, NEW s, IsList(s, S), NEW block
    PROVE  LET q == ApplyWarehouseSearchBlock(s, block)
           IN  IsList(q, S) /\ ToSet(q) = {e \in ToSet(s) : Heavy(e, block.min)}
<1> DEFINE kept == {e \in ToSet(s) : Heavy(e, block.min)}
<1>1. ApplyWarehouseSearchBlock(s, block) = Only(s, kept)
  BY DEF ApplyWarehouseSearchBlock, Heavy
<1>2. ToSet(s) \cap kept = kept
  OBVIOUS
<1> HIDE DEF kept
<1>3. IsList(Only(s, kept), S) /\ ToSet(Only(s, kept)) = ToSet(s) \cap kept
  BY OnlyList
<1> QED  BY <1>1, <1>2, <1>3 DEF kept

LEMMA MatchesList ==
    ASSUME NEW S, NEW s, IsList(s, S), NEW request
    PROVE  LET q == Matches(s, request)
           IN  /\ IsList(q, S)
               /\ ToSet(q) = {e \in ToSet(s) : /\ e.type \in request.types
                                               /\ Satisfies(e, request)
                                               /\ Heavy(e, ActiveBlock(request).min)}
<1> DEFINE ofTypes == {e \in ToSet(s) : e.type \in request.types}
           typed == Only(s, ofTypes)
           criteria == [status |-> request.status, min |-> request.min, max |-> request.max,
                        pattern |-> request.pattern]
           found == SearchRunResults(typed, criteria)
           based == IF request.sort # None /\ ActiveBlock(request) = NoBlock
                    THEN SortByExecutionSortKey(found, request.sort) ELSE found
           within == ApplyWarehouseSearchBlock(based, ActiveBlock(request))
           sorted == SortByExecutionSortKey(within, EffectiveSort(request))
<1>1. Matches(s, request) = sorted
  BY DEF Matches
<1>2. IsList(typed, S) /\ ToSet(typed) = ToSet(s) \cap ofTypes
  <2> HIDE DEF ofTypes
  <2> QED  BY OnlyList
<1>3. \A e : Satisfies(e, criteria) <=> Satisfies(e, request)
  BY DEF Satisfies
<1> HIDE DEF typed, criteria
<1>4. IsList(found, S) /\ ToSet(found) = {e \in ToSet(typed) : Satisfies(e, criteria)}
  BY <1>2, SearchList
<1> HIDE DEF found
<1>5. IsList(based, S) /\ ToSet(based) = ToSet(found)
  BY <1>4, SortByKeyList
<1> HIDE DEF based
<1>6. IsList(within, S) /\ ToSet(within) = {e \in ToSet(based) : Heavy(e, ActiveBlock(request).min)}
  BY <1>5, BlockList
<1> HIDE DEF within
<1>7. IsList(sorted, S) /\ ToSet(sorted) = ToSet(within)
  BY <1>6, SortByKeyList
<1> HIDE DEF sorted
<1>8. ToSet(sorted) = {e \in ToSet(s) : /\ e.type \in request.types
                                        /\ Satisfies(e, request)
                                        /\ Heavy(e, ActiveBlock(request).min)}
  BY <1>2, <1>3, <1>4, <1>5, <1>6, <1>7
<1> QED  BY <1>1, <1>7, <1>8

(* The block in force, as the tool call and the subcommand of the command line pass it on. *)
IsRequest(r) ==
    /\ r \in Requests /\ \A b, c \in r.blocks : b = c
    /\ \A b \in r.blocks : \A metric \in Metrics \ Profile(b.warehouse) : b.min[metric] = Unset
CallOf(r) == ToQueryExecutionsRequest(r)
CommandOf(r) == ToQueryExecutionsRequest(BuildRegistryInput(OptionsOf(r)))

LEMMA ActiveOfOne ==
    ASSUME NEW r, NEW b, r.blocks = {b}
    PROVE  ActiveBlock(r) = IF NonEmpty(b) THEN b ELSE NoBlock
BY DEF ActiveBlock
LEMMA ActiveOfNone ==
    ASSUME NEW r, r.blocks = {}
    PROVE  ActiveBlock(r) = NoBlock
BY DEF ActiveBlock

LEMMA CallKeeps ==
    ASSUME NEW r, IsRequest(r)
    PROVE  LET q == CallOf(r)
           IN  /\ q.types = r.types /\ q.status = r.status /\ q.min = r.min /\ q.max = r.max
               /\ q.pattern = r.pattern
               /\ q.blocks = {b \in r.blocks : NonEmpty(b)}
               /\ \A b \in r.blocks : ActiveBlock(q).min = b.min
               /\ r.blocks = {} => ActiveBlock(q).min = NoMin
<1> DEFINE q == CallOf(r)
<1>1. /\ q.types = r.types /\ q.status = r.status /\ q.min = r.min /\ q.max = r.max
      /\ q.pattern = r.pattern /\ q.blocks = {b \in r.blocks : NonEmpty(b)}
  BY DEF IsRequest, Requests, CallOf, ToQueryExecutionsRequest
<1>2. ASSUME NEW b \in r.blocks PROVE ActiveBlock(q).min = b.min
  <2>1. r.blocks = {b}
    BY DEF IsRequest
  <2> HIDE DEF q
  <2>2. CASE NonEmpty(b)
    <3>1. q.blocks = {b}
      BY <1>1, <2>1, <2>2
    <3> QED  BY <2>2, <3>1, ActiveOfOne
  <2>3. CASE ~NonEmpty(b)
    <3>1. q.blocks = {}
      BY <1>1, <2>1, <2>3
    <3>2. b.min = NoMin
      BY <2>3 DEF NonEmpty
    <3> QED  BY <3>1, <3>2, ActiveOfNone DEF NoBlock
  <2> QED  BY <2>2, <2>3
<1>3. r.blocks = {} => ActiveBlock(q).min = NoMin
  <2> HIDE DEF q
  <2> QED  BY <1>1, ActiveOfNone DEF NoBlock
<1> QED  BY <1>1, <1>2, <1>3

LEMMA CommandKeeps ==
    ASSUME NEW r, IsRequest(r)
    PROVE  LET q == CommandOf(r)
           IN  /\ q.types = r.types /\ q.status = r.status /\ q.min = r.min /\ q.max = r.max
               /\ q.pattern = r.pattern
               /\ \A b \in r.blocks : ActiveBlock(q).min = b.min
               /\ r.blocks = {} => ActiveBlock(q).min = NoMin
<1> DEFINE o == OptionsOf(r)
           block == [warehouse |-> o.warehouse,
                     sort |-> IF o.sort \in CommonSorts THEN None ELSE o.sort,
                     min |-> [metric \in Metrics |->
                                 IF metric \in Profile(o.warehouse) THEN o.mins[metric] ELSE Unset]]
           input == BuildRegistryInput(o)
           q == CommandOf(r)
<1>1. /\ o.types = r.types /\ o.status = r.status /\ o.min = r.min /\ o.max = r.max
      /\ o.pattern = r.pattern
      /\ o.warehouse = ActiveBlock(r).warehouse /\ o.mins = ActiveBlock(r).min
  BY DEF OptionsOf
<1> HIDE DEF o
<1>2. /\ input.types = IF o.types = {} THEN DefaultTypes ELSE o.types
      /\ input.status = o.status /\ input.min = o.min /\ input.max = o.max
      /\ input.pattern = o.pattern
      /\ input.blocks = IF o.warehouse # None /\ NonEmpty(block) THEN {block} ELSE {}
      /\ q.types = input.types /\ q.status = input.status /\ q.min = input.min /\ q.max = input.max
      /\ q.pattern = input.pattern
      /\ q.blocks = {b \in input.blocks : NonEmpty(b)}
  BY DEF BuildRegistryInput, CommandOf, ToQueryExecutionsRequest, o
<1> HIDE DEF input, q
<1>3. r.types # {}
  BY DEF IsRequest, Requests
<1>4. ASSUME NEW b \in r.blocks, NonEmpty(b) PROVE ActiveBlock(q).min = b.min
  <2>1. ActiveBlock(r) = b
    <3>1. r.blocks = {b}
      BY DEF IsRequest
    <3> QED  BY <1>4, <3>1, ActiveOfOne
  <2>2. b.warehouse # None /\ b.min \in [Metrics -> Int]
    <3>1. b \in Blocks
      BY DEF IsRequest, Requests
    <3> QED  BY <3>1 DEF Blocks
  <2>3. [metric \in Metrics |-> IF metric \in Profile(b.warehouse) THEN b.min[metric] ELSE Unset] = b.min
    <3>1. \A metric \in Metrics : metric \notin Profile(b.warehouse) => b.min[metric] = Unset
      BY DEF IsRequest
    <3> QED  BY <2>2, <3>1
  <2>4. block.min = b.min /\ o.warehouse # None
    BY <1>1, <2>1, <2>2, <2>3
  <2> HIDE DEF block
  <2>5. CASE NonEmpty(block)
    <3>1. q.blocks = {block}
      BY <1>2, <2>4, <2>5
    <3> QED  BY <2>4, <2>5, <3>1, ActiveOfOne
  <2>6. CASE ~NonEmpty(block)
    <3>1. q.blocks = {} /\ b.min = NoMin
      BY <1>2, <2>4, <2>6 DEF NonEmpty
    <3> QED  BY <3>1, ActiveOfNone DEF NoBlock
  <2> QED  BY <2>5, <2>6
<1>5. ASSUME ActiveBlock(r) = NoBlock PROVE ActiveBlock(q).min = NoMin
  <2>1. o.warehouse = None
    BY <1>1, <1>5 DEF NoBlock
  <2>2. q.blocks = {}
    BY <1>2, <2>1
  <2> QED  BY <2>2, ActiveOfNone DEF NoBlock
<1>6. ASSUME NEW b \in r.blocks, ~NonEmpty(b) PROVE ActiveBlock(q).min = b.min
  <2>1. r.blocks = {b} /\ b.min = NoMin
    BY <1>6 DEF IsRequest, NonEmpty
  <2>2. ActiveBlock(r) = NoBlock
    BY <1>6, <2>1, ActiveOfOne
  <2> QED  BY <1>5, <2>1, <2>2
<1>7. r.blocks = {} => ActiveBlock(q).min = NoMin
  BY <1>5, ActiveOfNone
<1> QED  BY <1>1, <1>2, <1>3, <1>4, <1>6, <1>7 DEF q

(* A minimum that is missing is one that every row has. *)
LEMMA HeavyIsMet ==
    ASSUME NEW r, IsRequest(r), NEW e, e.metrics \in [Metrics -> Nat], NEW mins,
           \A b \in r.blocks : mins = b.min, r.blocks = {} => mins = NoMin
    PROVE  Heavy(e, mins) <=> \A b \in r.blocks, metric \in Metrics : b.min[metric] <= e.metrics[metric]
<1>1. CASE r.blocks = {}
  BY <1>1 DEF Heavy, NoMin
<1>2. ASSUME NEW b \in r.blocks PROVE Heavy(e, mins) <=> \A metric \in Metrics : mins[metric] <= e.metrics[metric]
  <2>1. mins \in [Metrics -> Int]
    BY <1>2 DEF IsRequest, Requests, Blocks
  <2>2. ASSUME NEW metric \in Metrics
        PROVE  (mins[metric] = Unset \/ e.metrics[metric] >= mins[metric]) <=> mins[metric] <= e.metrics[metric]
    <3>1. mins[metric] \in Int /\ e.metrics[metric] \in Nat
      BY <2>1
    <3> QED  BY <3>1 DEF Unset
  <2> QED  BY <2>2 DEF Heavy
<1>3. \A b \in r.blocks : b.min = mins
  OBVIOUS
<1> QED  BY <1>1, <1>2, <1>3

(* The graph's nodes are the manifest's entries: a graph has each once, and none is a column. *)
LEMMA GraphHasEntries ==
    ASSUME NEW m
    PROVE  BuildGraph(m).nodes = AllEntries(m)
<1>1. AddNodes(EmptyGraph, m).nodes = EmptyGraph.nodes \o AllEntries(m)
  BY DEF AddNodes, EmptyGraph
<1>2. AddEdges(AddNodes(EmptyGraph, m), m).nodes = AddNodes(EmptyGraph, m).nodes
  BY DEF AddEdges, AddNodes, EmptyGraph
<1> QED  BY <1>1, <1>2 DEF BuildGraph, EmptyGraph

EntrySet(m) ==
    UNION {{NodeAttributes(m[c][i], c) : i \in DOMAIN m[c]} : c \in Collections}

LEMMA EntriesOf ==
    ASSUME NEW m, \A c \in Collections : m[c] \in Seq(ToSet(m[c])), NEW c \in Collections
    PROVE  ManifestEntries(m, c) \in Seq(EntrySet(m))
<1> DEFINE E == EntrySet(m)
           s == ManifestEntries(m, c)
<1>1. Len(m[c]) \in Nat /\ DOMAIN m[c] = 1 .. Len(m[c])
  BY LenProperties
<1>2. \A i \in 1 .. Len(m[c]) : NodeAttributes(m[c][i], c) \in E
  BY <1>1 DEF EntrySet
<1> HIDE DEF E
<1>3. s = [i \in 1 .. Len(m[c]) |-> NodeAttributes(m[c][i], c)]
  BY <1>1 DEF ManifestEntries
<1>4. PICK n \in Nat : n = Len(m[c])
  BY <1>1
<1>5. \A f \in [1 .. n -> E] : f \in Seq(E)
  OBVIOUS
<1>6. s \in [1 .. n -> E]
  BY <1>2, <1>3, <1>4
<1> QED  BY <1>5, <1>6 DEF E

LEMMA GraphNodes ==
    ASSUME NEW m, IsManifest(m)
    PROVE  LET nodes == BuildGraph(m).nodes
           IN  nodes \in Seq(ToSet(nodes)) /\ DistinctIds(nodes) /\ \A n \in ToSet(nodes) : n.type # "field"
<1> DEFINE E == EntrySet(m)
           nodes == AllEntries(m)
<1>1. \A c \in Collections : m[c] \in Seq(ToSet(m[c]))
  BY DEF IsManifest, IsSequence
<1>2. nodes \in Seq(E)
  <2>1. \A c \in Collections : ManifestEntries(m, c) \in Seq(E)
    BY <1>1, EntriesOf
  <2>2. "nodes" \in Collections /\ "source" \in Collections /\ "macro" \in Collections
        /\ "exposure" \in Collections /\ "metric" \in Collections /\ "semantic_model" \in Collections
        /\ "unit_test" \in Collections
    BY DEF Collections
  <2> HIDE DEF E
  <2>3. \A a, b \in Seq(E) : a \o b \in Seq(E)
    BY ConcatProperties
  <2> QED  BY <2>1, <2>2, <2>3 DEF AllEntries
<1>3. \A n \in E : n.type # "field"
  <2>1. ASSUME NEW c \in Collections, NEW e PROVE NodeAttributes(e, c).type # "field"
    BY DEF NodeAttributes, ExtractResourceType, KnownTypes, Collections
  <2> QED  BY <2>1 DEF EntrySet
<1>4. BuildGraph(m).nodes = nodes
  BY GraphHasEntries
<1>5. DOMAIN nodes = 1 .. Len(nodes) /\ Len(nodes) \in Nat /\ \A i \in 1 .. Len(nodes) : nodes[i] \in E
  BY <1>2, LenProperties
<1>6. DistinctIds(nodes)
  BY <1>5 DEF IsManifest, DistinctIds
<1> HIDE DEF E, nodes
<1>7. ToSet(nodes) \subseteq E
  BY <1>5 DEF ToSet
<1>8. nodes \in Seq(ToSet(nodes))
  <2>1. nodes = [i \in 1 .. Len(nodes) |-> nodes[i]]
    BY <1>2, <1>5
  <2>2. \A i \in 1 .. Len(nodes) : nodes[i] \in ToSet(nodes)
    BY <1>5 DEF ToSet
  <2> QED  BY <1>5, <2>1, <2>2
<1> QED  BY <1>3, <1>4, <1>6, <1>7, <1>8

(* The executions of a run, with their types. *)
LEMMA TypedRows ==
    ASSUME IsRun(bundle.results)
    PROVE  LET x == TypedExecutions
           IN  IsList(x, ToSet(x)) /\ \A e \in ToSet(x) : e.metrics \in [Metrics -> Nat]
<1> DEFINE r == bundle.results
           x == TypedExecutions
           N == Len(r)
<1>1. N \in Nat /\ DOMAIN r = 1 .. N
  BY LenProperties DEF IsRun
<1>2. /\ DOMAIN x = 1 .. N
      /\ \A i \in 1 .. N : x[i].id = r[i].id /\ x[i].metrics = r[i].metrics
  BY <1>1 DEF TypedExecutions, NodeExecutions
<1>3. x = [i \in 1 .. N |-> x[i]]
  BY <1>1, <1>2 DEF TypedExecutions, NodeExecutions
<1>4. \A i, j \in 1 .. N : r[i].id = r[j].id => i = j
  BY <1>1 DEF IsRun
<1>5. \A i \in 1 .. N : r[i].metrics \in [Metrics -> Nat]
  BY <1>1 DEF IsRun
<1> HIDE DEF x, N
<1>6. \A i \in 1 .. N : x[i] \in ToSet(x)
  BY <1>2 DEF ToSet
<1>7. x \in Seq(ToSet(x)) /\ Len(x) = N
  BY <1>1, <1>3, <1>6
<1>8. DistinctIds(x)
  BY <1>2, <1>4, <1>7 DEF DistinctIds
<1>9. \A e \in ToSet(x) : e.metrics \in [Metrics -> Nat]
  BY <1>2, <1>5 DEF ToSet
<1> QED  BY <1>7, <1>8, <1>9 DEF IsList, x

(* The whole of a list, of which a page is a part: its offset does not change it. *)
Stocked(graph, types) ==
    Only(graph.nodes, {n \in ToSet(graph.nodes) : n.type # "field" /\ (types = {} \/ n.type \in types)})
StockedEarlier(kept) ==
    {p \in Pairs(kept) : IdBefore(<<p[1].type, 0, p[1].id[3]>>, <<p[2].type, 0, p[2].id[3]>>)}
StartedEarlier(rows) == {p \in Pairs(rows) : StartedBefore(p[1], p[2])}
TimelineRows(x, statuses) == TimelineCommand(x, FALSE, statuses, "start", 0)
AllRows(x, graph, list, r) ==
    CASE list = "runs.query" -> Matches(x, CallOf(r))
      [] list = "query-executions" -> Matches(x, CommandOf(r))
      [] list = "failures" -> SortFailuresStable(FilterExecutions(x, r.status))
      [] list = "run-report" -> IF r.limit = Unset THEN x ELSE SortNodeExecutionsForSlice(x)
      [] list = "timeline" -> TimelineRows(x, r.status)
      [] OTHER -> Sorted(Stocked(graph, r.types), StockedEarlier(Stocked(graph, r.types)))
IdsOf(rows) == {e.id : e \in ToSet(rows)}
RowSet(x, graph) == ToSet(x) \cup ToSet(graph.nodes)

LEMMA ListWidens ==
    ASSUME NEW S, NEW T, S \subseteq T, NEW s, IsList(s, S)
    PROVE  IsList(s, T)
<1>1. s \in Seq(T)
  <2>1. PICK n \in Nat : n = Len(s)
    BY LenProperties DEF IsList
  <2>2. s \in [1 .. n -> T]
    BY <2>1, LenProperties DEF IsList
  <2> QED  BY <2>2
<1> QED  BY <1>1 DEF IsList

LEMMA QueryHolds ==
    ASSUME NEW S, NEW x, IsList(x, S), \A e \in ToSet(x) : e.metrics \in [Metrics -> Nat],
           NEW r, IsRequest(r),
           NEW q, q.types = r.types /\ q.status = r.status /\ q.min = r.min /\ q.max = r.max
                  /\ q.pattern = r.pattern,
           \A b \in r.blocks : ActiveBlock(q).min = b.min,
           r.blocks = {} => ActiveBlock(q).min = NoMin
    PROVE  /\ IsList(Matches(x, q), S)
           /\ ToSet(Matches(x, q)) = {e \in ToSet(x) : MeetsRequest(e, r)}
<1> DEFINE mins == ActiveBlock(q).min
<1>1. /\ IsList(Matches(x, q), S)
      /\ ToSet(Matches(x, q)) = {e \in ToSet(x) : /\ e.type \in q.types /\ Satisfies(e, q)
                                                  /\ Heavy(e, mins)}
  BY MatchesList
<1>2. ASSUME NEW e \in ToSet(x)
      PROVE  (e.type \in q.types /\ Satisfies(e, q) /\ Heavy(e, mins)) <=> MeetsRequest(e, r)
  <2>1. Heavy(e, mins) <=> \A b \in r.blocks, metric \in Metrics : b.min[metric] <= e.metrics[metric]
    BY HeavyIsMet
  <2> HIDE DEF mins
  <2>2. Satisfies(e, q) <=> /\ r.status = {} \/ StatusLabel(e.status) \in r.status
                            /\ (r.min = Unset \/ e.time >= r.min) /\ (r.max = Unset \/ e.time <= r.max)
                            /\ r.pattern = <<>> \/ MatchesGlob(e.id, r.pattern)
    BY DEF Satisfies
  <2> QED  BY <2>1, <2>2 DEF MeetsRequest
<1> HIDE DEF mins
<1> QED  BY <1>1, <1>2

LEMMA StatusHolds ==
    ASSUME NEW S, NEW x, IsList(x, S), NEW statuses, statuses # {}
    PROVE  LET q == SearchRunResults(x, [NoCriteria EXCEPT !.status = statuses])
           IN  /\ IsList(q, S)
               /\ ToSet(q) = {e \in ToSet(x) : StatusLabel(e.status) \in statuses}
<1> DEFINE criteria == [NoCriteria EXCEPT !.status = statuses]
           q == SearchRunResults(x, criteria)
<1>1. /\ criteria.status = statuses /\ criteria.min = Unset /\ criteria.max = Unset
      /\ criteria.pattern = <<>>
  BY DEF NoCriteria
<1> HIDE DEF criteria
<1>2. IsList(q, S) /\ ToSet(q) = {e \in ToSet(x) : Satisfies(e, criteria)}
  BY SearchList
<1>3. \A e : Satisfies(e, criteria) <=> StatusLabel(e.status) \in statuses
  BY <1>1 DEF Satisfies
<1> HIDE DEF q
<1>4. ToSet(q) = {e \in ToSet(x) : StatusLabel(e.status) \in statuses}
  BY <1>2, <1>3
<1> QED  BY <1>2, <1>4 DEF q, criteria

LEMMA FailuresHold ==
    ASSUME NEW S, NEW x, IsList(x, S), NEW statuses
    PROVE  LET q == SortFailuresStable(FilterExecutions(x, statuses))
           IN  /\ IsList(q, S)
               /\ ToSet(q) = {e \in ToSet(x) : IF statuses # {} THEN StatusLabel(e.status) \in statuses
                                               ELSE IsNonSuccessStatus(e.status)}
<1> DEFINE f == FilterExecutions(x, statuses)
           kept == {e \in ToSet(x) : IsNonSuccessStatus(e.status)}
           wanted == {e \in ToSet(x) : IF statuses # {} THEN StatusLabel(e.status) \in statuses
                                       ELSE IsNonSuccessStatus(e.status)}
<1>1. ASSUME statuses = {} PROVE IsList(f, S) /\ ToSet(f) = wanted
  <2>1. f = Only(x, kept) /\ wanted = kept /\ ToSet(x) \cap kept = kept
    BY <1>1 DEF FilterExecutions
  <2> HIDE DEF kept, wanted, f
  <2> QED  BY <2>1, OnlyList
<1>2. ASSUME statuses # {} PROVE IsList(f, S) /\ ToSet(f) = wanted
  <2>1. f = SearchRunResults(x, [NoCriteria EXCEPT !.status = statuses])
    BY <1>2 DEF FilterExecutions
  <2>2. wanted = {e \in ToSet(x) : StatusLabel(e.status) \in statuses}
    BY <1>2
  <2> HIDE DEF wanted, f
  <2> QED  BY <1>2, <2>1, <2>2, StatusHolds
<1>3. IsList(f, S) /\ ToSet(f) = wanted
  BY <1>1, <1>2
<1> HIDE DEF f, wanted
<1>4. IsList(SortFailuresStable(f), S) /\ ToSet(SortFailuresStable(f)) = ToSet(f)
  BY <1>3, SortedList DEF SortFailuresStable
<1> QED  BY <1>3, <1>4 DEF f, wanted

LEMMA TimelineHolds ==
    ASSUME NEW S, NEW x, IsList(x, S), NEW statuses
    PROVE  LET q == TimelineRows(x, statuses)
           IN  /\ IsList(q, S)
               /\ ToSet(q) = {e \in ToSet(x) : IF statuses # {} THEN StatusLabel(e.status) \in statuses
                                               ELSE TRUE}
<1> DEFINE f == ApplyTimelineFilters(x, FALSE, statuses)
           q == TimelineRows(x, statuses)
           wanted == {e \in ToSet(x) : IF statuses # {} THEN StatusLabel(e.status) \in statuses ELSE TRUE}
<1>1. ASSUME statuses = {} PROVE IsList(f, S) /\ ToSet(f) = wanted
  <2>1. f = x /\ wanted = ToSet(x)
    BY <1>1 DEF ApplyTimelineFilters
  <2> QED  BY <2>1
<1>2. ASSUME statuses # {} PROVE IsList(f, S) /\ ToSet(f) = wanted
  <2>1. f = SearchRunResults(x, [NoCriteria EXCEPT !.status = statuses])
    BY <1>2 DEF ApplyTimelineFilters
  <2>2. wanted = {e \in ToSet(x) : StatusLabel(e.status) \in statuses}
    BY <1>2
  <2> HIDE DEF wanted, f
  <2> QED  BY <1>2, <2>1, <2>2, StatusHolds
<1>3. IsList(f, S) /\ ToSet(f) = wanted
  BY <1>1, <1>2
<1>4. q = Sorted(f, StartedEarlier(f))
  BY DEF TimelineRows, TimelineCommand, SortTimelineExecutions, StartedEarlier
<1> HIDE DEF f, q, wanted
<1>5. IsList(q, S) /\ ToSet(q) = ToSet(f)
  BY <1>3, <1>4, SortedList
<1> QED  BY <1>3, <1>5 DEF q, wanted

LEMMA StockHolds ==
    ASSUME NEW graph, DistinctIds(graph.nodes), graph.nodes \in Seq(ToSet(graph.nodes)),
           \A n \in ToSet(graph.nodes) : n.type # "field", NEW types, types # {}
    PROVE  LET q == Sorted(Stocked(graph, types), StockedEarlier(Stocked(graph, types)))
           IN  /\ IsList(q, ToSet(graph.nodes))
               /\ IdsOf(q) = {n \in NodeIds(graph) : Attributes(graph, n).type \in types}
<1> DEFINE S == ToSet(graph.nodes)
           kept == {n \in S : n.type # "field" /\ (types = {} \/ n.type \in types)}
           f == Stocked(graph, types)
           q == Sorted(f, StockedEarlier(f))
<1>1. IsList(graph.nodes, S)
  BY DEF IsList
<1>2. f = Only(graph.nodes, kept) /\ kept = {n \in S : n.type \in types} /\ ToSet(graph.nodes) \cap kept = kept
  BY DEF Stocked
<1> HIDE DEF kept
<1>3. IsList(f, S) /\ ToSet(f) = kept
  BY <1>1, <1>2, OnlyList
<1> HIDE DEF f
<1>4. IsList(q, S) /\ ToSet(q) = kept
  BY <1>3, SortedList
<1>5. \A n \in S : Attributes(graph, n.id) = n /\ n.id \in NodeIds(graph)
  <2>1. DOMAIN graph.nodes = 1 .. Len(graph.nodes)
    BY LenProperties
  <2>2. ASSUME NEW n \in S, NEW m \in S, m.id = n.id PROVE m = n
    <3>1. PICK i \in 1 .. Len(graph.nodes) : n = graph.nodes[i]
      BY <2>1 DEF ToSet
    <3>2. PICK j \in 1 .. Len(graph.nodes) : m = graph.nodes[j]
      BY <2>1 DEF ToSet
    <3> QED  BY <2>2, <3>1, <3>2 DEF DistinctIds
  <2>3. ASSUME NEW n \in S PROVE Attributes(graph, n.id) = n
    BY <2>2, <2>3 DEF Attributes
  <2>4. ASSUME NEW n \in S PROVE n.id \in NodeIds(graph)
    BY DEF NodeIds, FoundIds, ToSet
  <2> QED  BY <2>3, <2>4
<1>6. \A i \in NodeIds(graph) : \E n \in S : i = n.id
  BY DEF NodeIds, FoundIds, ToSet
<1> HIDE DEF q, S
<1>7. IdsOf(q) = {n \in NodeIds(graph) : Attributes(graph, n).type \in types}
  BY <1>2, <1>4, <1>5, <1>6 DEF IdsOf
<1> QED  BY <1>4, <1>7 DEF q, f, S

WellFormed(x, graph) ==
    /\ IsList(x, ToSet(x)) /\ \A e \in ToSet(x) : e.metrics \in [Metrics -> Nat]
    /\ graph.nodes \in Seq(ToSet(graph.nodes)) /\ DistinctIds(graph.nodes)
    /\ \A n \in ToSet(graph.nodes) : n.type # "field"

LEMMA AllRowsHold ==
    ASSUME WellFormed(TypedExecutions, Graph), NEW list, NEW r, IsRequest(r)
    PROVE  LET rows == AllRows(TypedExecutions, Graph, list, r)
           IN  /\ IsList(rows, RowSet(TypedExecutions, Graph)) /\ IdsOf(rows) = ListMatches(list, r)
               /\ list \in QueryLists => ToSet(rows) \subseteq ToSet(TypedExecutions)
<1> DEFINE x == TypedExecutions
           S == ToSet(x)
           R == RowSet(x, Graph)
           rows == AllRows(x, Graph, list, r)
           Meets(e) == CASE list \in {"runs.query", "query-executions"} -> MeetsRequest(e, r)
                         [] list \in {"failures", "timeline"} ->
                                IF r.status # {} THEN StatusLabel(e.status) \in r.status
                                ELSE list = "timeline" \/ IsNonSuccessStatus(e.status)
                         [] OTHER -> TRUE
<1>1. IsList(x, S) /\ S \subseteq R /\ ToSet(Graph.nodes) \subseteq R
  BY DEF WellFormed, RowSet
<1>2. CASE list \in {"runs.query", "query-executions", "failures", "timeline", "run-report"}
  <2>1. IsList(rows, S) /\ ToSet(rows) = {e \in S : Meets(e)}
    <3>1. CASE list = "runs.query"
      <4>1. rows = Matches(x, CallOf(r)) /\ \A e : Meets(e) <=> MeetsRequest(e, r)
        BY <3>1 DEF AllRows
      <4> HIDE DEF x, rows, Meets
      <4>2. /\ IsList(Matches(x, CallOf(r)), S)
            /\ ToSet(Matches(x, CallOf(r))) = {e \in ToSet(x) : MeetsRequest(e, r)}
        <5>1. \A e \in ToSet(x) : e.metrics \in [Metrics -> Nat]
          BY DEF WellFormed, x
        <5> QED  BY <1>1, <5>1, QueryHolds, CallKeeps
      <4> QED  BY <4>1, <4>2
    <3>2. CASE list = "query-executions"
      <4>1. rows = Matches(x, CommandOf(r)) /\ \A e : Meets(e) <=> MeetsRequest(e, r)
        BY <3>2 DEF AllRows
      <4> HIDE DEF x, rows, Meets
      <4>2. /\ IsList(Matches(x, CommandOf(r)), S)
            /\ ToSet(Matches(x, CommandOf(r))) = {e \in ToSet(x) : MeetsRequest(e, r)}
        <5>1. \A e \in ToSet(x) : e.metrics \in [Metrics -> Nat]
          BY DEF WellFormed, x
        <5> QED  BY <1>1, <5>1, QueryHolds, CommandKeeps
      <4> QED  BY <4>1, <4>2
    <3>3. CASE list = "failures"
      <4>1. rows = SortFailuresStable(FilterExecutions(x, r.status))
            /\ \A e : Meets(e) <=> IF r.status # {} THEN StatusLabel(e.status) \in r.status
                                   ELSE IsNonSuccessStatus(e.status)
        BY <3>3 DEF AllRows
      <4> HIDE DEF x, rows, Meets
      <4> QED  BY <1>1, <4>1, FailuresHold
    <3>4. CASE list = "timeline"
      <4>1. rows = TimelineRows(x, r.status)
            /\ \A e : Meets(e) <=> IF r.status # {} THEN StatusLabel(e.status) \in r.status ELSE TRUE
        BY <3>4 DEF AllRows
      <4> HIDE DEF x, rows, Meets
      <4> DEFINE q == TimelineRows(x, r.status)
      <4>2. /\ IsList(q, S)
            /\ ToSet(q) = {e \in ToSet(x) : IF r.status # {} THEN StatusLabel(e.status) \in r.status
                                            ELSE TRUE}
        BY <1>1, TimelineHolds
      <4> HIDE DEF q
      <4> QED  BY <4>1, <4>2 DEF q
    <3>5. CASE list = "run-report"
      <4>1. (rows = x \/ rows = SortNodeExecutionsForSlice(x)) /\ \A e : Meets(e)
        BY <3>5 DEF AllRows
      <4> HIDE DEF x, rows, Meets
      <4>2. IsList(SortNodeExecutionsForSlice(x), S) /\ ToSet(SortNodeExecutionsForSlice(x)) = ToSet(x)
        BY <1>1, SortedList DEF SortNodeExecutionsForSlice
      <4>3. {e \in S : Meets(e)} = S
        BY <4>1
      <4> QED  BY <1>1, <4>1, <4>2, <4>3
    <3> QED  BY <1>2, <3>1, <3>2, <3>3, <3>4, <3>5
  <2>2. ListMatches(list, r) = {e.id : e \in {y \in S : Meets(y)}}
    <3>1. CASE list \in {"runs.query", "query-executions"}
      BY <3>1 DEF ListMatches
    <3>2. CASE list \in {"failures", "timeline"}
      BY <3>2 DEF ListMatches
    <3>3. CASE list = "run-report"
      BY <3>3 DEF ListMatches, Executed, ToSet
    <3> QED  BY <1>2, <3>1, <3>2, <3>3
  <2> HIDE DEF rows, Meets, S, x, R
  <2>3. IdsOf(rows) = ListMatches(list, r)
    BY <2>1, <2>2 DEF IdsOf
  <2>4. IsList(rows, R)
    BY <1>1, <2>1, ListWidens
  <2>5. ToSet(rows) \subseteq S
    BY <2>1
  <2> QED  BY <2>3, <2>4, <2>5 DEF rows, R, S, x
<1>3. CASE list \notin {"runs.query", "query-executions", "failures", "timeline", "run-report"}
  <2>1. rows = Sorted(Stocked(Graph, r.types), StockedEarlier(Stocked(Graph, r.types)))
    BY <1>3 DEF AllRows
  <2>2. ListMatches(list, r) = {n \in NodeIds(Graph) : Attributes(Graph, n).type \in r.types}
    BY <1>3 DEF ListMatches
  <2>3. r.types # {}
    BY DEF IsRequest, Requests
  <2> HIDE DEF rows, S, R, x, Meets
  <2>4. PICK g : g = Graph
    OBVIOUS
  <2>5. IsList(rows, ToSet(g.nodes)) /\ IdsOf(rows) = {n \in NodeIds(g) : Attributes(g, n).type \in r.types}
    BY <2>1, <2>3, <2>4, StockHolds DEF WellFormed
  <2>6. IsList(rows, R)
    BY <1>1, <2>4, <2>5, ListWidens
  <2> QED  BY <1>3, <2>2, <2>4, <2>5, <2>6 DEF rows, R, x, QueryLists
<1> QED  BY <1>2, <1>3

(* Slices. *)
IsPage(page, rows, offset) ==
    /\ page.rows \in Seq(ToSet(rows))
    /\ offset + Len(page.rows) <= Len(rows)
    /\ \A i \in 1 .. Len(page.rows) : page.rows[i] = rows[offset + i]
    /\ page.total = Len(rows)
    /\ page.more <=> offset + Len(page.rows) < Len(rows)
    /\ page.more => page.rows # <<>>

LEMMA PagedIsPage ==
    ASSUME NEW S, NEW rows \in Seq(S), NEW offset \in 0 .. Len(rows), NEW limit \in Nat \ {0}
    PROVE  IsPage(Paged(rows, offset, limit), rows, offset)
<1> DEFINE N == Len(rows)
           m == Min({offset + limit, N})
           q == SubSeq(rows, offset + 1, m)
           T == ToSet(rows)
<1>1. N \in Nat /\ DOMAIN rows = 1 .. N
  BY LenProperties
<1>2. \A i \in 1 .. N : rows[i] \in T
  BY <1>1 DEF ToSet
<1> HIDE DEF N, T
<1>3. m \in Nat /\ m >= offset /\ m <= N /\ (m = N \/ m = offset + limit)
  <2>1. offset + limit \in Int /\ N \in Int
    BY <1>1
  <2>2. m = IF offset + limit <= N THEN offset + limit ELSE N
    BY <2>1, MinOfTwo
  <2>3. offset <= N /\ offset \in Nat
    BY DEF N
  <2> HIDE DEF m
  <2> QED  BY <1>1, <2>2, <2>3
<1> HIDE DEF m
<1>4. /\ q \in Seq(T) /\ Len(q) = m - offset
      /\ \A i \in 1 .. m - offset : q[i] = rows[offset + i]
  <2>1. \A i \in offset + 1 .. m : rows[i] \in T
    BY <1>1, <1>2, <1>3
  <2>2. offset + 1 \in Int /\ m \in Int
    BY <1>3
  <2> DEFINE a == offset + 1
  <2> HIDE DEF a
  <2>3. /\ SubSeq(rows, a, m) \in Seq(T)
        /\ Len(SubSeq(rows, a, m)) = (IF a <= m THEN m - a + 1 ELSE 0)
        /\ \A i \in 1 .. m - a + 1 : SubSeq(rows, a, m)[i] = rows[a + i - 1]
    BY ONLY <2>1, <2>2, SubSeqProperties DEF a
  <2>4. q = SubSeq(rows, a, m) /\ a = offset + 1
    BY DEF a
  <2> HIDE DEF q
  <2>5. Len(q) = m - offset
    BY <1>3, <2>3, <2>4
  <2>6. ASSUME NEW i \in 1 .. m - offset PROVE q[i] = rows[offset + i]
    <3>1. i \in 1 .. m - a + 1 /\ a + i - 1 = offset + i
      BY <1>3, <2>4
    <3> QED  BY <2>3, <2>4, <3>1
  <2> QED  BY <2>3, <2>4, <2>5, <2>6
<1> DEFINE page == Paged(rows, offset, limit)
<1>5. page.rows = q /\ page.total = N /\ (page.more <=> offset + Len(q) < N)
  BY DEF Paged, Slice, HasMore, m, N
<1> HIDE DEF q, page
<1>6. page.more => q # <<>>
  <2> SUFFICES ASSUME page.more PROVE q # <<>>
    OBVIOUS
  <2>1. m # N /\ m = offset + limit
    BY <1>1, <1>3, <1>4, <1>5
  <2>2. Len(q) = limit /\ limit # 0
    BY <1>4, <2>1
  <2> QED  BY <2>2, EmptySeq
<1>7. offset + Len(q) <= N /\ \A i \in 1 .. Len(q) : q[i] = rows[offset + i]
  BY <1>1, <1>3, <1>4
<1> QED  BY <1>4, <1>5, <1>6, <1>7 DEF IsPage, page, N, T

LEMMA WholeIsPage ==
    ASSUME NEW S, NEW rows \in Seq(S)
    PROVE  IsPage([rows |-> rows, total |-> Len(rows), more |-> FALSE], rows, 0)
<1> DEFINE page == [rows |-> rows, total |-> Len(rows), more |-> FALSE]
<1>1. page.rows = rows /\ page.total = Len(rows) /\ page.more = FALSE
  OBVIOUS
<1>2. Len(rows) \in Nat /\ DOMAIN rows = 1 .. Len(rows)
  BY LenProperties
<1>3. rows \in Seq(ToSet(rows))
  <2>1. PICK n \in Nat : n = Len(rows)
    BY <1>2
  <2>2. rows \in [1 .. n -> ToSet(rows)]
    <3>1. rows = [i \in 1 .. n |-> rows[i]]
      BY <2>1
    <3>2. \A i \in 1 .. n : rows[i] \in ToSet(rows)
      BY <1>2, <2>1 DEF ToSet
    <3> QED  BY <3>1, <3>2
  <2> QED  BY <2>2
<1> HIDE DEF page
<1>4. \A i \in 1 .. Len(rows) : 0 + i = i
  OBVIOUS
<1> QED  BY <1>1, <1>2, <1>3, <1>4 DEF IsPage, page

(* A request and the one for its next page differ by the offset. *)
At(r, n) == [r EXCEPT !.offset = n]

LEMMA AtKeeps ==
    ASSUME NEW r \in Requests, NEW n
    PROVE  LET q == At(r, n)
           IN  /\ q.types = r.types /\ q.status = r.status /\ q.min = r.min /\ q.max = r.max
               /\ q.pattern = r.pattern /\ q.sort = r.sort /\ q.limit = r.limit
               /\ q.blocks = r.blocks /\ q.offset = n
BY DEF At, Requests

SameQuery(q, r) ==
    /\ q.types = r.types /\ q.status = r.status /\ q.min = r.min /\ q.max = r.max
    /\ q.pattern = r.pattern /\ q.sort = r.sort /\ q.blocks = r.blocks

LEMMA SameMatches ==
    ASSUME NEW x, NEW q, NEW r, SameQuery(q, r)
    PROVE  Matches(x, q) = Matches(x, r)
<1>1. ActiveBlock(q) = ActiveBlock(r)
  BY DEF ActiveBlock, SameQuery
<1>2. EffectiveSort(q) = EffectiveSort(r)
  BY <1>1 DEF EffectiveSort, SameQuery
<1> QED  BY <1>1, <1>2 DEF Matches, SameQuery

LEMMA LimitsArePositive == \A k \in 1 .. 50 : k \in Nat \ {0} /\ k # Unset
BY DEF Unset

(* A page whose rows the graph knows is given, and one with a row it does not know fails. *)
IsGiven(page, whole) ==
    \/ page = whole /\ page # Failed /\ \A i \in DOMAIN whole.rows : whole.rows[i].known
    \/ page = Failed /\ \E i \in DOMAIN whole.rows : ~whole.rows[i].known

LEMMA QueryPage ==
    ASSUME NEW S, NEW x, NEW input, NEW wh, NEW page, page = RunsQuery(x, input, wh), page # Refused,
           {"limit", "offset", "blocks"} \subseteq DOMAIN input, input = [f \in DOMAIN input |-> input[f]],
           Matches(x, CallOf(input)) \in Seq(S),
           input.offset \in 0 .. Len(Matches(x, CallOf(input)))
    PROVE  \E whole : IsPage(whole, Matches(x, CallOf(input)), input.offset) /\ IsGiven(page, whole)
<1> DEFINE q == CallOf(input)
           limit == EffectiveLimit(q)
           whole == Paged(Matches(x, q), q.offset, limit)
<1>0. InputIsValid(input) /\ page = QueryExecutions(x, q, wh)
  BY DEF RunsQuery, CallOf
<1>1. InputIsValid(input) /\ PlanIsValid(q, wh) /\ IsGiven(page, whole)
  <2>1. whole # Failed
    BY DEF Paged, Failed
  <2> HIDE DEF whole, limit, q
  <2>2. PlanIsValid(q, wh)
    BY <1>0 DEF QueryExecutions
  <2>3. page = IF \E i \in DOMAIN whole.rows : ~whole.rows[i].known THEN Failed ELSE whole
    BY <1>0, <2>2 DEF QueryExecutions, whole, limit
  <2> QED  BY <1>0, <2>1, <2>2, <2>3 DEF IsGiven
<1>2. q.limit = (IF input.limit = Unset THEN QueryDefaultLimit ELSE input.limit)
      /\ q.offset = input.offset
  BY DEF CallOf, ToQueryExecutionsRequest
<1>3. q.limit \in Nat \ {0} /\ q.limit # Unset
  <2>1. input.limit = -1 \/ input.limit \in 1 .. 50
    BY <1>1 DEF InputIsValid, QueryMaxLimit, Unset
  <2> HIDE DEF q
  <2>2. q.limit = IF input.limit = -1 THEN 10 ELSE input.limit
    BY <1>2 DEF Unset, QueryDefaultLimit
  <2>3. q.limit \in 1 .. 50
    BY <2>1, <2>2
  <2> QED  BY ONLY <2>3, LimitsArePositive
<1> HIDE DEF q
<1>4. limit \in Nat \ {0}
  <2>1. limit = Min({q.limit, QueryMaxLimit}) /\ QueryMaxLimit = 50 /\ q.limit \in Int /\ 50 \in Int
    BY <1>3 DEF EffectiveLimit, QueryMaxLimit
  <2>2. limit = IF q.limit <= 50 THEN q.limit ELSE 50
    BY <2>1, MinOfTwo
  <2> HIDE DEF limit
  <2> QED  BY <1>3, <2>2
<1> HIDE DEF limit
<1>5. IsPage(whole, Matches(x, q), input.offset)
  BY <1>2, <1>4, PagedIsPage DEF q
<1> HIDE DEF whole
<1> QED  BY <1>1, <1>5 DEF q

LEMMA InventoryPage ==
    ASSUME NEW S, NEW rows \in Seq(S), NEW limit \in Nat \cup {Unset}, NEW n \in 0 .. Len(rows),
           NEW page, page = ApplyListPaging(rows, limit, n), page # Refused
    PROVE  IsPage(page, rows, n)
<1>1. OffsetIsAllowed(limit, n) /\ LimitIsAllowed(limit)
  BY DEF ApplyListPaging, OffsetIsAllowed, LimitIsAllowed
<1>2. CASE limit = Unset
  <2>1. n = 0 /\ page = [rows |-> rows, total |-> Len(rows), more |-> FALSE]
    BY <1>1, <1>2 DEF ApplyListPaging, OffsetIsAllowed
  <2> QED  BY <2>1, WholeIsPage
<1>3. CASE limit # Unset
  <2>1. page = Paged(rows, n, limit)
    BY <1>1, <1>3 DEF ApplyListPaging, OffsetIsAllowed, LimitIsAllowed
  <2>2. limit \in 1 .. 200
    BY <1>1, <1>3 DEF LimitIsAllowed, ListMaxLimit
  <2>3. limit \in Nat \ {0}
    BY <2>2
  <2> QED  BY <2>1, <2>3, PagedIsPage
<1> QED  BY <1>2, <1>3

LEMMA ListingHasNotFailed ==
    ASSUME NEW items, NEW limit, NEW offset
    PROVE  ApplyListPaging(items, limit, offset) # Failed
<1>1. \A rows, total, more : [rows |-> rows, total |-> total, more |-> more] # Failed
  BY DEF Failed
<1>2. Refused # Failed
  BY DEF Refused, Failed
<1> QED  BY <1>1, <1>2 DEF ApplyListPaging, Paged

LEMMA ListingIsPage ==
    ASSUME WellFormed(TypedExecutions, Graph), NEW list, NEW r, IsRequest(r),
           NEW n \in 0 .. Len(AllRows(TypedExecutions, Graph, list, r)),
           list = "timeline" => n = 0,
           NEW page \in PagesGiven(list, At(r, n))
    PROVE  \E whole : /\ IsPage(whole, AllRows(TypedExecutions, Graph, list, r), n)
                      /\ IF list \in QueryLists THEN IsGiven(page, whole)
                         ELSE page = whole /\ page # Failed
<1> DEFINE x == TypedExecutions
           R == RowSet(x, Graph)
           q == At(r, n)
           rows == AllRows(x, Graph, list, r)
<1>1. page = ListingPage(list, q, x) /\ page # Refused
  BY DEF PagesGiven
<1>2. rows \in Seq(R)
  BY AllRowsHold DEF IsList
<1>3. /\ q.types = r.types /\ q.status = r.status /\ q.min = r.min /\ q.max = r.max
      /\ q.pattern = r.pattern /\ q.sort = r.sort /\ q.limit = r.limit
      /\ q.blocks = r.blocks /\ q.offset = n
  BY AtKeeps DEF IsRequest
<1>4. r.limit \in Nat \cup {Unset}
  BY DEF IsRequest, Requests
<1> HIDE DEF x, R
<1>5. CASE list = "runs.query"
  <2>1. page = RunsQuery(x, q, bundle.warehouse) /\ rows = Matches(x, CallOf(r))
    BY <1>1, <1>5 DEF ListingPage, AllRows
  <2>2. {"limit", "offset", "blocks"} \subseteq DOMAIN q /\ q = [f \in DOMAIN q |-> q[f]]
    BY DEF At, IsRequest, Requests
  <2>3. SameQuery(CallOf(q), CallOf(r))
    BY <1>3 DEF SameQuery, CallOf, ToQueryExecutionsRequest, At, IsRequest, Requests
  <2> HIDE DEF q, rows
  <2>4. Matches(x, CallOf(q)) = rows
    BY <2>1, <2>3, SameMatches
  <2>5. n \in 0 .. Len(rows)
    BY DEF rows, x
  <2>6. \E whole : IsPage(whole, rows, n) /\ IsGiven(page, whole)
    BY <1>1, <1>2, <1>3, <2>1, <2>2, <2>4, <2>5, QueryPage
  <2> QED  BY <1>5, <2>6 DEF rows, x, QueryLists
<1>6. CASE list = "query-executions"
  <2> DEFINE input == BuildRegistryInput(OptionsOf(q))
             base == BuildRegistryInput(OptionsOf(r))
  <2>1. page = RunsQuery(x, input, bundle.warehouse) /\ rows = Matches(x, CallOf(base))
    BY <1>1, <1>6 DEF ListingPage, AllRows, QueryCommand, CommandOf, CallOf
  <2>2. {"limit", "offset", "blocks"} \subseteq DOMAIN input /\ input = [f \in DOMAIN input |-> input[f]]
    BY DEF BuildRegistryInput
  <2>3. input.offset = n
    BY <1>3 DEF BuildRegistryInput, OptionsOf
  <2>4. SameQuery(CallOf(input), CallOf(base))
    <3> HIDE DEF q
    <3>1. ActiveBlock(q) = ActiveBlock(r)
      BY <1>3 DEF ActiveBlock
    <3> DEFINE o == OptionsOf(q)
               p == OptionsOf(r)
    <3>2. /\ o.types = p.types /\ o.status = p.status /\ o.min = p.min /\ o.max = p.max
          /\ o.pattern = p.pattern /\ o.sort = p.sort /\ o.warehouse = p.warehouse /\ o.mins = p.mins
      BY <1>3, <3>1 DEF OptionsOf
    <3> HIDE DEF o, p
    <3>3. SameQuery(input, base)
      BY <3>2 DEF SameQuery, BuildRegistryInput, o, p
    <3>4. "blocks" \in DOMAIN input /\ "blocks" \in DOMAIN base
      BY DEF BuildRegistryInput
    <3> HIDE DEF input, base
    <3> QED  BY <3>3, <3>4 DEF SameQuery, CallOf, ToQueryExecutionsRequest
  <2> HIDE DEF q, rows, input, base
  <2>5. Matches(x, CallOf(input)) = rows
    BY <2>1, <2>4, SameMatches
  <2>6. n \in 0 .. Len(rows)
    BY DEF rows, x
  <2>7. \E whole : IsPage(whole, rows, n) /\ IsGiven(page, whole)
    BY <1>1, <1>2, <2>1, <2>2, <2>3, <2>5, <2>6, QueryPage
  <2> QED  BY <1>6, <2>7 DEF rows, x, QueryLists
<1>7. CASE list = "failures"
  <2>1. page = Failures(x, q.status, q.limit, q.offset)
        /\ rows = SortFailuresStable(FilterExecutions(x, r.status))
    BY <1>1, <1>7 DEF ListingPage, AllRows
  <2> HIDE DEF q
  <2>2. page = Paged(rows, n, IF r.limit = Unset THEN FailuresDefaultLimit ELSE r.limit)
        /\ LimitIsAllowed(r.limit)
    BY <1>1, <1>3, <2>1 DEF Failures
  <2> DEFINE limit == IF r.limit = Unset THEN FailuresDefaultLimit ELSE r.limit
  <2>3. limit \in Nat \ {0}
    <3>1. r.limit = Unset \/ r.limit \in 1 .. 200
      BY <2>2 DEF LimitIsAllowed, ListMaxLimit
    <3>2. FailuresDefaultLimit = 50
      BY DEF FailuresDefaultLimit
    <3>3. limit \in 1 .. 200
      BY <3>1, <3>2
    <3> HIDE DEF limit
    <3> QED  BY <3>3
  <2>4. n \in 0 .. Len(rows)
    BY DEF x
  <2> HIDE DEF limit, rows
  <2>5. IsPage(page, rows, n)
    BY <1>2, <2>2, <2>3, <2>4, PagedIsPage DEF limit
  <2>6. page # Failed
    BY <2>2 DEF Paged, Failed
  <2> QED  BY <1>7, <2>5, <2>6 DEF rows, x, QueryLists
<1>8. CASE list = "run-report"
  <2> DEFINE options == [top |-> Unset, threshold |-> Unset, limit |-> q.limit,
                         offset |-> q.offset, mins |-> NoMin, metric |-> "slot_ms"]
  <2>1. page = PageOfReport(RunReport(x, options))
        /\ rows = IF r.limit = Unset THEN x ELSE SortNodeExecutionsForSlice(x)
    BY <1>1, <1>8 DEF ListingPage, AllRows
  <2>2. options.limit = r.limit /\ options.offset = n
    BY <1>3
  <2> HIDE DEF options, q
  <2>3. /\ OffsetIsAllowed(r.limit, n) /\ LimitIsAllowed(r.limit)
        /\ page = IF r.limit = Unset THEN [rows |-> x, total |-> Len(x), more |-> FALSE]
                  ELSE Paged(SortNodeExecutionsForSlice(x), n, r.limit)
    BY <1>1, <2>1, <2>2 DEF RunReport, PageOfReport, Refused
  <2>4. n \in 0 .. Len(rows)
    BY DEF x
  <2>5. page = ApplyListPaging(rows, r.limit, n)
    BY <2>1, <2>3 DEF ApplyListPaging
  <2> HIDE DEF rows
  <2>6. IsPage(page, rows, n)
    BY <1>1, <1>2, <1>4, <2>4, <2>5, InventoryPage
  <2>7. page # Failed
    BY <1>1, <2>5, ListingHasNotFailed
  <2> QED  BY <1>8, <2>6, <2>7 DEF rows, x, QueryLists
<1>9. CASE list = "timeline"
  <2>1. n = 0 /\ rows = TimelineRows(x, r.status)
    BY <1>9 DEF AllRows, x
  <2>2. page = [rows |-> rows, total |-> Len(rows), more |-> FALSE]
    <3>1. page = [rows |-> TimelineRows(x, q.status), total |-> Len(TimelineRows(x, q.status)), more |-> FALSE]
      BY <1>1, <1>9 DEF ListingPage, TimelineRows
    <3> HIDE DEF q
    <3> QED  BY <1>3, <2>1, <3>1
  <2> HIDE DEF rows
  <2>3. IsPage(page, rows, n)
    BY <1>2, <2>1, <2>2, WholeIsPage
  <2>4. page # Failed
    BY <2>2 DEF Failed
  <2> QED  BY <1>9, <2>3, <2>4 DEF rows, x, QueryLists
<1>10. CASE list \notin {"runs.query", "query-executions", "failures", "timeline", "run-report"}
  <2>1. rows = Sorted(Stocked(Graph, r.types), StockedEarlier(Stocked(Graph, r.types)))
    BY <1>10 DEF AllRows
  <2>2. page = Inventory(Graph, q.types, 0, q.limit, q.offset)
    BY <1>1, <1>10 DEF ListingPage
  <2> HIDE DEF q
  <2>3. page = Inventory(Graph, r.types, 0, r.limit, n)
    BY <1>3, <2>2
  <2>4. page = ApplyListPaging(rows, r.limit, n)
    BY <2>1, <2>3 DEF Inventory, Stocked, StockedEarlier
  <2>5. n \in 0 .. Len(rows)
    BY DEF x
  <2> HIDE DEF rows
  <2>6. IsPage(page, rows, n)
    BY <1>1, <1>2, <1>4, <2>4, <2>5, InventoryPage
  <2>7. page # Failed
    BY <1>1, <2>4, ListingHasNotFailed
  <2> QED  BY <1>10, <2>6, <2>7 DEF rows, x, QueryLists
<1> QED  BY <1>5, <1>6, <1>7, <1>8, <1>9, <1>10

(* A list without repetitions has as many members as places. *)
LEMMA DistinctCount ==
    ASSUME NEW S, NEW c \in Seq(S), \A i, j \in 1 .. Len(c) : c[i] = c[j] => i = j
    PROVE  IsFiniteSet(ToSet(c)) /\ Cardinality(ToSet(c)) = Len(c)
<1> DEFINE N == Len(c)
           T == ToSet(c)
<1>1. N \in Nat /\ DOMAIN c = 1 .. N /\ c = [i \in 1 .. N |-> c[i]]
  BY LenProperties
<1>2. \A i \in 1 .. N : c[i] \in T
  BY <1>1 DEF ToSet
<1>3. \A t \in T : \E i \in 1 .. N : c[i] = t
  BY <1>1 DEF ToSet
<1>4. \A i, j \in 1 .. N : c[i] = c[j] => i = j
  OBVIOUS
<1> HIDE DEF N, T
<1>5. c \in Surjection(1 .. N, T)
  BY <1>1, <1>2, <1>3 DEF Surjection
<1>6. c \in Injection(1 .. N, T)
  BY <1>1, <1>2, <1>4 DEF Injection, IsInjective
<1>7. IsFiniteSet(1 .. N) /\ Cardinality(1 .. N) = N
  <2>0. 1 \in Int /\ N \in Int
    BY <1>1
  <2>1. /\ IsFiniteSet(1 .. N)
        /\ Cardinality(1 .. N) = IF 1 > N THEN 0 ELSE N - 1 + 1
    BY ONLY <2>0, FS_Interval
  <2>2. CASE N = 0
    BY <2>1, <2>2
  <2>3. CASE N # 0
    BY <1>1, <2>1, <2>3
  <2> QED  BY <2>2, <2>3
<1>8. IsFiniteSet(T) /\ (Cardinality(T) = Cardinality(1 .. N) <=> c \in Injection(1 .. N, T))
  BY <1>5, <1>7, FS_Surjection
<1> QED  BY <1>6, <1>7, <1>8 DEF N, T

(* What was collected is the beginning of the list. *)
Begins(c, rows) ==
    /\ c \in Seq(IdsOf(rows)) /\ Len(c) <= Len(rows)
    /\ \A i \in 1 .. Len(c) : c[i] = rows[i].id

LEMMA BeginningIsDistinct ==
    ASSUME NEW S, NEW rows, IsList(rows, S), NEW c, Begins(c, rows)
    PROVE  /\ Cardinality(ToSet(c)) = Len(c) /\ ToSet(c) \subseteq IdsOf(rows)
           /\ Len(c) = Len(rows) => ToSet(c) = IdsOf(rows)
<1> DEFINE N == Len(rows)
           n == Len(c)
<1>1. N \in Nat /\ DOMAIN rows = 1 .. N /\ n \in Nat /\ DOMAIN c = 1 .. n /\ n <= N
  BY LenProperties DEF IsList, Begins
<1>2. \A i \in 1 .. n : c[i] = rows[i].id
  BY DEF Begins
<1>3. \A i, j \in 1 .. N : rows[i].id = rows[j].id => i = j
  BY DEF IsList, DistinctIds
<1> HIDE DEF N, n
<1>4. \A i, j \in 1 .. n : c[i] = c[j] => i = j
  <2> TAKE i, j \in 1 .. n
  <2>1. i \in 1 .. N /\ j \in 1 .. N
    BY <1>1
  <2> QED  BY <1>2, <1>3, <2>1
<1>5. Cardinality(ToSet(c)) = Len(c)
  BY <1>4, DistinctCount DEF Begins, n
<1>6. ToSet(c) \subseteq IdsOf(rows)
  <2> SUFFICES ASSUME NEW y \in ToSet(c) PROVE y \in IdsOf(rows)
    OBVIOUS
  <2>1. PICK i \in 1 .. n : y = c[i]
    BY <1>1 DEF ToSet
  <2>2. i \in 1 .. N
    BY <1>1
  <2> QED  BY <1>1, <1>2, <2>1, <2>2 DEF IdsOf, ToSet
<1>7. ASSUME n = N PROVE IdsOf(rows) \subseteq ToSet(c)
  <2> SUFFICES ASSUME NEW y \in IdsOf(rows) PROVE y \in ToSet(c)
    OBVIOUS
  <2>1. PICK i \in 1 .. N : y = rows[i].id
    BY <1>1 DEF IdsOf, ToSet
  <2> QED  BY <1>1, <1>2, <1>7, <2>1 DEF ToSet
<1> QED  BY <1>5, <1>6, <1>7 DEF n, N

LEMMA WholeIsCounted ==
    ASSUME NEW S, NEW rows, IsList(rows, S)
    PROVE  Cardinality(IdsOf(rows)) = Len(rows)
<1> DEFINE N == Len(rows)
           c == [i \in 1 .. N |-> rows[i].id]
<1>1. N \in Nat /\ DOMAIN rows = 1 .. N
  BY LenProperties DEF IsList
<1>2. \A i \in 1 .. N : rows[i].id \in IdsOf(rows)
  BY <1>1 DEF IdsOf, ToSet
<1>3. Begins(c, rows) /\ Len(c) = N
  <2>1. PICK n \in Nat : n = N
    BY <1>1
  <2>2. \A f \in [1 .. n -> IdsOf(rows)] : f \in Seq(IdsOf(rows)) /\ Len(f) = n
    OBVIOUS
  <2>3. c \in [1 .. n -> IdsOf(rows)] /\ \A i \in 1 .. n : c[i] = rows[i].id
    BY <1>2, <2>1
  <2> HIDE DEF c, N
  <2>4. c \in Seq(IdsOf(rows)) /\ Len(c) = N
    BY <2>1, <2>2, <2>3
  <2> QED  BY <1>1, <2>1, <2>3, <2>4 DEF Begins, N
<1> HIDE DEF c
<1> QED  BY <1>3, BeginningIsDistinct

LEMMA BeginningGrows ==
    ASSUME NEW S, NEW rows, IsList(rows, S), NEW c, Begins(c, rows),
           NEW page, IsPage(page, rows, Len(c))
    PROVE  /\ Begins(c \o RowIds(page), rows)
           /\ Len(c \o RowIds(page)) = Len(c) + Len(page.rows)
<1> DEFINE N == Len(rows)
           n == Len(c)
           k == Len(page.rows)
           d == RowIds(page)
           I == IdsOf(rows)
           e == c \o d
<1>1. N \in Nat /\ DOMAIN rows = 1 .. N /\ n \in Nat /\ k \in Nat /\ DOMAIN page.rows = 1 .. k
      /\ n + k <= N /\ c \in Seq(I)
  BY LenProperties DEF IsList, Begins, IsPage
<1>2. \A i \in 1 .. N : rows[i].id \in I
  BY <1>1 DEF IdsOf, ToSet
<1>3. (\A i \in 1 .. n : c[i] = rows[i].id) /\ (\A i \in 1 .. k : page.rows[i] = rows[n + i])
  BY DEF Begins, IsPage
<1>4. d = [i \in 1 .. k |-> page.rows[i].id]
  BY <1>1 DEF RowIds
<1> HIDE DEF N, n, k, d, I
<1>5. d \in Seq(I) /\ Len(d) = k /\ \A i \in 1 .. k : d[i] = rows[n + i].id
  <2>1. PICK m \in Nat : m = k
    BY <1>1
  <2>2. \A f \in [1 .. m -> I] : f \in Seq(I) /\ Len(f) = m
    OBVIOUS
  <2>3. \A i \in 1 .. m : d[i] = rows[n + i].id /\ n + i \in 1 .. N
    BY <1>1, <1>3, <1>4, <2>1
  <2>4. d \in [1 .. m -> I]
    BY <1>2, <1>4, <2>1, <2>3
  <2> QED  BY <2>1, <2>2, <2>3, <2>4
<1>6. /\ e \in Seq(I) /\ Len(e) = n + k
      /\ \A i \in 1 .. n + k : e[i] = IF i <= n THEN c[i] ELSE d[i - n]
  <2>1. /\ e \in Seq(I) /\ Len(e) = Len(c) + Len(d)
        /\ \A i \in 1 .. Len(c) + Len(d) : e[i] = IF i <= Len(c) THEN c[i] ELSE d[i - Len(c)]
    BY <1>1, <1>5, ConcatProperties
  <2> HIDE DEF e
  <2> QED  BY <1>5, <2>1 DEF n
<1> HIDE DEF e
<1>7. ASSUME NEW i \in 1 .. n + k PROVE e[i] = rows[i].id
  <2>1. CASE i <= n
    <3>1. i \in 1 .. n
      BY <1>1, <2>1
    <3> QED  BY <1>3, <1>6, <2>1, <3>1
  <2>2. CASE ~(i <= n)
    <3>1. i - n \in 1 .. k /\ n + (i - n) = i
      BY <1>1, <2>2
    <3>2. d[i - n] = rows[n + (i - n)].id
      BY <1>5, <3>1
    <3> QED  BY <1>6, <2>2, <3>1, <3>2
  <2> QED  BY <2>1, <2>2
<1>8. Len(e) <= N
  BY <1>1, <1>6
<1> QED  BY <1>6, <1>7, <1>8 DEF Begins, e, d, n, k, N, I

(* What was collected of a list, and whether there is more. *)
AllKnown(rows, n) == \A i \in 1 .. n : rows[i].known
Collected(x, graph, asked, given) ==
    LET rows == AllRows(x, graph, asked.list, asked.request)
    IN  /\ Begins(given.collected, rows)
        /\ asked.list \in QueryLists => AllKnown(rows, Len(given.collected))
        /\ given.page.total = Len(rows)
        /\ given.page.more <=> Len(given.collected) < Len(rows)
        /\ given.page.more => given.page.rows # <<>> /\ asked.list # "timeline"
(* ... and of one that failed. *)
Stopped(x, graph, asked, given) ==
    LET rows == AllRows(x, graph, asked.list, asked.request)
    IN  /\ Begins(given.collected, rows)
        /\ asked.list \in QueryLists /\ AllKnown(rows, Len(given.collected))
        /\ \E i \in Len(given.collected) + 1 .. Len(rows) : ~rows[i].known
IsFollowed(x, graph, a) ==
    /\ a.kind \in {"list", "failure"} => scene = "questions" /\ a.asked \in Listings
    /\ a.kind = "list" => Collected(x, graph, a.asked, a.given)
    /\ a.kind = "failure" => Stopped(x, graph, a.asked, a.given)
PagesInv ==
    /\ scene = "questions" => bundle \in Bundles
    /\ IsFollowed(TypedExecutions, Graph, answer)

LEMMA BundleIsWellFormed ==
    ASSUME bundle \in Bundles
    PROVE  WellFormed(TypedExecutions, Graph)
<1>1. IsManifest(bundle.manifest) /\ IsRun(bundle.results)
  BY BundlesAreRuns
<1>2. /\ IsList(TypedExecutions, ToSet(TypedExecutions))
      /\ \A e \in ToSet(TypedExecutions) : e.metrics \in [Metrics -> Nat]
  BY <1>1, TypedRows
<1>3. LET nodes == Graph.nodes
      IN  nodes \in Seq(ToSet(nodes)) /\ DistinctIds(nodes) /\ \A n \in ToSet(nodes) : n.type # "field"
  BY <1>1, GraphNodes DEF Graph
<1> QED  BY <1>2, <1>3 DEF WellFormed

LEMMA ListingIsRequest ==
    ASSUME NEW l \in Listings
    PROVE  IsRequest(l.request) /\ At(l.request, 0) = l.request
<1>1. IsRequest(l.request)
  BY ListingsAreRequests DEF IsRequest
<1>2. l.request.offset = 0 /\ l.request = [f \in DOMAIN l.request |-> l.request[f]]
      /\ "offset" \in DOMAIN l.request
  BY <1>1 DEF IsRequest, Requests
<1> QED  BY <1>1, <1>2 DEF At

LEMMA TimelineIsWhole ==
    ASSUME NEW r, NEW page \in PagesGiven("timeline", r)
    PROVE  ~page.more
BY DEF PagesGiven, ListingPage

LEMMA PageCollects ==
    ASSUME bundle \in Bundles, scene = "questions", NEW l \in Listings, NEW c,
           Begins(c, AllRows(TypedExecutions, Graph, l.list, l.request)),
           l.list \in QueryLists =>
               AllKnown(AllRows(TypedExecutions, Graph, l.list, l.request), Len(c)),
           l.list = "timeline" => Len(c) = 0,
           NEW page \in PagesGiven(l.list, At(l.request, Len(c))),
           TurnTo(page, l, c)
    PROVE  IsFollowed(TypedExecutions, Graph, answer')
<1> DEFINE rows == AllRows(TypedExecutions, Graph, l.list, l.request)
           given == [page |-> page, collected |-> c \o RowIds(page)]
<1>1. WellFormed(TypedExecutions, Graph) /\ IsRequest(l.request)
  BY BundleIsWellFormed, ListingIsRequest
<1>2. IsList(rows, RowSet(TypedExecutions, Graph))
  BY <1>1, AllRowsHold
<1>3. Len(c) \in 0 .. Len(rows)
  <2>1. Len(rows) \in Nat
    BY <1>2, LenProperties DEF IsList
  <2>2. Len(c) \in Nat /\ Len(c) <= Len(rows)
    BY LenProperties DEF Begins
  <2> HIDE DEF rows
  <2> QED  BY <2>1, <2>2
<1>4. PICK whole : /\ IsPage(whole, rows, Len(c))
                   /\ IF l.list \in QueryLists THEN IsGiven(page, whole)
                      ELSE page = whole /\ page # Failed
  BY <1>1, <1>3, ListingIsPage
<1>5. l.list = "timeline" => ~page.more
  BY TimelineIsWhole
<1>6. given.page = page /\ given.collected = c \o RowIds(page)
  OBVIOUS
<1>7. Begins(c, rows) /\ (l.list \in QueryLists => AllKnown(rows, Len(c)))
  OBVIOUS
<1>8. PICK n \in Nat : /\ n = Len(c) /\ n + Len(whole.rows) <= Len(rows) /\ Len(rows) \in Nat
                       /\ Len(whole.rows) \in Nat /\ DOMAIN whole.rows = 1 .. Len(whole.rows)
  BY <1>2, <1>3, <1>4, LenProperties DEF IsPage, IsList
<1> HIDE DEF rows, given
<1>9. CASE page = whole /\ page # Failed
  <2>1. answer' = [kind |-> "list", asked |-> l, given |-> given]
    BY <1>9 DEF TurnTo, Answers, given
  <2>2. Begins(given.collected, rows) /\ Len(given.collected) = n + Len(page.rows)
    BY <1>2, <1>4, <1>6, <1>7, <1>8, <1>9, BeginningGrows
  <2>3. /\ page.total = Len(rows) /\ (page.more <=> n + Len(page.rows) < Len(rows))
        /\ page.more => page.rows # <<>>
    BY <1>4, <1>8, <1>9 DEF IsPage
  <2>4. ASSUME l.list \in QueryLists, NEW i \in 1 .. n + Len(whole.rows)
        PROVE  rows[i].known
    <3>1. \A k \in 1 .. Len(whole.rows) : whole.rows[k].known
      BY <1>4, <1>8, <1>9, <2>4 DEF IsGiven
    <3>2. CASE i <= n
      BY <1>7, <1>8, <2>4, <3>2 DEF AllKnown
    <3>3. CASE ~(i <= n)
      <4>1. i - n \in 1 .. Len(whole.rows) /\ n + (i - n) = i
        BY <1>8, <3>3
      <4>2. whole.rows[i - n] = rows[n + (i - n)]
        BY <1>4, <1>8, <4>1 DEF IsPage
      <4> QED  BY <3>1, <4>1, <4>2
    <3> QED  BY <3>2, <3>3
  <2>5. Collected(TypedExecutions, Graph, l, given)
    BY <1>5, <1>6, <1>9, <2>2, <2>3, <2>4 DEF Collected, AllKnown, rows
  <2> QED  BY <2>1, <2>5 DEF IsFollowed
<1>10. CASE page = Failed /\ l.list \in QueryLists /\ \E i \in DOMAIN whole.rows : ~whole.rows[i].known
  <2>1. answer' = [kind |-> "failure", asked |-> l, given |-> [collected |-> c]]
    BY <1>10 DEF TurnTo, Answers
  <2>2. PICK k \in 1 .. Len(whole.rows) : ~whole.rows[k].known
    BY <1>8, <1>10
  <2>3. n + k \in n + 1 .. Len(rows) /\ rows[n + k] = whole.rows[k]
    BY <1>4, <1>8, <2>2 DEF IsPage
  <2>4. Stopped(TypedExecutions, Graph, l, [collected |-> c])
    BY <1>7, <1>8, <1>10, <2>2, <2>3 DEF Stopped, rows
  <2> QED  BY <2>1, <2>4 DEF IsFollowed
<1> QED  BY <1>4, <1>9, <1>10 DEF IsGiven

LEMMA AskPageKeeps ==
    ASSUME PagesInv, AskPage, UNCHANGED <<scene, bundle>>
    PROVE  IsFollowed(TypedExecutions, Graph, answer')
<1>1. PICK l \in Listings : \E page \in PagesGiven(l.list, l.request) : TurnTo(page, l, <<>>)
  BY DEF AskPage
<1>2. PICK page \in PagesGiven(l.list, l.request) : TurnTo(page, l, <<>>)
  BY <1>1
<1>3. scene = "questions" /\ bundle \in Bundles
  BY DEF AskPage, Asks, PagesInv
<1>4. At(l.request, 0) = l.request
  BY ListingIsRequest
<1>5. Len(<<>>) = 0 /\ Begins(<<>>, AllRows(TypedExecutions, Graph, l.list, l.request))
  <2>1. WellFormed(TypedExecutions, Graph) /\ IsRequest(l.request)
    BY <1>3, BundleIsWellFormed, ListingIsRequest
  <2>2. Len(AllRows(TypedExecutions, Graph, l.list, l.request)) \in Nat
    BY <2>1, AllRowsHold, LenProperties DEF IsList
  <2> QED  BY <2>2 DEF Begins
<1>6. PICK c : c = <<>>
  OBVIOUS
<1>7. AllKnown(AllRows(TypedExecutions, Graph, l.list, l.request), Len(c))
  BY <1>5, <1>6 DEF AllKnown
<1> QED  BY <1>2, <1>3, <1>4, <1>5, <1>6, <1>7, PageCollects

LEMMA FollowPageKeeps ==
    ASSUME PagesInv, FollowPage
    PROVE  IsFollowed(TypedExecutions, Graph, answer')
<1> DEFINE l == answer.asked
           c == answer.given.collected
<1>1. /\ scene = "questions" /\ bundle \in Bundles /\ l \in Listings /\ l.list # "timeline"
      /\ Begins(c, AllRows(TypedExecutions, Graph, l.list, l.request))
      /\ l.list \in QueryLists => AllKnown(AllRows(TypedExecutions, Graph, l.list, l.request), Len(c))
  BY DEF FollowPage, PagesInv, IsFollowed, Collected
<1>2. PICK page \in PagesGiven(l.list, At(l.request, Len(c))) : TurnTo(page, l, c)
  BY DEF FollowPage, At
<1> HIDE DEF l, c
<1> QED  BY <1>1, <1>2, PageCollects

LEMMA QuestionsKeep ==
    ASSUME PagesInv, QuestionsNext, UNCHANGED <<scene, bundle>>
    PROVE  IsFollowed(TypedExecutions, Graph, answer')
<1>1. CASE AskPage
  BY <1>1, AskPageKeeps
<1>2. CASE FollowPage
  BY <1>2, FollowPageKeeps
<1>3. CASE \/ AskDependencies \/ AskFieldDependencies \/ AskSubgraph \/ Analyze \/ AskImpact
           \/ Search \/ AskExplain
  <2>1. \A kind, asked, given :
            kind \notin {"list", "failure"} /\ Answers(kind, asked, given) =>
                IsFollowed(TypedExecutions, Graph, answer')
    BY DEF Answers, IsFollowed
  <2>2. CASE AskDependencies
    BY <2>1, <2>2 DEF AskDependencies
  <2>3. CASE AskFieldDependencies
    BY <2>1, <2>3 DEF AskFieldDependencies
  <2>4. CASE AskSubgraph
    BY <2>1, <2>4 DEF AskSubgraph
  <2>5. CASE Analyze
    BY <2>1, <2>5 DEF Analyze
  <2>6. CASE AskImpact
    BY <2>1, <2>6 DEF AskImpact
  <2>7. CASE Search
    BY <2>1, <2>7 DEF Search
  <2>8. CASE AskExplain
    BY <2>1, <2>8 DEF AskExplain
  <2> QED  BY <1>3, <2>2, <2>3, <2>4, <2>5, <2>6, <2>7, <2>8
<1> QED  BY <1>1, <1>2, <1>3 DEF QuestionsNext

LEMMA PagesStep ==
    ASSUME PagesInv, [Next]_investigationVars
    PROVE  PagesInv'
<1>1. CASE QuestionsNext /\ UNCHANGED <<scene, bundle>>
  <2>1. TypedExecutions' = TypedExecutions /\ Graph' = Graph
    BY <1>1 DEF TypedExecutions, Graph
  <2>2. IsFollowed(TypedExecutions, Graph, answer')
    BY <1>1, QuestionsKeep
  <2> QED  BY <1>1, <2>1, <2>2 DEF PagesInv, IsFollowed
<1>2. CASE UNCHANGED <<scene, bundle, answer>>
  <2>1. TypedExecutions' = TypedExecutions /\ Graph' = Graph
    BY <1>2 DEF TypedExecutions, Graph
  <2> QED  BY <1>2, <2>1 DEF PagesInv, IsFollowed
<1> QED  BY <1>1, <1>2 DEF Next, investigationVars

(* The rows of a query are known exactly when the graph has their ids. *)
LEMMA KnownRows ==
    ASSUME bundle \in Bundles, NEW l \in Listings, l.list \in QueryLists,
           NEW i \in 1 .. Len(AllRows(TypedExecutions, Graph, l.list, l.request))
    PROVE  LET row == AllRows(TypedExecutions, Graph, l.list, l.request)[i]
           IN  row.known <=> row.id \in NodeIds(Graph)
<1> DEFINE x == TypedExecutions
           rows == AllRows(x, Graph, l.list, l.request)
<1>1. ToSet(rows) \subseteq ToSet(x) /\ DOMAIN rows = 1 .. Len(rows)
  BY BundleIsWellFormed, ListingIsRequest, AllRowsHold, LenProperties DEF IsList
<1>2. i \in 1 .. Len(rows)
  OBVIOUS
<1> DEFINE executions == NodeExecutions(bundle.results)
<1>3. x = [k \in DOMAIN executions |->
              [f \in DOMAIN executions[k] \cup {"type", "known"} |->
                  CASE f = "type" -> TypeOf(Graph, <<>>, executions[k].id)
                    [] f = "known" -> HasNode(Graph, executions[k].id)
                    [] OTHER -> executions[k][f]]]
  BY DEF TypedExecutions
<1>4. \A k \in DOMAIN executions : "id" \in DOMAIN executions[k]
  BY DEF NodeExecutions
<1> HIDE DEF rows, x, executions
<1>5. PICK k \in DOMAIN x : rows[i] = x[k]
  BY <1>1, <1>2 DEF ToSet
<1>6. x[k].known = HasNode(Graph, x[k].id)
  <2>1. k \in DOMAIN executions
    BY <1>3, <1>5
  <2>2. x[k].known = HasNode(Graph, executions[k].id)
    BY <1>3, <2>1
  <2>3. x[k].id = executions[k].id
    BY <1>3, <1>4, <2>1
  <2> QED  BY <2>2, <2>3
<1> QED  BY <1>5, <1>6 DEF HasNode, NodeIds, FoundIds, rows, x

LEMMA PagesArePartition ==
    ASSUME PagesInv
    PROVE  PagesPartitionMatches
<1> SUFFICES ASSUME answer.kind \in {"list", "failure"} PROVE PagesPartitionMatches
  BY DEF PagesPartitionMatches
<1> DEFINE l == answer.asked
           rows == AllRows(TypedExecutions, Graph, l.list, l.request)
           c == answer.given.collected
           page == answer.given.page
           matches == ListMatches(l.list, l.request)
<1>1. /\ bundle \in Bundles /\ l \in Listings
      /\ answer.kind = "list" => Collected(TypedExecutions, Graph, l, answer.given)
      /\ answer.kind = "failure" => Stopped(TypedExecutions, Graph, l, answer.given)
  BY DEF PagesInv, IsFollowed
<1>2. IsList(rows, RowSet(TypedExecutions, Graph)) /\ IdsOf(rows) = matches
  BY <1>1, BundleIsWellFormed, ListingIsRequest, AllRowsHold
<1>3. /\ Begins(c, rows) /\ (l.list \in QueryLists => AllKnown(rows, Len(c)))
      /\ answer.kind = "list" => /\ page.total = Len(rows) /\ (page.more <=> Len(c) < Len(rows))
                                 /\ page.more => page.rows # <<>>
  BY <1>1 DEF Collected, Stopped
<1>4. l.list \in QueryLists => \A i \in 1 .. Len(rows) : rows[i].known <=> rows[i].id \in NodeIds(Graph)
  BY <1>1, KnownRows
<1>5. answer.kind = "failure" => /\ l.list \in QueryLists
                                 /\ \E i \in Len(c) + 1 .. Len(rows) : ~rows[i].known
  BY <1>1 DEF Stopped
<1>6. /\ Len(c) \in Nat /\ Len(rows) \in Nat /\ Len(c) <= Len(rows)
      /\ DOMAIN c = 1 .. Len(c) /\ DOMAIN rows = 1 .. Len(rows)
  BY <1>2, <1>3, LenProperties DEF IsList, Begins
<1> HIDE DEF rows, c, page, matches, l
<1>7. /\ Cardinality(ToSet(c)) = Len(c) /\ ToSet(c) \subseteq matches
      /\ Len(c) = Len(rows) => ToSet(c) = matches
      /\ Cardinality(matches) = Len(rows)
  BY <1>2, <1>3, BeginningIsDistinct, WholeIsCounted
<1>8. answer.kind = "list" /\ ~page.more => Len(c) = Len(rows)
  <2> SUFFICES ASSUME answer.kind = "list", ~page.more PROVE Len(c) = Len(rows)
    OBVIOUS
  <2>1. page.more <=> Len(c) < Len(rows)
    BY <1>3
  <2>2. PICK n \in Nat, m \in Nat : n = Len(c) /\ m = Len(rows)
    BY <1>6
  <2>3. n <= m /\ ~(n < m)
    BY <1>6, <2>1, <2>2
  <2>4. n = m
    BY ONLY <2>3, n \in Nat, m \in Nat
  <2> QED  BY <2>2, <2>4
<1>9. ASSUME l.list \in QueryLists PROVE ToSet(c) \subseteq NodeIds(Graph)
  <2> SUFFICES ASSUME NEW i \in 1 .. Len(c) PROVE c[i] \in NodeIds(Graph)
    BY <1>6 DEF ToSet
  <2>1. i \in 1 .. Len(rows) /\ c[i] = rows[i].id /\ rows[i].known
    BY <1>3, <1>6, <1>9 DEF Begins, AllKnown
  <2> QED  BY <1>4, <1>9, <2>1
<1>10. ASSUME answer.kind = "failure" PROVE ~(matches \ ToSet(c) \subseteq NodeIds(Graph))
  <2>1. PICK i \in Len(c) + 1 .. Len(rows) : ~rows[i].known
    BY <1>5, <1>10
  <2>2. i \in 1 .. Len(rows) /\ ~(i <= Len(c))
    BY <1>6
  <2>3. rows[i].id \notin NodeIds(Graph)
    BY <1>4, <1>5, <1>10, <2>1, <2>2
  <2>4. rows[i].id \in matches
    BY <1>2, <1>6, <2>2 DEF IdsOf, ToSet
  <2>5. ASSUME NEW k \in 1 .. Len(c), c[k] = rows[i].id PROVE FALSE
    <3>1. k \in 1 .. Len(rows) /\ rows[k].id = rows[i].id /\ k # i
      BY <1>3, <1>6, <2>2, <2>5 DEF Begins
    <3> QED  BY <1>2, <2>2, <3>1 DEF IsList, DistinctIds
  <2>6. rows[i].id \notin ToSet(c)
    BY <1>6, <2>5 DEF ToSet
  <2> QED  BY <2>3, <2>4, <2>6
<1> QED  BY <1>3, <1>5, <1>7, <1>8, <1>9, <1>10 DEF PagesPartitionMatches, NoneTwice, c, page, matches, l

(* Whoever follows a list to its end gets every match once, of whatever bundle and whatever    *)
(* list, request and length of page; and a query of executions gives only nodes of the graph,  *)
(* and fails only for a match still to come that is none (run-results.ts:348, 355).            *)
THEOREM PagesPartitionMatchesAlways == Spec => []PagesPartitionMatches
<1>1. Init => PagesInv
  BY DEF Init, PagesInv, IsFollowed, StartQuestions, IdleQuestions, NoAnswer
<1> QED  BY <1>1, PagesStep, PagesArePartition, PTL DEF Spec

-----------------------------------------------------------------------------
(* Scores: the sum of the scores of the terms. *)
LEMMA SumUnfolds ==
    ASSUME NEW scores, scores \in Seq(Nat), scores # <<>>, 0 \notin ToSet(scores), NEW alone
    PROVE  \E f \in [0 .. Len(scores) -> Nat] :
               /\ f[0] = 0 /\ \A n \in 1 .. Len(scores) : f[n] = f[n - 1] + scores[n]
               /\ SumOfScores(scores, alone) = f[Len(scores)]
<1> DEFINE N == Len(scores)
           Defines(f) == f = [n \in 0 .. N |-> IF n = 0 THEN 0 ELSE f[n - 1] + scores[n]]
           step == [n \in 1 .. N |-> [x \in Nat |-> x + scores[n]]]
<1>1. N \in Nat /\ \A n \in 1 .. N : scores[n] \in Nat
  BY LenProperties
<1>2. step \in [1 .. N -> [Nat -> Nat]]
  BY <1>1
<1>3. \A n \in 1 .. N : \A x \in Nat : step[n][x] = x + scores[n]
  OBVIOUS
<1> HIDE DEF step
<1>4. PICK f \in [0 .. N -> Nat] : f[0] = 0 /\ \A n \in 1 .. N : f[n] = step[n][f[n - 1]]
  <2> HIDE DEF N
  <2> DEFINE T == Nat
             zero == 0
  <2>1. N \in Nat /\ zero \in T /\ step \in [1 .. N -> [T -> T]]
    BY <1>1, <1>2
  <2> HIDE DEF T, zero
  <2>2. \E f \in [0 .. N -> T] : f[0] = zero /\ \A n \in 1 .. N : f[n] = step[n][f[n - 1]]
    BY ONLY <2>1, Iteration
  <2> QED  BY <2>2 DEF T, zero
<1>5. \A n \in 0 .. N : n # 0 => n \in 1 .. N /\ n - 1 \in 0 .. N /\ f[n - 1] \in Nat
  <2> HIDE DEF N
  <2> QED  BY <1>1, <1>4
<1>6. Defines(f)
  <2>1. \A n \in 0 .. N : n # 0 => f[n] = f[n - 1] + scores[n]
    BY <1>3, <1>4, <1>5
  <2> QED  BY <1>4, <2>1
<1> DEFINE g == CHOOSE h : Defines(h)
<1>7. Defines(g)
  <2> HIDE DEF Defines
  <2> QED  BY <1>6
<1>8. SumOfScores(scores, alone) = g[N]
  BY DEF SumOfScores
<1> HIDE DEF g
<1>9. g[0] = 0 /\ \A n \in 1 .. N : g[n] = g[n - 1] + scores[n]
  <2>1. 0 \in 0 .. N /\ \A n \in 1 .. N : n \in 0 .. N /\ n # 0
    BY <1>1
  <2> QED  BY <1>7, <2>1
<1>10. g = [n \in 0 .. N |-> g[n]]
  BY <1>7
<1> HIDE DEF Defines, N
<1>11. \A n \in 0 .. N : g[n] \in Nat
  <2> DEFINE numbers == {n \in 0 .. N : g[n] \in Nat}
  <2>1. 0 \in numbers
    BY <1>1, <1>9
  <2>2. ASSUME NEW n \in 1 .. N, n - 1 \in numbers PROVE n \in numbers
    <3>1. g[n - 1] \in Nat /\ scores[n] \in Nat /\ n \in 0 .. N
      BY <1>1, <2>2
    <3>2. g[n] = g[n - 1] + scores[n]
      BY <1>9
    <3> QED  BY <3>1, <3>2
  <2> HIDE DEF numbers
  <2>3. 0 .. N \subseteq numbers
    BY <1>1, <2>1, <2>2, BoundedInduction
  <2> QED  BY <2>3 DEF numbers
<1>12. g \in [0 .. N -> Nat]
  BY <1>10, <1>11
<1> QED  BY <1>8, <1>9, <1>12 DEF N

(* A node scores as much as one of the terms at least, and exactly that of a term alone. *)
LEMMA SumIsScore ==
    ASSUME NEW scores \in Seq(Nat), scores # <<>>, NEW alone
    PROVE  LET sum == SumOfScores(scores, alone)
           IN  /\ sum \in Nat
               /\ sum > 0 <=> \A n \in 1 .. Len(scores) : scores[n] > 0
               /\ Len(scores) = 1 => sum = scores[1]
<1> DEFINE N == Len(scores)
           sum == SumOfScores(scores, alone)
<1>1. /\ N \in Nat /\ N # 0 /\ DOMAIN scores = 1 .. N
      /\ \A n \in 1 .. N : scores[n] \in Nat
  BY LenProperties, EmptySeq
<1>2. 0 \in ToSet(scores) <=> \E n \in 1 .. N : scores[n] = 0
  BY <1>1 DEF ToSet
<1>3. CASE 0 \in ToSet(scores)
  <2>1. sum = 0
    BY <1>3 DEF SumOfScores
  <2>2. N = 1 => scores[1] = 0
    BY <1>1, <1>2, <1>3
  <2> HIDE DEF N, sum
  <2>3. ~ \A n \in 1 .. N : scores[n] > 0
    BY <1>1, <1>2, <1>3
  <2> QED  BY <2>1, <2>2, <2>3 DEF N, sum
<1>4. CASE 0 \notin ToSet(scores)
  <2>1. PICK f \in [0 .. N -> Nat] :
            /\ f[0] = 0 /\ \A n \in 1 .. N : f[n] = f[n - 1] + scores[n]
            /\ sum = f[N]
    BY <1>4, SumUnfolds
  <2> HIDE DEF N, sum
  <2>2. f[N] = f[N - 1] + scores[N] /\ f[N - 1] \in Nat /\ f[N] \in Nat /\ scores[N] \in Nat /\ N \in 1 .. N
    BY <1>1, <2>1
  <2>3. \A n \in 1 .. N : scores[n] > 0
    BY <1>1, <1>2, <1>4
  <2>4. N = 1 => sum = scores[1]
    BY <2>1, <2>2
  <2>5. sum \in Nat /\ sum > 0
    BY <2>1, <2>2, <2>3
  <2> QED  BY <2>3, <2>4, <2>5 DEF N, sum
<1> QED  BY <1>3, <1>4

(* Distances are numbers. *)
LEMMA NextDistancesAreNumbers ==
    ASSUME NEW a, NEW b, Len(b) \in Nat, NEW i \in Nat, NEW row \in [0 .. Len(b) -> Nat]
    PROVE  NextDistances(row, i, a, b) \in [0 .. Len(b) -> Nat]
<1> DEFINE N == Len(b)
           Of(j, x) == Min({row[j] + 1, x + 1, row[j - 1] + (IF a[i] = b[j] THEN 0 ELSE 1)})
           Defines(f) == f = [j \in 0 .. N |-> IF j = 0 THEN i ELSE Of(j, f[j - 1])]
           step == [j \in 1 .. N |-> [x \in Nat |-> Of(j, x)]]
<1>1. ASSUME NEW j \in 1 .. N, NEW x \in Nat PROVE Of(j, x) \in Nat
  <2> DEFINE u == row[j] + 1
             v == x + 1
             w == row[j - 1] + (IF a[i] = b[j] THEN 0 ELSE 1)
  <2>1. u \in Nat /\ v \in Nat /\ w \in Nat
    <3>1. j \in 0 .. N /\ j - 1 \in 0 .. N
      OBVIOUS
    <3> QED  BY <3>1
  <2> HIDE DEF u, v, w
  <2>2. Min({u, v, w}) \in {u, v, w}
    <3>1. \E m \in {u, v, w} : \A y \in {u, v, w} : m <= y
      BY <2>1
    <3> HIDE <2>1
    <3> QED  BY <3>1 DEF Min
  <2>3. Min({u, v, w}) \in Nat
    BY <2>1, <2>2
  <2> QED  BY <2>3 DEF u, v, w
<1> HIDE DEF Of
<1>2. step \in [1 .. N -> [Nat -> Nat]]
  BY <1>1
<1>3. \A j \in 1 .. N : \A x \in Nat : step[j][x] = Of(j, x)
  OBVIOUS
<1> HIDE DEF step
<1>4. PICK f \in [0 .. N -> Nat] : f[0] = i /\ \A j \in 1 .. N : f[j] = step[j][f[j - 1]]
  <2> HIDE DEF N
  <2> DEFINE T == Nat
             first == i
  <2>1. N \in Nat /\ first \in T /\ step \in [1 .. N -> [T -> T]]
    BY <1>2 DEF N
  <2> HIDE DEF T, first
  <2>2. \E f \in [0 .. N -> T] : f[0] = first /\ \A j \in 1 .. N : f[j] = step[j][f[j - 1]]
    BY ONLY <2>1, Iteration
  <2> QED  BY <2>2 DEF T, first
<1>5. Defines(f)
  <2>1. \A j \in 0 .. N : j # 0 => j \in 1 .. N /\ f[j - 1] \in Nat
    OBVIOUS
  <2>2. \A j \in 0 .. N : j # 0 => f[j] = Of(j, f[j - 1])
    BY <1>3, <1>4, <2>1
  <2> QED  BY <1>4, <2>2
<1> DEFINE g == CHOOSE h : Defines(h)
<1>6. Defines(g)
  <2> HIDE DEF Defines
  <2> QED  BY <1>5
<1>7. NextDistances(row, i, a, b) = g
  BY DEF NextDistances, Of
<1> HIDE DEF g
<1>8. g[0] = i /\ \A j \in 1 .. N : g[j] = Of(j, g[j - 1])
  <2>1. 0 \in 0 .. N /\ \A j \in 1 .. N : j \in 0 .. N /\ j # 0
    OBVIOUS
  <2> QED  BY <1>6, <2>1
<1>9. g = [j \in 0 .. N |-> g[j]]
  BY <1>6
<1>10. N \in Nat
  OBVIOUS
<1> HIDE DEF Defines, N
<1>11. \A j \in 0 .. N : g[j] \in Nat
  <2> DEFINE numbers == {j \in 0 .. N : g[j] \in Nat}
  <2>1. 0 \in numbers
    BY <1>8, <1>10
  <2>2. ASSUME NEW j \in 1 .. N, j - 1 \in numbers PROVE j \in numbers
    <3>1. g[j - 1] \in Nat /\ j \in 0 .. N
      BY <1>10, <2>2
    <3>2. g[j] = Of(j, g[j - 1])
      BY <1>8
    <3> QED  BY <1>1, <3>1, <3>2
  <2> HIDE DEF numbers
  <2>3. 0 .. N \subseteq numbers
    BY <1>10, <2>1, <2>2, BoundedInduction
  <2> QED  BY <2>3 DEF numbers
<1> QED  BY <1>7, <1>9, <1>11 DEF N

LEMMA DistanceIsNumber ==
    ASSUME NEW a, NEW b, Len(a) \in Nat, Len(b) \in Nat
    PROVE  LevenshteinDistance(a, b) \in Nat
<1> DEFINE N == Len(a)
           M == Len(b)
           S == [0 .. M -> Nat]
           first == [j \in 0 .. M |-> j]
           Defines(f) == f = [i \in 0 .. N |-> IF i = 0 THEN first ELSE NextDistances(f[i - 1], i, a, b)]
           step == [i \in 1 .. N |-> [row \in S |-> NextDistances(row, i, a, b)]]
<1>1. N \in Nat /\ M \in Nat /\ first \in S
  OBVIOUS
<1>2. \A i \in 1 .. N : \A row \in S : NextDistances(row, i, a, b) \in S
  BY NextDistancesAreNumbers
<1> HIDE DEF first, S
<1>3. step \in [1 .. N -> [S -> S]] /\ \A i \in 1 .. N : \A row \in S : step[i][row] = NextDistances(row, i, a, b)
  BY <1>2
<1> HIDE DEF step
<1>4. PICK f \in [0 .. N -> S] : f[0] = first /\ \A i \in 1 .. N : f[i] = step[i][f[i - 1]]
  <2> HIDE DEF N
  <2>1. N \in Nat /\ first \in S /\ step \in [1 .. N -> [S -> S]]
    BY <1>1, <1>3
  <2> QED  BY ONLY <2>1, Iteration
<1>5. Defines(f)
  <2>1. \A i \in 0 .. N : i # 0 => i \in 1 .. N /\ f[i - 1] \in S
    OBVIOUS
  <2>2. \A i \in 0 .. N : i # 0 => f[i] = NextDistances(f[i - 1], i, a, b)
    BY <1>3, <1>4, <2>1
  <2> QED  BY <1>4, <2>2
<1> DEFINE g == CHOOSE h : Defines(h)
<1>6. Defines(g)
  <2> HIDE DEF Defines
  <2> QED  BY <1>5
<1>7. LevenshteinDistance(a, b) = g[N][M]
  BY DEF LevenshteinDistance, first
<1> HIDE DEF g
<1>8. g[0] = first /\ \A i \in 1 .. N : g[i] = NextDistances(g[i - 1], i, a, b)
  <2>1. 0 \in 0 .. N /\ \A i \in 1 .. N : i \in 0 .. N /\ i # 0
    OBVIOUS
  <2> QED  BY <1>6, <2>1
<1> HIDE DEF Defines, N, M
<1>9. \A i \in 0 .. N : g[i] \in S
  <2> DEFINE rows == {i \in 0 .. N : g[i] \in S}
  <2>1. 0 \in rows
    BY <1>1, <1>8
  <2>2. ASSUME NEW i \in 1 .. N, i - 1 \in rows PROVE i \in rows
    BY <1>1, <1>2, <1>8, <2>2
  <2> HIDE DEF rows
  <2>3. 0 .. N \subseteq rows
    BY <1>1, <2>1, <2>2, BoundedInduction
  <2> QED  BY <2>3 DEF rows
<1>10. g[N] \in S /\ M \in 0 .. M
  BY <1>1, <1>9
<1> QED  BY <1>7, <1>10 DEF S

(* The score of a term: the best of its reasons, up to 100. *)
LEMMA BestIsReason ==
    ASSUME NEW reasons, \A r \in reasons : r[2] \in 1 .. 100
    PROVE  LET best == BestOf(reasons)
           IN  /\ best \in 0 .. 100
               /\ \A r \in reasons : best >= r[2]
               /\ best > 0 => \E r \in reasons : r[2] = best
<1> DEFINE scores == {r[2] : r \in reasons} \cup {0}
<1>1. 100 \in Nat /\ scores \in SUBSET (0 .. 100) /\ scores # {}
  OBVIOUS
<1>2. \A r \in reasons : r[2] \in scores
  OBVIOUS
<1>3. \A x \in scores : x > 0 => \E r \in reasons : r[2] = x
  OBVIOUS
<1>4. BestOf(reasons) = Max(scores)
  BY DEF BestOf
<1> HIDE DEF scores
<1>5. Max(scores) \in scores /\ \A x \in scores : Max(scores) >= x
  BY <1>1, LargestIn
<1> QED  BY <1>1, <1>2, <1>3, <1>4, <1>5

LEMMA ReasonsAreScores ==
    ASSUME NEW attrs, NEW term
    PROVE  /\ \A r \in ReasonsOf(attrs, term) :
                  /\ r[2] \in 1 .. 100
                  /\ r[2] = 100 => attrs.text.name = term \/ IdText(attrs) = term
           /\ attrs.text.name = term => \E r \in ReasonsOf(attrs, term) : r[2] = 100
           /\ LegacyTermScore(attrs, term) # 0 => ReasonsOf(attrs, term) # {}
<1> DEFINE name == attrs.text.name
           id == IdText(attrs)
           package == PackageText(attrs.package)
           tagged == \E t \in attrs.text.tags : Includes(t, term)
           nameIn == Includes(name, term)
           idIn == Includes(id, term)
           pathIn == Includes(attrs.text.path, term)
           packageIn == Includes(package, term)
           described == Includes(attrs.text.description, term)
           R == ReasonsOf(attrs, term)
           byName == IF name = term THEN {<<"exact_name_match", 100>>} ELSE {}
           byId == IF id = term THEN {<<"exact_unique_id_match", 100>>} ELSE {}
           inName == IF name # term /\ nameIn THEN {<<"substring_name_match", 60>>} ELSE {}
           inId == IF id # term /\ idIn THEN {<<"substring_unique_id_match", 60>>} ELSE {}
           inPath == IF pathIn THEN {<<"path_match", 30>>} ELSE {}
           inDescription == IF described THEN {<<"description_match", 35>>} ELSE {}
           byTag == IF tagged THEN {<<"tag_match", 40>>} ELSE {}
           byPackage == IF package = term THEN {<<"package_match", 50>>}
                        ELSE IF packageIn THEN {<<"package_match", 25>>} ELSE {}
<1>1. R = byName \cup byId \cup inName \cup inId \cup inPath \cup inDescription \cup byTag \cup byPackage
  BY DEF ReasonsOf
<1>2. LegacyTermScore(attrs, term) # 0
      => name = term \/ id = term \/ nameIn \/ idIn \/ packageIn \/ pathIn \/ tagged
  BY DEF LegacyTermScore
<1> HIDE DEF R, package, tagged, nameIn, idIn, pathIn, packageIn, described
<1>3. /\ \A r \in byName : r[2] = 100 /\ name = term
      /\ \A r \in byId : r[2] = 100 /\ id = term
  OBVIOUS
<1>4. /\ \A r \in inName : r[2] = 60
      /\ \A r \in inId : r[2] = 60
      /\ \A r \in inPath : r[2] = 30
      /\ \A r \in inDescription : r[2] = 35
      /\ \A r \in byTag : r[2] = 40
  OBVIOUS
<1>5. \A r \in byPackage : r[2] \in {25, 50}
  OBVIOUS
<1>6. /\ name = term => byName # {}
      /\ id = term => byId # {}
      /\ nameIn => byName # {} \/ inName # {}
      /\ idIn => byId # {} \/ inId # {}
      /\ pathIn => inPath # {}
      /\ tagged => byTag # {}
      /\ packageIn => byPackage # {}
  OBVIOUS
<1> HIDE DEF byName, byId, inName, inId, inPath, inDescription, byTag, byPackage
<1>7. \A r \in R : r[2] \in 1 .. 100 /\ (r[2] = 100 => name = term \/ id = term)
  BY <1>1, <1>3, <1>4, <1>5
<1>8. name = term => \E r \in R : r[2] = 100
  BY <1>1, <1>3, <1>6
<1>9. LegacyTermScore(attrs, term) # 0 => R # {}
  BY <1>1, <1>2, <1>6
<1> QED  BY <1>7, <1>8, <1>9 DEF R

LEMMA AliasIsScore ==
    ASSUME NEW graph, NEW attrs, NEW term, NEW best \in 0 .. 100,
           Len(term) \in Nat, Len(attrs.text.name) \in Nat
    PROVE  \A r \in AliasAndFuzzy(graph, attrs, term, best) : r[2] \in 1 .. 90
<1> DEFINE alias == ResolveRelation(graph, <<term>>) = attrs.id
           reached == IF alias THEN Max({best, 90}) ELSE best
           distance == LevenshteinDistance(attrs.text.name, term)
           fuzzy == /\ Len(term) >= 4 /\ Len(attrs.text.name) \in 1 .. 64 /\ reached < 60
                    /\ distance <= 2 /\ distance < Len(attrs.text.name)
           byAlias == IF alias THEN {<<"alias_match", 90>>} ELSE {}
           byFuzzy == IF fuzzy THEN {<<"fuzzy_name_match", 45 - distance * 5>>} ELSE {}
<1>1. AliasAndFuzzy(graph, attrs, term, best) = byAlias \cup byFuzzy
  BY DEF AliasAndFuzzy
<1>2. distance \in Nat
  BY DistanceIsNumber
<1> HIDE DEF alias, reached, distance
<1>3. \A r \in byAlias : r[2] = 90
  OBVIOUS
<1>4. \A r \in byFuzzy : r[2] = 45 - distance * 5 /\ distance <= 2
  OBVIOUS
<1> HIDE DEF byAlias, byFuzzy
<1>5. \A r \in byFuzzy : r[2] \in 1 .. 90
  <2> TAKE r \in byFuzzy
  <2>1. distance \in {0, 1, 2} /\ r[2] = 45 - distance * 5
    BY <1>2, <1>4
  <2> QED  BY <2>1
<1> QED  BY <1>1, <1>3, <1>5

LEMMA ScoresAreNumbers ==
    ASSUME NEW best, best \in 0 .. 100
    PROVE  best \in Nat /\ \A x \in 1 .. 100 : best >= x => best > 0
OBVIOUS

LEMMA TermIsScored ==
    ASSUME NEW graph, NEW attrs, NEW term, Len(term) \in Nat, Len(attrs.text.name) \in Nat
    PROVE  LET score == ScoreTermAgainstNode(graph, attrs, term)
           IN  /\ score \in 0 .. 100
               /\ score = 100 => attrs.text.name = term \/ IdText(attrs) = term
               /\ term # <<>> /\ attrs.text.name = term => score = 100
               /\ term # <<>> /\ LegacyTermScore(attrs, term) # 0 => score > 0
<1> DEFINE score == ScoreTermAgainstNode(graph, attrs, term)
           found == ReasonsOf(attrs, term)
           more == AliasAndFuzzy(graph, attrs, term, BestOf(found))
           all == found \cup more
<1>1. CASE term = <<>>
  <2>1. score = 0
    BY <1>1 DEF ScoreTermAgainstNode
  <2> QED  BY <1>1, <2>1
<1>2. CASE term # <<>>
  <2>1. score = BestOf(all)
    BY <1>2 DEF ScoreTermAgainstNode, BestScore
  <2>2. /\ \A r \in found : /\ r[2] \in 1 .. 100
                            /\ r[2] = 100 => attrs.text.name = term \/ IdText(attrs) = term
        /\ attrs.text.name = term => \E r \in found : r[2] = 100
        /\ LegacyTermScore(attrs, term) # 0 => found # {}
    BY ReasonsAreScores
  <2> HIDE DEF found
  <2>3. BestOf(found) \in 0 .. 100
    BY <2>2, BestIsReason
  <2>4. \A r \in more : r[2] \in 1 .. 90
    BY <2>3, AliasIsScore
  <2> HIDE DEF more
  <2>5. \A r \in all : r[2] \in 1 .. 100
    BY <2>2, <2>4
  <2>11. found \subseteq all /\ \A r \in all : r \in found \/ r \in more
    OBVIOUS
  <2> HIDE DEF all
  <2> DEFINE best == BestOf(all)
  <2>6. best \in 0 .. 100 /\ (\A r \in all : best >= r[2]) /\ (best > 0 => \E r \in all : r[2] = best)
    BY <2>5, BestIsReason
  <2> HIDE DEF score, best
  <2>7. score = best
    BY <2>1 DEF best
  <2>8. ASSUME best = 100 PROVE attrs.text.name = term \/ IdText(attrs) = term
    <3>1. PICK r \in all : r[2] = 100
      BY <2>6, <2>8
    <3>2. r \in found
      <4>1. r \in more => r[2] \in 1 .. 90
        BY <2>4
      <4>2. 100 \notin 1 .. 90
        OBVIOUS
      <4> QED  BY <2>11, <3>1, <4>1, <4>2
    <3> QED  BY <2>2, <3>1, <3>2
  <2>9. ASSUME attrs.text.name = term PROVE best = 100
    <3>1. PICK r \in found : r[2] = 100
      BY <2>2, <2>9
    <3>2. best >= r[2]
      BY <2>6, <2>11
    <3> QED  BY <2>6, <3>1, <3>2
  <2>10. ASSUME LegacyTermScore(attrs, term) # 0 PROVE best > 0
    <3>1. PICK r \in found : r[2] \in 1 .. 100
      BY <2>2, <2>10
    <3>2. best >= r[2]
      BY <2>6, <2>11
    <3>3. \A x \in 1 .. 100 : best >= x => best > 0
      BY <2>6, ScoresAreNumbers
    <3> QED  BY <3>1, <3>2, <3>3
  <2> QED  BY <2>6, <2>7, <2>8, <2>9, <2>10 DEF score
<1> QED  BY <1>1, <1>2

(* What is ranked: the rows that score. *)
LEMMA RankedHolds ==
    ASSUME NEW S, NEW rows \in Seq(S)
    PROVE  /\ Ranked(rows) \in Seq(S)
           /\ ToSet(Ranked(rows)) = {row \in ToSet(rows) : row.raw > 0}
<1> DEFINE scoring == {row \in ToSet(rows) : row.raw > 0}
           found == Only(rows, scoring)
<1>1. scoring \subseteq ToSet(rows)
  OBVIOUS
<1>2. Ranked(rows) = Sorted(found, RankedBefore(found))
  BY DEF Ranked
<1> HIDE DEF scoring
<1>3. found \in Seq(S) /\ ToSet(found) = ToSet(rows) \cap scoring
  BY OnlyKeeps
<1> HIDE DEF found
<1>4. LET q == Sorted(found, RankedBefore(found)) IN q \in Seq(S) /\ ToSet(q) = ToSet(found)
  BY <1>3, SortedKeeps
<1> QED  BY <1>1, <1>2, <1>3, <1>4 DEF scoring

LEMMA QueryTerms ==
    ASSUME NEW tokens, IsQuery(tokens)
    PROVE  ParseQueryTokens(tokens).terms \in Seq(Seq(Nat))
<1> DEFINE kept == {t \in ToSet(tokens) : t[1] \notin FilterKeys}
           words == Only(tokens, kept)
           terms == ParseQueryTokens(tokens).terms
           T == Seq(Nat)
<1>1. \A t \in kept : t[2] \in T
  BY DEF IsQuery
<1>2. terms = [k \in DOMAIN words |-> words[k][2]]
  BY DEF ParseQueryTokens
<1> HIDE DEF T, terms, kept
<1>3. words \in Seq(ToSet(tokens)) /\ ToSet(words) = ToSet(tokens) \cap kept
  BY OnlyKeeps DEF IsQuery
<1> HIDE DEF words
<1>4. PICK n \in Nat : n = Len(words) /\ DOMAIN words = 1 .. n
  BY <1>3, LenProperties
<1>5. \A k \in 1 .. n : words[k] \in kept
  BY <1>3, <1>4 DEF ToSet
<1>6. terms \in [1 .. n -> T]
  BY <1>1, <1>2, <1>4, <1>5
<1>7. \A f \in [1 .. n -> T] : f \in Seq(T)
  OBVIOUS
<1> QED  BY <1>6, <1>7 DEF T, terms

HasResources(graph) ==
    /\ graph.nodes \in Seq(ToSet(graph.nodes)) /\ \A n \in ToSet(graph.nodes) : IsResource(n)
    /\ \A a, b \in ToSet(graph.nodes) : a.text.name # IdText(b)

LEMMA GraphIsOfEntries ==
    ASSUME bundle \in Bundles
    PROVE  HasResources(Graph)
<1>1. IsManifest(bundle.manifest)
  BY BundlesAreRuns
<1>2. LET nodes == Graph.nodes IN nodes \in Seq(ToSet(nodes))
  BY <1>1, GraphNodes DEF Graph
<1>3. Graph.nodes = AllEntries(bundle.manifest)
  BY GraphHasEntries DEF Graph
<1>4. /\ \A n \in ToSet(Graph.nodes) : IsResource(n)
      /\ \A a, b \in ToSet(Graph.nodes) : a.text.name # IdText(b)
  BY <1>1, <1>3 DEF IsManifest, ToSet
<1> QED  BY <1>2, <1>4 DEF HasResources

(* The nodes that pass the filters. *)
LEMMA PassingHolds ==
    ASSUME NEW graph, HasResources(graph), NEW filter
    PROVE  LET passing == Passing(graph, filter)
           IN  /\ Len(passing) \in Nat /\ DOMAIN passing = 1 .. Len(passing)
               /\ \A i \in 1 .. Len(passing) : passing[i] \in ToSet(graph.nodes) /\ IsResource(passing[i])
<1> DEFINE S == ToSet(graph.nodes)
           passing == Passing(graph, filter)
<1>1. graph.nodes \in Seq(S)
  BY DEF HasResources
<1> HIDE DEF S
<1>2. passing \in Seq(S)
  BY <1>1, OnlyKeeps DEF Passing
<1> HIDE DEF passing
<1>3. Len(passing) \in Nat /\ DOMAIN passing = 1 .. Len(passing) /\ \A i \in 1 .. Len(passing) : passing[i] \in S
  BY <1>2, LenProperties
<1> QED  BY <1>3 DEF HasResources, passing, S

(* A score of a query is a number; one term's is the score of that term. *)
LEMMA RawIsScore ==
    ASSUME NEW graph, NEW attrs, IsResource(attrs), NEW terms \in Seq(Seq(Nat))
    PROVE  /\ RawScore(graph, attrs, terms) \in Nat
           /\ Len(terms) = 1 => RawScore(graph, attrs, terms) = ScoreTermAgainstNode(graph, attrs, terms[1])
           /\ <<>> \notin ToSet(terms) /\ LegacySearchScore(attrs, terms) > 0
              => RawScore(graph, attrs, terms) > 0
<1> DEFINE N == Len(terms)
           scores == [k \in DOMAIN terms |-> ScoreTermAgainstNode(graph, attrs, terms[k])]
           legacy == [k \in DOMAIN terms |-> LegacyTermScore(attrs, terms[k])]
           raw == RawScore(graph, attrs, terms)
           older == LegacySearchScore(attrs, terms)
<1>1. raw = SumOfScores(scores, 5) /\ older = SumOfScores(legacy, 1)
  BY DEF RawScore, LegacySearchScore
<1>2. N \in Nat /\ DOMAIN terms = 1 .. N /\ \A k \in 1 .. N : terms[k] \in Seq(Nat) /\ Len(terms[k]) \in Nat
  <2>1. N \in Nat /\ DOMAIN terms = 1 .. N /\ \A k \in 1 .. N : terms[k] \in Seq(Nat)
    BY LenProperties
  <2> QED  BY <2>1, LenProperties
<1>3. Len(attrs.text.name) \in Nat
  BY LenProperties DEF IsResource
<1>4. \A k \in 1 .. N : ScoreTermAgainstNode(graph, attrs, terms[k]) \in 0 .. 100
  BY <1>2, <1>3, TermIsScored
<1>5. \A k \in 1 .. N : LegacyTermScore(attrs, terms[k]) \in Nat
  BY DEF LegacyTermScore
<1>6. CASE terms = <<>>
  <2>1. N = 0 /\ DOMAIN terms = {}
    BY <1>2, <1>6
  <2>2. scores = <<>> /\ legacy = <<>>
    BY <2>1
  <2>3. raw = 5
    <3>1. \A s : s = <<>> => SumOfScores(s, 5) = 5
      BY DEF SumOfScores, ToSet
    <3> HIDE DEF scores, raw
    <3> QED  BY <1>1, <2>2, <3>1
  <2> QED  BY <2>1, <2>3
<1>7. CASE terms # <<>>
  <2>1. N # 0
    BY <1>7, EmptySeq
  <2>2. scores \in Seq(Nat) /\ legacy \in Seq(Nat) /\ Len(scores) = N /\ Len(legacy) = N
    <3>1. scores = [k \in 1 .. N |-> ScoreTermAgainstNode(graph, attrs, terms[k])]
          /\ legacy = [k \in 1 .. N |-> LegacyTermScore(attrs, terms[k])]
      BY <1>2
    <3>2. PICK n \in Nat : n = N
      BY <1>2
    <3> HIDE DEF scores, legacy, N
    <3>3. scores \in [1 .. n -> Nat]
      <4>1. \A k \in 1 .. n : ScoreTermAgainstNode(graph, attrs, terms[k]) \in Nat
        <5> TAKE k \in 1 .. n
        <5> DEFINE score == ScoreTermAgainstNode(graph, attrs, terms[k])
        <5>1. score \in 0 .. 100
          BY <1>4, <3>2
        <5> HIDE DEF score
        <5>2. score \in Nat
          BY <5>1, ScoresAreNumbers
        <5> QED  BY <5>2 DEF score
      <4> QED  BY <3>1, <3>2, <4>1
    <3>4. legacy \in [1 .. n -> Nat]
      BY <1>5, <3>1, <3>2
    <3> QED  BY <3>2, <3>3, <3>4
  <2>3. \A k \in 1 .. N : /\ scores[k] = ScoreTermAgainstNode(graph, attrs, terms[k])
                          /\ legacy[k] = LegacyTermScore(attrs, terms[k])
    BY <1>2
  <2> HIDE DEF scores, legacy, raw, older, N
  <2>4. scores # <<>> /\ legacy # <<>>
    BY <2>1, <2>2
  <2>5. raw \in Nat /\ (raw > 0 <=> \A k \in 1 .. N : scores[k] > 0) /\ (N = 1 => raw = scores[1])
    BY <1>1, <2>2, <2>4, SumIsScore
  <2>6. older > 0 <=> \A k \in 1 .. N : legacy[k] > 0
    BY <1>1, <2>2, <2>4, SumIsScore
  <2>7. ASSUME <<>> \notin ToSet(terms), older > 0 PROVE raw > 0
    <3>1. ASSUME NEW k \in 1 .. N PROVE scores[k] > 0
      <4>1. terms[k] # <<>>
        BY <1>2, <2>7 DEF ToSet
      <4>2. LegacyTermScore(attrs, terms[k]) # 0
        <5>1. legacy[k] > 0
          BY <2>6, <2>7
        <5> QED  BY <1>5, <2>3, <5>1
      <4> QED  BY <1>2, <1>3, <2>3, <4>1, <4>2, TermIsScored
    <3> QED  BY <2>5, <3>1
  <2>8. N = 1 => raw = ScoreTermAgainstNode(graph, attrs, terms[1])
    BY <2>3, <2>5
  <2> QED  BY <2>5, <2>7, <2>8 DEF N, raw, older
<1> QED  BY <1>6, <1>7

(* The rows that discovery ranks: those of the nodes that pass and score. *)
DiscoveryRow(graph, attrs, terms) ==
    [id |-> attrs.id, name |-> attrs.text.name, type |-> attrs.type, raw |-> RawScore(graph, attrs, terms)]
ScoredRows(graph, terms, filter) ==
    LET passing == Passing(graph, filter)
    IN {DiscoveryRow(graph, passing[i], terms) : i \in 1 .. Len(passing)}

LEMMA RankedRowsHold ==
    ASSUME NEW graph, HasResources(graph), NEW terms, NEW filter
    PROVE  LET rows == RankedRows(graph, terms, filter)
           IN  /\ rows \in Seq(ScoredRows(graph, terms, filter))
               /\ ToSet(rows) = {row \in ScoredRows(graph, terms, filter) : row.raw > 0}
               /\ \E list \in Seq(ScoredRows(graph, terms, filter)) : rows = Ranked(list)
<1> DEFINE passing == Passing(graph, filter)
           S == ScoredRows(graph, terms, filter)
           list == [i \in DOMAIN passing |->
                       [id |-> passing[i].id, name |-> passing[i].text.name, type |-> passing[i].type,
                        raw |-> RawScore(graph, passing[i], terms)]]
<1>1. RankedRows(graph, terms, filter) = Ranked(list)
  BY DEF RankedRows
<1>2. Len(passing) \in Nat /\ DOMAIN passing = 1 .. Len(passing)
  BY PassingHolds
<1>3. list = [i \in 1 .. Len(passing) |-> DiscoveryRow(graph, passing[i], terms)]
  BY <1>2 DEF DiscoveryRow
<1>4. S = {DiscoveryRow(graph, passing[i], terms) : i \in 1 .. Len(passing)}
  BY DEF ScoredRows
<1>5. PICK n \in Nat : n = Len(passing)
  BY <1>2
<1> HIDE DEF list, passing, S
<1>6. list \in [1 .. n -> S] /\ \A i \in 1 .. n : list[i] = DiscoveryRow(graph, passing[i], terms)
  BY <1>3, <1>4, <1>5
<1>7. list \in Seq(S) /\ DOMAIN list = 1 .. n
  BY <1>6
<1>8. ToSet(list) = S
  BY <1>4, <1>5, <1>6, <1>7 DEF ToSet
<1>9. Ranked(list) \in Seq(S) /\ ToSet(Ranked(list)) = {row \in ToSet(list) : row.raw > 0}
  BY <1>7, RankedHolds
<1> QED  BY <1>1, <1>7, <1>8, <1>9 DEF S

(* What is discovered: the first of the ranked rows. *)
AreFirst(found, rows, limit) ==
    /\ Len(found) \in Nat /\ DOMAIN found = 1 .. Len(found)
    /\ Len(found) = IF Len(rows) <= limit THEN Len(rows) ELSE limit
    /\ \A i \in 1 .. Len(found) :
           /\ found[i].id = rows[i].id /\ found[i].name = rows[i].name
           /\ found[i].type = rows[i].type
           /\ found[i].score = ScoreShare(rows[i].raw, rows[1].raw)
LEMMA DiscoveredAreFirst ==
    ASSUME NEW graph, NEW S, NEW rows \in Seq(S), NEW limit \in 1 .. ListMaxLimit
    PROVE  AreFirst(Discovered(graph, rows, limit), rows, limit)
<1> DEFINE m == Min({Len(rows), Min({Max({1, limit}), ListMaxLimit})})
           Of(i) == [id |-> rows[i].id, name |-> rows[i].name, type |-> rows[i].type,
                     score |-> ScoreShare(rows[i].raw, rows[1].raw),
                     confidence |-> Confidence(rows[i].raw, rows[1].raw),
                     disambiguation |-> Disambiguation(rows, rows[i]),
                     related |-> Related(graph, rows[i].id)]
           found == Discovered(graph, rows, limit)
<1>1. found = [i \in 1 .. m |-> Of(i)]
  BY DEF Discovered
<1>2. PICK n \in Nat : n = Len(rows)
  BY LenProperties
<1>3. m = IF n <= limit THEN n ELSE limit
  <2>1. ListMaxLimit = 200 /\ limit \in Int /\ limit >= 1 /\ limit <= 200
    BY DEF ListMaxLimit
  <2>2. Max({1, limit}) = limit
    BY <2>1, MaxOfTwo
  <2>3. Min({limit, ListMaxLimit}) = limit
    BY <2>1, MinOfTwo
  <2>4. m = Min({n, limit})
    BY <1>2, <2>2, <2>3
  <2> HIDE DEF m
  <2> QED  BY <2>1, <2>4, MinOfTwo
<1>4. m \in Nat
  BY <1>3 DEF ListMaxLimit
<1>5. \A i \in 1 .. m : Of(i).id = rows[i].id /\ Of(i).name = rows[i].name /\ Of(i).type = rows[i].type
                        /\ Of(i).score = ScoreShare(rows[i].raw, rows[1].raw)
  OBVIOUS
<1> HIDE DEF m, found, Of
<1>6. found \in [1 .. m -> {Of(i) : i \in 1 .. m}]
  BY <1>1
<1>7. Len(found) = m /\ DOMAIN found = 1 .. m
  BY <1>4, <1>6
<1> QED  BY <1>1, <1>2, <1>3, <1>4, <1>5, <1>7 DEF found, AreFirst

(* The ids that the older search finds are ids of nodes that pass and score. *)
LEMMA SearchFinds ==
    ASSUME NEW graph, HasResources(graph), NEW tokens
    PROVE  LET query == ParseQueryTokens(tokens)
               passing == Passing(graph, query.filter)
           IN  \A id \in FoundIds(SearchResources(graph, tokens, NoFilter, ListMaxLimit, 0).rows) :
                   \E i \in 1 .. Len(passing) :
                       passing[i].id = id /\ LegacySearchScore(passing[i], query.terms) > 0
<1> DEFINE query == ParseQueryTokens(tokens)
           passing == Passing(graph, query.filter)
           Of(i) == [id |-> passing[i].id, raw |-> LegacySearchScore(passing[i], query.terms)]
           list == [i \in DOMAIN passing |-> Of(i)]
           S == {Of(i) : i \in 1 .. Len(passing)}
           ranked == Ranked(list)
           page == SearchResources(graph, tokens, NoFilter, ListMaxLimit, 0)
<1>1. EffectiveFilter(NoFilter, query.filter) = query.filter
  BY DEF EffectiveFilter, NoFilter, ParseQueryTokens
<1>2. Min({Max({1, ListMaxLimit}), ListMaxLimit}) = 200 /\ ListMaxLimit # Unset
  <2>1. ListMaxLimit = 200 /\ 200 \in Int /\ 1 \in Int
    BY DEF ListMaxLimit
  <2>2. Max({1, 200}) = 200 /\ Min({200, 200}) = 200
    BY <2>1, MinOfTwo, MaxOfTwo
  <2> QED  BY <2>1, <2>2 DEF Unset
<1>3. page = Paged(ranked, 0, 200)
  BY <1>1, <1>2 DEF SearchResources
<1>4. Len(passing) \in Nat /\ DOMAIN passing = 1 .. Len(passing)
  BY PassingHolds
<1>5. PICK n \in Nat : n = Len(passing)
  BY <1>4
<1>6. list = [i \in 1 .. n |-> Of(i)] /\ S = {Of(i) : i \in 1 .. n}
  BY <1>4, <1>5
<1>7. \A i \in 1 .. n : Of(i).id = passing[i].id /\ Of(i).raw = LegacySearchScore(passing[i], query.terms)
  OBVIOUS
<1> HIDE DEF query, passing, Of, S, list, page
<1>8. list \in [1 .. n -> S]
  BY <1>6
<1>9. list \in Seq(S) /\ DOMAIN list = 1 .. n
  BY <1>8
<1>10. ToSet(list) \subseteq S
  BY <1>8, <1>9 DEF ToSet
<1>11. ranked \in Seq(S) /\ \A row \in ToSet(ranked) : row.raw > 0
  <2>1. ranked \in Seq(S) /\ ToSet(ranked) = {row \in ToSet(list) : row.raw > 0}
    BY <1>9, RankedHolds
  <2> QED  BY <2>1
<1> HIDE DEF ranked
<1>12. page.rows \in Seq(ToSet(ranked))
  <2>1. 0 \in 0 .. Len(ranked) /\ 200 \in Nat \ {0}
    BY <1>11, LenProperties
  <2>2. IsPage(Paged(ranked, 0, 200), ranked, 0)
    BY <1>11, <2>1, PagedIsPage
  <2> QED  BY <1>3, <2>2 DEF IsPage
<1>13. \A id \in FoundIds(page.rows) : \E row \in ToSet(ranked) : row.id = id
  BY <1>12, LenProperties DEF FoundIds
<1>14. ToSet(ranked) \subseteq S
  BY <1>11, LenProperties DEF ToSet
<1>15. ASSUME NEW id \in FoundIds(page.rows)
       PROVE  \E i \in 1 .. n : passing[i].id = id /\ LegacySearchScore(passing[i], query.terms) > 0
  <2>1. PICK row \in S : row.id = id /\ row.raw > 0
    BY <1>11, <1>13, <1>14
  <2>2. PICK i \in 1 .. n : row = Of(i)
    BY <1>6, <2>1
  <2> QED  BY <1>7, <2>1, <2>2
<1> QED  BY <1>5, <1>15 DEF query, passing, page

LEMMA SearchedIsDiscovered ==
    ASSUME NEW graph, HasResources(graph), NEW tokens, IsQuery(tokens),
           LET query == ParseQueryTokens(tokens)
           IN  <<>> \notin ToSet(query.terms) /\ (query.terms # <<>> \/ query.filter # NoFilter),
           Len(DiscoverResources(graph, tokens, NoFilter, ListMaxLimit)) < ListMaxLimit
    PROVE  FoundIds(SearchResources(graph, tokens, NoFilter, ListMaxLimit, 0).rows)
               \subseteq FoundIds(DiscoverResources(graph, tokens, NoFilter, ListMaxLimit))
<1> DEFINE query == ParseQueryTokens(tokens)
           passing == Passing(graph, query.filter)
           rows == RankedRows(graph, query.terms, query.filter)
           S == ScoredRows(graph, query.terms, query.filter)
           found == DiscoverResources(graph, tokens, NoFilter, ListMaxLimit)
<1>1. EffectiveFilter(NoFilter, query.filter) = query.filter
  BY DEF EffectiveFilter, NoFilter, ParseQueryTokens
<1>2. found = Discovered(graph, rows, ListMaxLimit)
  BY <1>1 DEF DiscoverResources
<1>3. query.terms \in Seq(Seq(Nat)) /\ <<>> \notin ToSet(query.terms)
  BY QueryTerms
<1>4. rows \in Seq(S) /\ ToSet(rows) = {row \in S : row.raw > 0}
  BY RankedRowsHold
<1>5. S = {DiscoveryRow(graph, passing[i], query.terms) : i \in 1 .. Len(passing)}
  BY DEF ScoredRows
<1>6. \A i \in 1 .. Len(passing) : IsResource(passing[i])
  BY PassingHolds
<1>7. Len(found) < ListMaxLimit
  OBVIOUS
<1>8. \A id \in FoundIds(SearchResources(graph, tokens, NoFilter, ListMaxLimit, 0).rows) :
          \E i \in 1 .. Len(passing) : passing[i].id = id /\ LegacySearchScore(passing[i], query.terms) > 0
  BY SearchFinds
<1> HIDE DEF query, passing, rows, S, found
<1>9. DOMAIN found = 1 .. Len(rows) /\ \A i \in 1 .. Len(rows) : found[i].id = rows[i].id
  <2>1. ListMaxLimit \in 1 .. ListMaxLimit /\ ListMaxLimit \in Nat
    BY DEF ListMaxLimit
  <2> PICK limit \in 1 .. ListMaxLimit : limit = ListMaxLimit
    BY <2>1
  <2>2. AreFirst(Discovered(graph, rows, limit), rows, limit)
    BY <1>4, DiscoveredAreFirst
  <2>3. Len(found) = Len(rows)
    <3>1. Len(found) = IF Len(rows) <= ListMaxLimit THEN Len(rows) ELSE ListMaxLimit
      BY <1>2, <2>2 DEF AreFirst
    <3> QED  BY <1>7, <2>1, <3>1
  <2> QED  BY <1>2, <2>2, <2>3 DEF AreFirst
<1>10. ASSUME NEW i \in 1 .. Len(passing), LegacySearchScore(passing[i], query.terms) > 0
       PROVE  passing[i].id \in FoundIds(found)
  <2> DEFINE row == DiscoveryRow(graph, passing[i], query.terms)
  <2>1. row.id = passing[i].id /\ row.raw = RawScore(graph, passing[i], query.terms)
    BY DEF DiscoveryRow
  <2>2. RawScore(graph, passing[i], query.terms) > 0
    BY <1>3, <1>6, <1>10, RawIsScore
  <2>3. row \in ToSet(rows)
    <3> HIDE DEF row
    <3>1. row.raw > 0
      BY <2>1, <2>2
    <3>2. row \in S
      BY <1>5 DEF row
    <3> QED  BY <1>4, <3>1, <3>2
  <2> HIDE DEF row
  <2>4. PICK j \in 1 .. Len(rows) : rows[j] = row
    BY <1>4, <2>3, LenProperties DEF ToSet
  <2> QED  BY <1>9, <2>1, <2>4 DEF FoundIds
<1> QED  BY <1>8, <1>10 DEF found

(* The answer to a search is that of the two commands to what was asked. *)
SearchInv ==
    /\ scene = "questions" => bundle \in Bundles
    /\ answer.kind = "search" =>
           /\ bundle \in Bundles /\ answer.asked \in Searched
           /\ answer.given = [search |-> SearchResources(Graph, answer.asked, NoFilter, ListMaxLimit, 0),
                              discover |-> DiscoverResources(Graph, answer.asked, NoFilter, ListMaxLimit)]

LEMMA SearchKeeps ==
    ASSUME SearchInv, Search, UNCHANGED <<scene, bundle>>
    PROVE  SearchInv'
<1>1. scene = "questions" /\ bundle \in Bundles /\ Graph' = Graph
  BY DEF SearchInv, Search, Asks, Graph
<1>2. PICK tokens \in Searched :
          answer' = [kind |-> "search", asked |-> tokens,
                     given |-> [search |-> SearchResources(Graph, tokens, NoFilter, ListMaxLimit, 0),
                                discover |-> DiscoverResources(Graph, tokens, NoFilter, ListMaxLimit)]]
  BY DEF Search, Answers
<1> QED  BY <1>1, <1>2 DEF SearchInv

LEMMA OthersAnswer ==
    ASSUME QuestionsNext
    PROVE  \/ Search \/ AskExplain
           \/ answer'.kind \in {"dependencies", "field", "subgraph", "analysis", "impact", "list", "failure"}
<1>1. \A kind, asked, given : Answers(kind, asked, given) => answer'.kind = kind
  BY DEF Answers
<1>2. CASE AskDependencies
  BY <1>1, <1>2 DEF AskDependencies
<1>3. CASE AskFieldDependencies
  BY <1>1, <1>3 DEF AskFieldDependencies
<1>4. CASE AskSubgraph
  BY <1>1, <1>4 DEF AskSubgraph
<1>5. CASE Analyze
  BY <1>1, <1>5 DEF Analyze
<1>6. CASE AskImpact
  BY <1>1, <1>6 DEF AskImpact
<1>7. CASE AskPage
  BY <1>1, <1>7 DEF AskPage, TurnTo
<1>8. CASE FollowPage
  BY <1>1, <1>8 DEF FollowPage, TurnTo
<1> QED  BY <1>2, <1>3, <1>4, <1>5, <1>6, <1>7, <1>8 DEF QuestionsNext

LEMMA SearchStep ==
    ASSUME SearchInv, [Next]_investigationVars
    PROVE  SearchInv'
<1>1. CASE QuestionsNext /\ UNCHANGED <<scene, bundle>>
  <2>1. CASE Search
    BY <1>1, <2>1, SearchKeeps
  <2>2. CASE AskExplain
    <3>1. answer'.kind = "explain"
      BY <2>2 DEF AskExplain, Answers
    <3> QED  BY <1>1, <3>1 DEF SearchInv
  <2>3. CASE answer'.kind \in {"dependencies", "field", "subgraph", "analysis", "impact", "list", "failure"}
    BY <1>1, <2>3 DEF SearchInv
  <2> QED  BY <1>1, <2>1, <2>2, <2>3, OthersAnswer
<1>2. CASE UNCHANGED <<scene, bundle, answer>>
  <2>1. Graph' = Graph
    BY <1>2 DEF Graph
  <2> QED  BY <1>2, <2>1 DEF SearchInv
<1> QED  BY <1>1, <1>2 DEF Next, investigationVars

LEMMA SearchesAreDiscoverable ==
    ASSUME SearchInv
    PROVE  SearchIsDiscoverable
<1> SUFFICES ASSUME answer.kind = "search",
                    LET query == ParseQueryTokens(answer.asked)
                        words == ToSet(query.terms)
                    IN  /\ <<>> \notin words /\ (words # {} \/ query.filter # NoFilter)
                        /\ Len(answer.given.discover) < ListMaxLimit
             PROVE  FoundIds(answer.given.search.rows) \subseteq FoundIds(answer.given.discover)
  BY DEF SearchIsDiscoverable
<1> DEFINE tokens == answer.asked
           terms == ParseQueryTokens(tokens).terms
           older == SearchResources(Graph, tokens, NoFilter, ListMaxLimit, 0)
           found == DiscoverResources(Graph, tokens, NoFilter, ListMaxLimit)
<1>1. /\ bundle \in Bundles /\ tokens \in Searched
      /\ answer.given = [search |-> older, discover |-> found]
  BY DEF SearchInv
<1> HIDE DEF older, found
<1>2. answer.given.search = older /\ answer.given.discover = found
  BY <1>1
<1>3. HasResources(Graph) /\ IsQuery(tokens)
  BY <1>1, GraphIsOfEntries, SearchesAreQueries
<1>4. terms = <<>> => ToSet(terms) = {}
  <2> HIDE DEF terms
  <2> QED  BY DEF ToSet
<1>5. FoundIds(older.rows) \subseteq FoundIds(found)
  BY <1>2, <1>3, <1>4, SearchedIsDiscovered DEF older, found
<1> QED  BY <1>2, <1>5

(* What the older search finds, discovery finds too, of whatever bundle and whatever words,    *)
(* unless there are none, one is empty, or the list is full (discover-action.ts:2).            *)
THEOREM SearchIsDiscoverableAlways == Spec => []SearchIsDiscoverable
<1>1. Init => SearchInv
  BY DEF Init, SearchInv, StartQuestions, IdleQuestions, NoAnswer
<1> QED  BY <1>1, SearchStep, SearchesAreDiscoverable, PTL DEF Spec

-----------------------------------------------------------------------------
(* Types in the order of ids; an operation counts as a model. *)
PlaceOfType(t) == CHOOSE i \in DOMAIN TypeAlphabet : TypeAlphabet[i] = t
RankOfType(t) == IF PlaceOfType(t) = 8 THEN 7 ELSE PlaceOfType(t)

LEMMA TypesArePlaced ==
    ASSUME NEW t \in ToSet(TypeAlphabet)
    PROVE  PlaceOfType(t) \in 1 .. 14 /\ TypeAlphabet[PlaceOfType(t)] = t
<1>1. DOMAIN TypeAlphabet = 1 .. 14
  BY DEF TypeAlphabet
<1>2. \E i \in DOMAIN TypeAlphabet : TypeAlphabet[i] = t
  BY DEF ToSet
<1> HIDE DEF TypeAlphabet
<1> QED  BY <1>1, <1>2 DEF PlaceOfType

LEMMA TypesAreRanked ==
    ASSUME NEW t \in ManifestTypes
    PROVE  RankOfType(t) \in 1 .. 14 /\ ExtractResourceType(t) = TypeAlphabet[RankOfType(t)]
<1> DEFINE p == PlaceOfType(t)
<1>1. p \in 1 .. 14 /\ TypeAlphabet[p] = t /\ t # "field"
  BY TypesArePlaced DEF ManifestTypes
<1>2. RankOfType(t) = IF p = 8 THEN 7 ELSE p
  BY DEF RankOfType
<1> HIDE DEF p
<1>3. p \in {1, 2, 4, 5, 6, 7, 8, 9, 10, 11, 12, 13, 14}
  <2>1. p # 3
    BY <1>1 DEF TypeAlphabet
  <2> QED  BY <1>1, <2>1
<1>4. CASE p = 8
  <2>1. t = "operation" /\ TypeAlphabet[7] = "model"
    BY <1>1, <1>4 DEF TypeAlphabet
  <2> QED  BY <1>2, <1>4, <2>1 DEF ExtractResourceType, KnownTypes
<1>5. CASE p # 8
  <2>1. TypeAlphabet[p] \in KnownTypes
    BY <1>3, <1>5 DEF TypeAlphabet, KnownTypes
  <2>2. ExtractResourceType(t) = t
    BY <1>1, <2>1 DEF ExtractResourceType
  <2> QED  BY <1>1, <1>2, <1>5, <2>2
<1> QED  BY <1>4, <1>5

LEMMA TypesDiffer ==
    ASSUME NEW i \in 1 .. 14, NEW j \in 1 .. 14, TypeAlphabet[i] = TypeAlphabet[j]
    PROVE  i = j
BY DEF TypeAlphabet

ResourceIds == ManifestTypes \X Nat \X Nat
LEMMA IdsAreOrdered ==
    ASSUME NEW a \in ResourceIds, NEW b \in ResourceIds
    PROVE  /\ IdBefore(a, b) => RankOfType(a[1]) <= RankOfType(b[1])
           /\ ~IdBefore(a, b) => RankOfType(b[1]) <= RankOfType(a[1])
<1> DEFINE p == PlaceOfType(a[1])
           q == PlaceOfType(b[1])
           A == <<p, a[2], a[3]>>
           B == <<q, b[2], b[3]>>
<1>1. p \in 1 .. 14 /\ q \in 1 .. 14
  BY TypesArePlaced DEF ResourceIds, ManifestTypes
<1>2. IdBefore(a, b) <=> \E i \in 1 .. 3 : A[i] < B[i] /\ \A j \in 1 .. i - 1 : A[j] = B[j]
  BY DEF IdBefore, PlaceOfType
<1>3. RankOfType(a[1]) = (IF p = 8 THEN 7 ELSE p) /\ RankOfType(b[1]) = (IF q = 8 THEN 7 ELSE q)
  BY DEF RankOfType
<1> HIDE DEF p, q
<1>4. A[1] = p /\ B[1] = q
  OBVIOUS
<1> HIDE DEF A, B
<1>5. IdBefore(a, b) => p <= q
  <2> SUFFICES ASSUME NEW i \in 1 .. 3, A[i] < B[i], \A j \in 1 .. i - 1 : A[j] = B[j] PROVE p <= q
    BY <1>2
  <2>1. CASE i = 1
    BY <1>1, <1>4, <2>1
  <2>2. CASE i # 1
    <3>1. 1 \in 1 .. i - 1
      BY <2>2
    <3> QED  BY <1>1, <1>4, <3>1
  <2> QED  BY <2>1, <2>2
<1>6. p < q => IdBefore(a, b)
  <2>1. 1 \in 1 .. 3 /\ \A j \in 1 .. 1 - 1 : A[j] = B[j]
    OBVIOUS
  <2> QED  BY <1>2, <1>4, <2>1
<1>7. p <= q => RankOfType(a[1]) <= RankOfType(b[1])
  BY <1>1, <1>3
<1>8. q <= p => RankOfType(b[1]) <= RankOfType(a[1])
  BY <1>1, <1>3
<1>9. p < q \/ q <= p
  BY <1>1
<1> QED  BY <1>5, <1>6, <1>7, <1>8, <1>9

(* The order of ranked rows: of their scores, and of their types among the same score. *)
IsRow(row) == row.raw \in Nat /\ row.id \in ResourceIds
Standing(row) == RankOfType(row.id[1]) - 20 * row.raw

LEMMA StandingIsNumber ==
    ASSUME NEW row, IsRow(row)
    PROVE  Standing(row) \in Int /\ RankOfType(row.id[1]) \in 1 .. 14
<1>1. RankOfType(row.id[1]) \in 1 .. 14
  BY TypesAreRanked DEF IsRow, ResourceIds
<1> QED  BY <1>1 DEF IsRow, Standing

LEMMA StandingSays ==
    ASSUME NEW y, NEW z, IsRow(y), IsRow(z), Standing(y) <= Standing(z)
    PROVE  /\ z.raw <= y.raw
           /\ y.raw = z.raw => RankOfType(y.id[1]) <= RankOfType(z.id[1])
<1> DEFINE a == y.raw
           b == z.raw
           p == RankOfType(y.id[1])
           q == RankOfType(z.id[1])
<1>1. a \in Nat /\ b \in Nat /\ p \in 1 .. 14 /\ q \in 1 .. 14
  BY StandingIsNumber DEF IsRow
<1>2. p - 20 * a <= q - 20 * b
  BY DEF Standing
<1> HIDE DEF a, b, p, q
<1>3. b <= a /\ (a = b => p <= q)
  BY <1>1, <1>2
<1> QED  BY <1>3 DEF a, b, p, q

LEMMA RankedInOrder ==
    ASSUME NEW S, NEW rows \in Seq(S), \A row \in S : IsRow(row)
    PROVE  LET q == Ranked(rows)
           IN  \A i, j \in 1 .. Len(q) : i <= j => Standing(q[i]) <= Standing(q[j])
<1> DEFINE found == Only(rows, {row \in ToSet(rows) : row.raw > 0})
           R == ToSet(found)
           earlier == RankedBefore(found)
           key == [row \in R |-> Standing(row)]
           q == Ranked(rows)
<1>1. q = Sorted(found, earlier)
  BY DEF Ranked
<1>2. found \in Seq(S)
  BY OnlyKeeps
<1> HIDE DEF q, found
<1>3. found \in Seq(R) /\ R \subseteq S
  <2>1. PICK n \in Nat : n = Len(found) /\ DOMAIN found = 1 .. n /\ found \in [1 .. n -> S]
    BY <1>2, LenProperties
  <2>2. \A i \in 1 .. n : found[i] \in R /\ found[i] \in S
    BY <2>1 DEF ToSet
  <2>3. found \in [1 .. n -> R]
    <3> HIDE DEF R
    <3> QED  BY <2>1, <2>2
  <2>4. R \subseteq S
    BY <2>1, <2>2 DEF ToSet
  <2> HIDE DEF R
  <2> QED  BY <2>3, <2>4
<1>4. \A row \in R : IsRow(row)
  <2> HIDE DEF R
  <2> QED  BY <1>3
<1>5. earlier = {p \in R \X R : \/ p[1].raw > p[2].raw
                                \/ p[1].raw = p[2].raw /\ IdBefore(p[1].id, p[2].id)}
  BY DEF RankedBefore, Pairs
<1> HIDE DEF R, earlier
<1>6. key \in [R -> Int]
  BY <1>4, StandingIsNumber
<1>7. ASSUME NEW y \in R, NEW z \in R
      PROVE  /\ <<y, z>> \in earlier => Standing(y) <= Standing(z)
             /\ <<y, z>> \notin earlier => Standing(z) <= Standing(y)
  <2> DEFINE a == y.raw
             b == z.raw
             m == RankOfType(y.id[1])
             n == RankOfType(z.id[1])
             before == IdBefore(y.id, z.id)
  <2>1. a \in Nat /\ b \in Nat /\ m \in 1 .. 14 /\ n \in 1 .. 14
    BY <1>4, StandingIsNumber DEF IsRow
  <2>2. (before => m <= n) /\ (~before => n <= m)
    BY <1>4, IdsAreOrdered DEF IsRow
  <2>3. <<y, z>> \in earlier <=> a > b \/ (a = b /\ before)
    <3> DEFINE p == <<y, z>>
    <3>1. p \in R \X R /\ p[1] = y /\ p[2] = z
      OBVIOUS
    <3> HIDE DEF p
    <3>2. p \in earlier <=> p[1].raw > p[2].raw \/ (p[1].raw = p[2].raw /\ IdBefore(p[1].id, p[2].id))
      BY <1>5, <3>1, Zenon
    <3> QED  BY <3>1, <3>2 DEF p
  <2>4. Standing(y) = m - 20 * a /\ Standing(z) = n - 20 * b
    BY DEF Standing
  <2> HIDE DEF a, b, m, n, before
  <2>5. ASSUME a > b \/ (a = b /\ m <= n) PROVE m - 20 * a <= n - 20 * b
    BY <2>1, <2>5
  <2>6. ASSUME b > a \/ (a = b /\ n <= m) PROVE n - 20 * b <= m - 20 * a
    BY <2>1, <2>6
  <2>7. a > b \/ b > a \/ a = b
    BY <2>1
  <2>8. <<y, z>> \in earlier => m - 20 * a <= n - 20 * b
    BY <2>2, <2>3, <2>5
  <2>9. <<y, z>> \notin earlier => n - 20 * b <= m - 20 * a
    BY <2>2, <2>3, <2>6, <2>7
  <2> QED  BY <2>4, <2>8, <2>9
<1> HIDE DEF key
<1>8. \A y, z \in R : /\ <<y, z>> \in earlier => key[y] <= key[z]
                      /\ <<y, z>> \notin earlier => key[z] <= key[y]
  BY <1>7 DEF key
<1>9. InOrder(q, key)
  BY <1>1, <1>3, <1>6, <1>8, SortedInOrder
<1>10. q \in Seq(R)
  BY <1>1, <1>3, SortedKeeps
<1>11. \A i \in 1 .. Len(q) : q[i] \in R /\ key[q[i]] = Standing(q[i])
  BY <1>10, LenProperties DEF key
<1> QED  BY <1>9, <1>11 DEF InOrder, q

(* A share grows with the score. *)
LEMMA QuotientGrows ==
    ASSUME NEW x \in Nat, NEW y \in Nat, NEW d \in Nat \ {0}, x <= y
    PROVE  x \div d \in Int /\ x \div d <= y \div d
OBVIOUS

LEMMA ShareGrows ==
    ASSUME NEW a \in Nat, NEW c \in Nat, NEW b \in Nat \ {0}, a <= c
    PROVE  ScoreShare(a, b) \in Int /\ ScoreShare(a, b) <= ScoreShare(c, b)
<1>1. 2000 * a + b \in Nat /\ 2000 * c + b \in Nat /\ 2 * b \in Nat \ {0} /\ 2000 * a + b <= 2000 * c + b
  OBVIOUS
<1> QED  BY <1>1, QuotientGrows DEF ScoreShare

(* Every ranked row is of a resource. *)
IsRowOf(row, graph, attrs, terms) ==
    attrs \in ToSet(graph.nodes) /\ IsResource(attrs) /\ row = DiscoveryRow(graph, attrs, terms)

LEMMA RowOfResource ==
    ASSUME NEW graph, NEW row, NEW attrs, NEW terms \in Seq(Seq(Nat)), IsRowOf(row, graph, attrs, terms)
    PROVE  /\ IsRow(row) /\ row.name = attrs.text.name /\ row.name \in Seq(Nat)
           /\ row.type = TypeAlphabet[RankOfType(row.id[1])]
<1>1. row.id = attrs.id /\ row.name = attrs.text.name /\ row.type = attrs.type
      /\ row.raw = RawScore(graph, attrs, terms)
  BY DEF IsRowOf, DiscoveryRow
<1>2. /\ attrs.id \in ManifestTypes \X Nat \X Nat /\ attrs.text.name \in Seq(Nat)
      /\ attrs.type = ExtractResourceType(attrs.id[1])
  BY DEF IsRowOf, IsResource
<1>3. RawScore(graph, attrs, terms) \in Nat
  BY RawIsScore DEF IsRowOf
<1>4. attrs.type = TypeAlphabet[RankOfType(attrs.id[1])]
  <2>1. PICK t \in ManifestTypes : t = attrs.id[1]
    BY <1>2
  <2> QED  BY <1>2, <2>1, TypesAreRanked
<1> QED  BY <1>1, <1>2, <1>3, <1>4 DEF IsRow, ResourceIds

(* A resource scores 100 for a word exactly when the word is its name. *)
LEMMA NameScores ==
    ASSUME NEW graph, NEW row, NEW attrs, NEW term \in Seq(Nat), IdText(attrs) # term,
           IsRowOf(row, graph, attrs, <<term>>), row.raw > 0
    PROVE  row.raw \in 0 .. 100 /\ (row.raw = 100 <=> row.name = term)
<1> DEFINE score == ScoreTermAgainstNode(graph, attrs, term)
           terms == <<term>>
<1>1. row.name = attrs.text.name /\ row.raw = RawScore(graph, attrs, terms) /\ IsResource(attrs)
  BY DEF IsRowOf, DiscoveryRow
<1>2. attrs.text.name \in Seq(Nat) /\ term \in Seq(Nat)
  BY <1>1 DEF IsResource
<1>3. Len(attrs.text.name) \in Nat /\ Len(term) \in Nat
  BY <1>2, LenProperties
<1>4. terms \in Seq(Seq(Nat)) /\ Len(terms) = 1 /\ terms[1] = term
  <2> DEFINE T == Seq(Nat)
  <2>1. term \in T
    BY <1>2
  <2> HIDE DEF T
  <2>2. terms \in Seq(T) /\ Len(terms) = 1 /\ terms[1] = term
    BY <2>1
  <2> QED  BY <2>2 DEF T
<1>5. row.raw = score
  <2> HIDE DEF terms, score
  <2>1. RawScore(graph, attrs, terms) = ScoreTermAgainstNode(graph, attrs, terms[1])
    BY <1>1, <1>4, RawIsScore
  <2> QED  BY <1>1, <1>4, <2>1 DEF score
<1>6. /\ score \in 0 .. 100
      /\ score = 100 => attrs.text.name = term \/ IdText(attrs) = term
      /\ term # <<>> /\ attrs.text.name = term => score = 100
  BY <1>3, TermIsScored
<1>7. term # <<>>
  <2>1. term = <<>> => score = 0
    BY DEF ScoreTermAgainstNode
  <2> HIDE DEF score
  <2> QED  BY <1>5, <2>1
<1> QED  BY <1>1, <1>5, <1>6, <1>7

LEMMA RankedRowsAre ==
    ASSUME NEW graph, HasResources(graph), NEW terms \in Seq(Seq(Nat)), NEW filter
    PROVE  LET rows == RankedRows(graph, terms, filter)
           IN  /\ rows \in Seq(ScoredRows(graph, terms, filter)) /\ Len(rows) \in Nat
               /\ \A i \in 1 .. Len(rows) : /\ rows[i].raw > 0 /\ IsRow(rows[i])
                                            /\ \E attrs : IsRowOf(rows[i], graph, attrs, terms)
               /\ \A i, j \in 1 .. Len(rows) : i <= j => Standing(rows[i]) <= Standing(rows[j])
<1> DEFINE rows == RankedRows(graph, terms, filter)
           S == ScoredRows(graph, terms, filter)
           passing == Passing(graph, filter)
<1>1. /\ rows \in Seq(S) /\ ToSet(rows) = {row \in S : row.raw > 0}
      /\ \E list \in Seq(S) : rows = Ranked(list)
  BY RankedRowsHold
<1>2. S = {DiscoveryRow(graph, passing[i], terms) : i \in 1 .. Len(passing)}
  BY DEF ScoredRows
<1>3. \A i \in 1 .. Len(passing) : passing[i] \in ToSet(graph.nodes) /\ IsResource(passing[i])
  BY PassingHolds
<1> HIDE DEF rows, S, passing
<1>4. ASSUME NEW row \in S
      PROVE  IsRow(row) /\ \E attrs : IsRowOf(row, graph, attrs, terms)
  <2>1. PICK i \in 1 .. Len(passing) : row = DiscoveryRow(graph, passing[i], terms)
    BY <1>2
  <2>2. IsRowOf(row, graph, passing[i], terms)
    BY <1>3, <2>1 DEF IsRowOf
  <2> QED  BY <2>2, RowOfResource
<1>5. PICK list \in Seq(S) : rows = Ranked(list)
  BY <1>1
<1>6. \A i, j \in 1 .. Len(rows) : i <= j => Standing(rows[i]) <= Standing(rows[j])
  BY <1>4, <1>5, RankedInOrder
<1>7. Len(rows) \in Nat /\ \A i \in 1 .. Len(rows) : rows[i] \in S /\ rows[i] \in ToSet(rows)
  BY <1>1, LenProperties DEF ToSet
<1>8. \A i \in 1 .. Len(rows) : rows[i].raw > 0
  BY <1>1, <1>7
<1> QED  BY <1>1, <1>4, <1>6, <1>7, <1>8 DEF rows, S

(* Were there a second resource of the name and type of the best one, it would be the next row. *)
LEMMA NamesakeIsNext ==
    ASSUME NEW graph, HasResources(graph), NEW term \in Seq(Nat), NEW filter,
           \A attrs \in ToSet(graph.nodes) : IdText(attrs) # term,
           NEW rows, rows = RankedRows(graph, <<term>>, filter),
           NEW j \in 2 .. Len(rows), rows[1].name = term, rows[j].name = term,
           rows[j].type = rows[1].type
    PROVE  rows[2].name = term /\ rows[2].type = rows[1].type /\ rows[2].raw = rows[1].raw
<1> DEFINE terms == <<term>>
           n == Len(rows)
<1>1. terms \in Seq(Seq(Nat))
  <2> DEFINE T == Seq(Nat)
  <2>1. term \in T
    OBVIOUS
  <2> HIDE DEF T
  <2>2. terms \in Seq(T)
    BY <2>1
  <2> QED  BY <2>2 DEF T
<1>2. /\ n \in Nat
      /\ \A i \in 1 .. n : /\ rows[i].raw > 0 /\ IsRow(rows[i])
                           /\ \E attrs : IsRowOf(rows[i], graph, attrs, terms)
      /\ \A i, k \in 1 .. n : i <= k => Standing(rows[i]) <= Standing(rows[k])
  <2> HIDE DEF terms
  <2> QED  BY <1>1, RankedRowsAre DEF terms
<1>3. 1 \in 1 .. n /\ 2 \in 1 .. n /\ j \in 1 .. n /\ 1 <= 2 /\ 2 <= j
  BY <1>2
<1>4. \A i \in 1 .. n : /\ rows[i].raw = 100 <=> rows[i].name = term
                        /\ rows[i].type = TypeAlphabet[RankOfType(rows[i].id[1])]
  <2> TAKE i \in 1 .. n
  <2>1. PICK attrs : IsRowOf(rows[i], graph, attrs, terms)
    BY <1>2
  <2>2. rows[i].raw = 100 <=> rows[i].name = term
    BY <1>2, <2>1, NameScores DEF IsRowOf
  <2>3. rows[i].type = TypeAlphabet[RankOfType(rows[i].id[1])]
    <3> HIDE DEF terms
    <3> QED  BY <1>1, <2>1, RowOfResource
  <2> QED  BY <2>2, <2>3
<1> HIDE DEF n, terms
<1> DEFINE a == rows[1]
           b == rows[2]
           c == rows[j]
           p == RankOfType(a.id[1])
           q == RankOfType(b.id[1])
           r == RankOfType(c.id[1])
<1>5. IsRow(a) /\ IsRow(b) /\ IsRow(c) /\ Standing(a) <= Standing(b) /\ Standing(b) <= Standing(c)
  BY <1>2, <1>3
<1>6. a.raw = 100 /\ c.raw = 100
  BY <1>3, <1>4
<1>7. p \in 1 .. 14 /\ q \in 1 .. 14 /\ r \in 1 .. 14
  BY <1>5, StandingIsNumber
<1>8. a.type = TypeAlphabet[p] /\ b.type = TypeAlphabet[q] /\ c.type = TypeAlphabet[r] /\ c.type = a.type
  BY <1>3, <1>4
<1> HIDE DEF a, b, c
<1>9. b.raw <= a.raw /\ c.raw <= b.raw /\ b.raw \in Nat
  BY <1>5, StandingSays DEF IsRow
<1>10. b.raw = 100
  BY <1>6, <1>9
<1>11. p <= q /\ q <= r
  BY <1>5, <1>6, <1>10, StandingSays
<1> HIDE DEF p, q, r
<1>12. p = r
  BY <1>7, <1>8, TypesDiffer
<1>13. q = p
  BY <1>7, <1>11, <1>12
<1>14. b.name = term
  BY <1>3, <1>4, <1>10 DEF b
<1> QED  BY <1>6, <1>8, <1>10, <1>13, <1>14 DEF a, b

(* What some words resolve to. *)
LEMMA NobodyIsNoNode ==
    ASSUME NEW graph, HasResources(graph)
    PROVE  ~HasNode(graph, Nobody)
<1>1. \A i \in DOMAIN graph.nodes : IsResource(graph.nodes[i])
  BY DEF HasResources, ToSet
<1>2. \A i \in DOMAIN graph.nodes : graph.nodes[i].id \in ManifestTypes \X Nat \X Nat
  BY <1>1 DEF IsResource
<1>3. \A id \in ManifestTypes \X Nat \X Nat : id # <<>>
  <2> TAKE id \in ManifestTypes \X Nat \X Nat
  <2>1. PICK a, b, c : id = <<a, b, c>>
    OBVIOUS
  <2>2. Len(<<a, b, c>>) = 3 /\ Len(<<>>) = 0
    OBVIOUS
  <2> QED  BY <2>1, <2>2
<1> QED  BY <1>2, <1>3 DEF HasNode, Nobody

LEMMA NameIsTerm ==
    ASSUME NEW tokens, NEW name, tokens = <<<<None, name>>>>
    PROVE  ParseQueryTokens(tokens).terms = <<name>>
<1> DEFINE t == <<None, name>>
           kept == {u \in ToSet(tokens) : u[1] \notin FilterKeys}
           words == Only(tokens, kept)
<1>1. t[1] \notin FilterKeys /\ t[2] = name
  BY DEF None, FilterKeys
<1> HIDE DEF t
<1>2. tokens \in Seq({t}) /\ Len(tokens) = 1 /\ tokens[1] = t
  BY DEF t
<1>3. t \in kept
  <2>1. t \in ToSet(tokens)
    BY <1>2 DEF ToSet
  <2> QED  BY <1>1, <2>1
<1>4. ParseQueryTokens(tokens).terms = [k \in DOMAIN words |-> words[k][2]]
  BY DEF ParseQueryTokens
<1> HIDE DEF kept
<1>5. words = tokens
  <2> DEFINE Defines(f) == f = [n \in 0 .. Len(tokens) |->
                                  IF n = 0 THEN <<>>
                                  ELSE IF tokens[n] \in kept THEN Append(f[n - 1], tokens[n]) ELSE f[n - 1]]
             g == [n \in 0 .. 1 |-> IF n = 0 THEN <<>> ELSE <<t>>]
             h == CHOOSE f : Defines(f)
  <2>1. Defines(g)
    <3>1. g[0] = <<>> /\ Append(<<>>, t) = <<t>>
      OBVIOUS
    <3>2. \A n \in 0 .. 1 : n # 0 => n = 1 /\ n - 1 = 0
      OBVIOUS
    <3>3. \A n \in 0 .. 1 : g[n] = IF n = 0 THEN <<>>
                                  ELSE IF tokens[n] \in kept THEN Append(g[n - 1], tokens[n]) ELSE g[n - 1]
      BY <1>2, <1>3, <3>1, <3>2
    <3> HIDE DEF g
    <3>4. g = [n \in 0 .. 1 |-> g[n]]
      BY DEF g
    <3> QED  BY <1>2, <3>3, <3>4
  <2>2. Defines(h)
    <3> HIDE DEF Defines
    <3> QED  BY <2>1
  <2>3. words = h[1]
    BY <1>2 DEF Only
  <2> HIDE DEF h
  <2>4. h[0] = <<>> /\ h[1] = Append(h[0], t)
    <3>1. 0 \in 0 .. 1 /\ 1 \in 0 .. 1 /\ 1 - 1 = 0
      OBVIOUS
    <3> QED  BY <1>2, <1>3, <2>2, <3>1
  <2> QED  BY <2>3, <2>4 DEF t
<1> HIDE DEF words
<1>6. [k \in DOMAIN tokens |-> tokens[k][2]] = <<name>>
  BY <1>1, <1>2
<1> QED  BY <1>4, <1>5, <1>6

(* The target of some words is the best match, and has no namesake. *)
LEMMA TargetIsUnambiguous ==
    ASSUME NEW graph, HasResources(graph), NEW tokens, IsQuery(tokens), NEW target,
           target = ResolveIntentTarget(graph, Nobody, tokens), Resolves(target)
    PROVE  IsUnambiguousBest(tokens, target,
                             ToSet(DiscoverResources(graph, tokens, NoFilter, ListMaxLimit)))
<1> DEFINE query == ParseQueryTokens(tokens)
           rows == RankedRows(graph, query.terms, query.filter)
           S == ScoredRows(graph, query.terms, query.filter)
           few == DiscoverResources(graph, tokens, NoFilter, 15)
           all == DiscoverResources(graph, tokens, NoFilter, ListMaxLimit)
           n == Len(rows)
           matches == ToSet(all)
<1>1. EffectiveFilter(NoFilter, query.filter) = query.filter
  BY DEF EffectiveFilter, NoFilter, ParseQueryTokens
<1>2. target = TargetAmong(few)
  BY NobodyIsNoNode DEF ResolveIntentTarget
<1>3. query.terms \in Seq(Seq(Nat))
  BY QueryTerms
<1>4. /\ rows \in Seq(S) /\ n \in Nat
      /\ \A i \in 1 .. n : rows[i].raw > 0 /\ IsRow(rows[i])
                           /\ \E attrs : IsRowOf(rows[i], graph, attrs, query.terms)
      /\ \A i, j \in 1 .. n : i <= j => Standing(rows[i]) <= Standing(rows[j])
  BY <1>3, RankedRowsAre
<1>5. \/ few = <<>>
      \/ few = Discovered(graph, rows, 15) /\ all = Discovered(graph, rows, ListMaxLimit)
  BY <1>1 DEF DiscoverResources
<1> HIDE DEF rows, S, few, all, n, matches, query
<1>6. /\ few # <<>> /\ target = few[1].id
      /\ Len(few) > 1 /\ few[1].name = few[2].name /\ few[1].type = few[2].type
         => ~(Distance(few[1].score, few[2].score) < 50)
  BY <1>2 DEF TargetAmong, Resolves
<1>7. few = Discovered(graph, rows, 15) /\ all = Discovered(graph, rows, ListMaxLimit)
  BY <1>5, <1>6
<1>8. /\ Len(few) = (IF n <= 15 THEN n ELSE 15) /\ Len(few) \in Nat /\ DOMAIN few = 1 .. Len(few)
      /\ \A i \in 1 .. Len(few) : /\ few[i].id = rows[i].id /\ few[i].name = rows[i].name
                                  /\ few[i].type = rows[i].type
                                  /\ few[i].score = ScoreShare(rows[i].raw, rows[1].raw)
  <2> PICK limit \in 1 .. ListMaxLimit : limit = 15
    BY DEF ListMaxLimit
  <2>1. AreFirst(Discovered(graph, rows, limit), rows, limit)
    BY <1>4, DiscoveredAreFirst
  <2>2. AreFirst(few, rows, limit) /\ Len(rows) = n
    BY <1>7, <2>1 DEF n
  <2> QED  BY <2>2 DEF AreFirst
<1>9. /\ Len(all) = (IF n <= 200 THEN n ELSE 200) /\ Len(all) \in Nat /\ DOMAIN all = 1 .. Len(all)
      /\ \A i \in 1 .. Len(all) : /\ all[i].id = rows[i].id /\ all[i].name = rows[i].name
                                  /\ all[i].type = rows[i].type
                                  /\ all[i].score = ScoreShare(rows[i].raw, rows[1].raw)
  <2> PICK limit \in 1 .. ListMaxLimit : limit = ListMaxLimit /\ limit = 200
    BY DEF ListMaxLimit
  <2>1. AreFirst(Discovered(graph, rows, limit), rows, limit)
    BY <1>4, DiscoveredAreFirst
  <2>2. AreFirst(all, rows, limit) /\ Len(rows) = n
    BY <1>7, <2>1 DEF n
  <2> QED  BY <2>2 DEF AreFirst
<1>10. n >= 1
  <2>1. Len(few) # 0
    <3>1. DOMAIN few = {} => few = <<>>
      <4>1. few = [i \in DOMAIN few |-> few[i]]
        BY <1>7 DEF Discovered
      <4> QED  BY <4>1
    <3> QED  BY <1>6, <1>8, <3>1
  <2> QED  BY <1>4, <1>8, <2>1
<1>11. 1 \in 1 .. n /\ 1 \in 1 .. Len(few) /\ 1 \in 1 .. Len(all)
       /\ \A i \in 1 .. Len(all) : i \in 1 .. n
  BY <1>4, <1>8, <1>9, <1>10
<1> DEFINE best == all[1]
<1>12. best \in matches /\ best.id = target /\ best.name = rows[1].name /\ best.type = rows[1].type
  BY <1>6, <1>8, <1>9, <1>11 DEF matches, ToSet
<1>13. \A m \in matches : \E i \in 1 .. Len(all) : m = all[i]
  BY <1>9 DEF matches, ToSet
<1>14. ASSUME NEW m \in matches PROVE m.score <= best.score
  <2>1. PICK i \in 1 .. Len(all) : m = all[i]
    BY <1>13
  <2>2. i \in 1 .. n /\ 1 <= i
    BY <1>11
  <2>3. /\ rows[i].raw \in Nat /\ rows[1].raw \in Nat \ {0} /\ rows[i].raw <= rows[1].raw
    <3>1. IsRow(rows[i]) /\ IsRow(rows[1]) /\ rows[1].raw > 0 /\ Standing(rows[1]) <= Standing(rows[i])
      BY <1>4, <1>11, <2>2
    <3> QED  BY <3>1, StandingSays DEF IsRow
  <2>4. ScoreShare(rows[i].raw, rows[1].raw) <= ScoreShare(rows[1].raw, rows[1].raw)
    BY <2>3, ShareGrows
  <2> QED  BY <1>9, <1>11, <2>1, <2>4
<1>15. ASSUME tokens = <<<<None, best.name>>>>, NEW m \in matches \ {best}
       PROVE  ~(m.name = best.name /\ m.type = best.type)
  <2> SUFFICES ASSUME m.name = best.name, m.type = best.type PROVE FALSE
    OBVIOUS
  <2>1. PICK j \in 1 .. Len(all) : m = all[j]
    BY <1>13
  <2>2. j \in 2 .. n /\ rows[j].name = rows[1].name /\ rows[j].type = rows[1].type
    <3>1. j # 1
      BY <2>1
    <3> QED  BY <1>4, <1>9, <1>11, <1>12, <2>1, <3>1
  <2> PICK term : term = best.name
    OBVIOUS
  <2>3. term \in Seq(Nat) /\ \A attrs \in ToSet(graph.nodes) : IdText(attrs) # term
    <3>1. PICK attrs : IsRowOf(rows[1], graph, attrs, query.terms)
      BY <1>4, <1>11
    <3>2. rows[1].name \in Seq(Nat) /\ rows[1].name = attrs.text.name
      BY <1>3, <3>1, RowOfResource
    <3> QED  BY <1>12, <3>1, <3>2 DEF IsRowOf, HasResources
  <2>4. query.terms = <<term>>
    BY <1>15, NameIsTerm DEF query
  <2>5. rows[2].name = term /\ rows[2].type = rows[1].type /\ rows[2].raw = rows[1].raw
    <3>1. rows = RankedRows(graph, <<term>>, query.filter)
      BY <2>4 DEF rows
    <3>2. rows[1].name = term /\ rows[j].name = term
      BY <1>12, <2>2
    <3> QED  BY <2>2, <2>3, <3>1, <3>2, NamesakeIsNext DEF n
  <2>6. Len(few) > 1 /\ 2 \in 1 .. Len(few)
    BY <1>4, <1>8, <2>2
  <2>7. few[1].name = few[2].name /\ few[1].type = few[2].type /\ few[1].score = few[2].score
    BY <1>8, <1>11, <1>12, <2>5, <2>6
  <2>8. few[1].score \in Int
    <3>1. PICK raw \in Nat \ {0} : raw = rows[1].raw
      BY <1>4, <1>11 DEF IsRow
    <3>2. ScoreShare(raw, raw) \in Int
      BY ShareGrows
    <3> QED  BY <1>8, <1>11, <3>1, <3>2
  <2>9. Distance(few[1].score, few[2].score) = 0
    BY <2>7, <2>8 DEF Distance
  <2> QED  BY <1>6, <2>6, <2>7, <2>9
<1> HIDE DEF best
<1>16. \E b \in matches :
           /\ b.id = target
           /\ \A m \in matches : m.score <= b.score
           /\ tokens = <<<<None, b.name>>>> =>
                  \A m \in matches \ {b} :
                      m.name = b.name /\ m.type = b.type => b.score - m.score >= 50
  BY <1>12, <1>14, <1>15
<1> QED  BY <1>16 DEF IsUnambiguousBest, matches, all

(* What is explained is what the words resolve to. *)
ExplainInv ==
    /\ scene = "questions" => bundle \in Bundles
    /\ answer.kind = "explain" =>
           /\ bundle \in Bundles /\ answer.asked \in Searched
           /\ answer.given = Explain(Graph, Nobody, answer.asked)

LEMMA ExplainStep ==
    ASSUME ExplainInv, [Next]_investigationVars
    PROVE  ExplainInv'
<1>1. CASE QuestionsNext /\ UNCHANGED <<scene, bundle>>
  <2>1. CASE Search
    <3>1. answer'.kind = "search"
      BY <2>1 DEF Search, Answers
    <3> QED  BY <1>1, <3>1 DEF ExplainInv
  <2>2. CASE AskExplain
    <3>1. scene = "questions" /\ bundle \in Bundles /\ Graph' = Graph
      BY <1>1, <2>2 DEF ExplainInv, AskExplain, Asks, Graph
    <3>2. PICK tokens \in Searched :
              answer' = [kind |-> "explain", asked |-> tokens, given |-> Explain(Graph, Nobody, tokens)]
      BY <2>2 DEF AskExplain, Answers
    <3> QED  BY <1>1, <3>1, <3>2 DEF ExplainInv
  <2>3. CASE answer'.kind \in {"dependencies", "field", "subgraph", "analysis", "impact", "list", "failure"}
    BY <1>1, <2>3 DEF ExplainInv
  <2> QED  BY <1>1, <2>1, <2>2, <2>3, OthersAnswer
<1>2. CASE UNCHANGED <<scene, bundle, answer>>
  <2>1. Graph' = Graph
    BY <1>2 DEF Graph
  <2> QED  BY <1>2, <2>1 DEF ExplainInv
<1> QED  BY <1>1, <1>2 DEF Next, investigationVars

LEMMA ExplainedIsBest ==
    ASSUME ExplainInv
    PROVE  ResolvedIsUnambiguousBest
<1> SUFFICES ASSUME answer.kind = "explain", Resolves(answer.given.target)
             PROVE  ResolvedIsUnambiguousBest
  BY DEF ResolvedIsUnambiguousBest
<1> DEFINE tokens == answer.asked
           target == ResolveIntentTarget(Graph, Nobody, tokens)
<1>1. bundle \in Bundles /\ tokens \in Searched /\ answer.given = ExplanationOf(Graph, target)
  BY DEF ExplainInv, Explain
<1> HIDE DEF target
<1>2. answer.given.target = target
  BY <1>1 DEF ExplanationOf
<1>3. answer.given.type = Attributes(Graph, target).type
  BY <1>1, <1>2 DEF ExplanationOf
<1>4. HasResources(Graph) /\ IsQuery(tokens)
  BY <1>1, GraphIsOfEntries, SearchesAreQueries
<1>5. IsUnambiguousBest(tokens, target, ToSet(DiscoverResources(Graph, tokens, NoFilter, ListMaxLimit)))
  BY <1>2, <1>4, TargetIsUnambiguous DEF target
<1> QED  BY <1>2, <1>3, <1>5 DEF ResolvedIsUnambiguousBest

(* Of whatever bundle and whatever words: words resolve to a match of the best score, and the   *)
(* name of a resource to none that another one of the name and type scores about as well as    *)
(* (resolve-target.ts:18).                                                                     *)
THEOREM ResolvedIsUnambiguousBestAlways == Spec => []ResolvedIsUnambiguousBest
<1>1. Init => ExplainInv
  BY DEF Init, ExplainInv, StartQuestions, IdleQuestions, NoAnswer
<1> QED  BY <1>1, ExplainStep, ExplainedIsBest, PTL DEF Spec
=============================================================================
