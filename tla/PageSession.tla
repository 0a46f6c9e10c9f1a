----------------------------- MODULE PageSession -----------------------------
(***************************************************************************)
(* One browser tab of the web app: the page (use-analysis-page and its      *)
(* preload, reload and poll hooks), the fetch calls it makes, the client of *)
(* the analysis worker, and the worker.  Page and worker are two processes  *)
(* joined by two FIFO channels; every server answer arrives in a step of    *)
(* its own, so any two operations of the page may overtake each other.      *)
(*                                                                         *)
(* The server is reduced to what it answers (its own protocol is the module *)
(* ArtifactSourceService).  React runs the effects of a render before the   *)
(* next answer is handled, so a render is part of the step that causes it.  *)
(* The activeLoadGeneration of the worker is left out: a load increments it *)
(* and compares it again without an await in between, so the test always    *)
(* succeeds and 'invalidate-pending-loads' changes nothing that is          *)
(* observable.  onLoadDifferent is left out: no component calls it.         *)
(***************************************************************************)
EXTENDS Naturals, Sequences, Functions

CONSTANTS
  Loads,        \* the overlapping runs of loadWorkspace that are considered
  Reloads,      \* the overlapping refetches of the HMR handler
  MaxVersion,   \* bound: versions dbt writes of each source
  MaxFaults,    \* bound: requests and parses that fail
  MaxClicks     \* bound: loads and accepts the user starts

ASSUME PageAssumption ==
  /\ {"preload", "accept", "search"} \cap (Loads \cup Reloads) = {}
  /\ Loads \cap Reloads = {}
  /\ MaxVersion \in Nat \ {0}
  /\ {MaxFaults, MaxClicks} \subseteq Nat

VARIABLES
  server,    \* what the server would answer
  page,      \* the state and the refs of useAnalysisPage
  poll,      \* the poll of the current run of the poll effect
  jobs,      \* the operations of the page that await something
  worker,    \* the worker: its two channels and the cached analysis
  view,      \* the omnibox: its query and the matches it shows
  faults     \* the requests and parses that failed

vars == <<server, page, poll, jobs, worker, view, faults>>

-----------------------------------------------------------------------------
Sources == {"preload", "remote"}
Slots == {"preload", "accept"} \cup Loads \cup Reloads

\* An artifact bundle, or the analysis of one: the source and the version of
\* it that was read.
NoBundle == [source |-> "none", version |-> 0]
Bundles  == [source : Sources, version : 1..MaxVersion] \cup {NoBundle}

\* What keeps the server from naming a source: its first discovery found no
\* run, or its last refresh of the remote prefix failed (remoteRefreshError).
Troubles == {"none", "discovery", "refresh"}

\* The fields of ArtifactSourceStatus the page acts on (0: no pending run): with
\* a discoveryError there is no currentSource.
Status(s) == [source |-> IF s.trouble = "none" THEN s.source ELSE "none", pending |-> s.pending,
              error |-> s.trouble # "none"]
Statuses  == [source : Sources \cup {"none"}, pending : 0..MaxVersion, error : BOOLEAN]
NoStatus  == [source |-> "none", pending |-> 0, error |-> FALSE]

\* "legacy" is the fetch of the legacy files alone, when no status came.
Stages == {"idle", "ask", "fetch", "legacy", "parse", "rejected"}
Job == [stage : Stages, gen : 0..MaxClicks, kind : Sources \cup {"none"}, run : 0..MaxVersion,
        status : Statuses, attempt : 1..2]
Idle == [stage |-> "idle", gen |-> 0, kind |-> "none", run |-> 0, status |-> NoStatus,
         attempt |-> 1]
NewJob(stage, gen) == [Idle EXCEPT !.stage = stage, !.gen = gen]

\* The effect of useRemoteArtifactPoll keeps at most one poll whose answer it
\* would apply: an older one is cancelled or has an outdated sequence number.
PollOff  == [state |-> "off", status |-> NoStatus]
PollSent == [state |-> "sent", status |-> NoStatus]

\* A message is live while something waits for its answer.
Message  == [slot : Slots \cup {"search"}, live : BOOLEAN, bundle : Bundles]
Response == [slot : Slots \cup {"search"}, live : BOOLEAN, ok : BOOLEAN, bundle : Bundles]

Served(s) == IF s.source = "none" THEN NoBundle
             ELSE [source |-> s.source, version |-> s.version[s.source]]

Init ==
  /\ server \in [source : Sources \cup {"none"}, version : {[preload |-> 1, remote |-> 1]},
                 newest : {1}, pending : {0}, trouble : {"none", "discovery"}]
  /\ server.trouble = "discovery" => server.source = "none"
  /\ page = [gen |-> 0, superseded |-> FALSE, inFlight |-> FALSE, shown |-> NoBundle,
             shownBy |-> 0, source |-> "none", pending |-> 0, accepting |-> FALSE,
             error |-> "none", preloading |-> TRUE]
  /\ poll = PollOff
  /\ jobs = [s \in Slots |-> IF s = "preload" THEN NewJob("ask", 0) ELSE Idle]
  /\ worker = [inbox |-> <<>>, outbox |-> <<>>, cache |-> NoBundle]
  /\ view = [query |-> FALSE, loading |-> FALSE, hits |-> NoBundle]
  /\ faults = 0

-----------------------------------------------------------------------------
(* Rendering: a changed state re-runs the effects that depend on it.        *)

\* onPollError is a new closure in every render, so each render restarts the
\* poll effect: it cancels the poll under way and sends one at once.
RunPollEffect(p) ==
  /\ page' = IF p.source = "remote" THEN p ELSE [p EXCEPT !.pending = 0]
  /\ poll' = IF p.source = "remote" /\ ~p.accepting THEN PollSent ELSE PollOff

\* The omnibox asks again when its query or the analysis changed.  Nothing
\* waits for its earlier request (`cancelled`, requestSequence), and a search
\* changes nothing in the worker, so that request leaves the channels.
Searching(msg) == msg.slot = "search"
WithoutSearch(queue) ==
  LET searches == {i \in DOMAIN queue : Searching(queue[i])}
      found == CHOOSE i \in searches : TRUE
  IN IF searches = {} THEN queue
     ELSE [i \in 1 .. Len(queue) - 1 |-> IF i < found THEN queue[i] ELSE queue[i + 1]]

RunSearchEffect(shown, query, w) ==
  LET asks == shown # NoBundle /\ query
      question == [slot |-> "search", live |-> TRUE, bundle |-> NoBundle]
      inbox == WithoutSearch(w.inbox)
  IN /\ view' = [query |-> query, loading |-> asks, hits |-> NoBundle]
     /\ worker' = [w EXCEPT !.inbox = IF asks THEN Append(inbox, question) ELSE inbox,
                            !.outbox = WithoutSearch(@)]

\* What the end of an operation does to the page.
Ignored     == [page |-> page, effects |-> {}]
Rendered(p) == [page |-> p, effects |-> {"poll"}]
Shown(p, bundle, gen) ==
  [page |-> [p EXCEPT !.shown = bundle, !.shownBy = gen], effects |-> {"poll", "search"}]

Apply(outcome, w) ==
  /\ IF "poll" \in outcome.effects THEN RunPollEffect(outcome.page) ELSE UNCHANGED <<page, poll>>
  /\ IF "search" \in outcome.effects THEN RunSearchEffect(outcome.page.shown, view.query, w)
     ELSE worker' = w /\ UNCHANGED view

-----------------------------------------------------------------------------
(* What the user and the views do.                                          *)

StartLoad(l, kind) ==
  /\ jobs[l] = Idle /\ page.gen < MaxClicks
  /\ jobs' = [jobs EXCEPT ![l] = [NewJob("ask", page.gen + 1) EXCEPT !.kind = kind]]
  /\ RunPollEffect([page EXCEPT !.gen = @ + 1, !.inFlight = TRUE, !.error = "none"])
  /\ UNCHANGED <<server, worker, view, faults>>

StartAccept ==
  /\ page.pending # 0 /\ ~page.accepting /\ page.gen < MaxClicks
  /\ jobs' = [jobs EXCEPT !["accept"] =
                [NewJob("ask", page.gen + 1) EXCEPT !.run = page.pending]]
  /\ RunPollEffect([page EXCEPT !.gen = @ + 1, !.accepting = TRUE])
  /\ UNCHANGED <<server, worker, view, faults>>

TypeQuery ==
  /\ RunSearchEffect(page.shown, ~view.query, worker)
  /\ RunPollEffect(page)
  /\ UNCHANGED <<server, jobs, faults>>

PollTimer ==
  /\ page.source = "remote" /\ ~page.accepting /\ poll # PollSent
  /\ poll' = PollSent
  /\ UNCHANGED <<server, page, jobs, worker, view, faults>>

-----------------------------------------------------------------------------
(* The end of each operation: `result` is the analysis, NoBundle where the   *)
(* code has null; `failed` stands for an exception.                         *)

IsPreloadStillCurrent(job) == ~page.superseded /\ page.gen = job.gen

\* A faulty variant: a failed preload leaves the loading card.
PreloadEndsInCard(job, result, failed) ==
  IF ~IsPreloadStillCurrent(job) THEN Ignored
  ELSE IF failed THEN Rendered([page EXCEPT !.error = "failed"])
  ELSE Shown([page EXCEPT !.preloading = FALSE, !.source = job.status.source], result, job.gen)

PreloadEnds(job, result, failed) ==
  LET done == [page EXCEPT !.preloading = FALSE]
      loaded == [done EXCEPT !.source = job.status.source, !.pending = job.status.pending]
  IN IF ~IsPreloadStillCurrent(job) THEN Ignored
     ELSE IF failed THEN Rendered([done EXCEPT !.error = "failed"])
     ELSE IF job.status.error
          THEN Rendered([done EXCEPT !.error = "failed", !.source = "none", !.pending = 0])
     ELSE IF result # NoBundle THEN Shown([loaded EXCEPT !.error = "none"], result, job.gen)
     ELSE IF job.status.source = "none" THEN Rendered(loaded)
     ELSE Rendered([loaded EXCEPT !.error = "failed"])

\* Faulty variants: the generation is not compared; the finally block is missing.
LoadEndsAnyway(job, result, failed) ==
  IF failed \/ result = NoBundle
  THEN Rendered([page EXCEPT !.inFlight = FALSE, !.error = "failed"])
  ELSE Shown([page EXCEPT !.inFlight = FALSE, !.superseded = TRUE, !.source = job.status.source,
                          !.pending = 0], result, job.gen)
LoadEndsInFlight(job, result, failed) ==
  IF failed \/ result = NoBundle THEN Rendered([page EXCEPT !.error = "failed"])
  ELSE IF page.gen # job.gen THEN Ignored
  ELSE Shown([page EXCEPT !.inFlight = FALSE, !.superseded = TRUE, !.source = job.status.source,
                          !.pending = 0], result, job.gen)

\* onManagedAnalysisLoaded, then onManagedLoadEnded in the finally block.  The
\* error of a load is reported whether or not the load is still current.
LoadEnds(job, result, failed) ==
  LET current == page.gen = job.gen
      ended == [page EXCEPT !.inFlight = IF current THEN FALSE ELSE @]
  IN IF failed \/ result = NoBundle THEN Rendered([ended EXCEPT !.error = "failed"])
     ELSE IF ~current THEN Ignored
     ELSE Shown([ended EXCEPT !.superseded = TRUE, !.source = job.status.source,
                              !.pending = 0], result, job.gen)

\* When the files of the accepted run cannot be read, the run is offered again.
AcceptEnds(job, result, failed) ==
  LET ended == [page EXCEPT !.accepting = FALSE]
      switched == [ended EXCEPT !.source = job.status.source]
  IN IF page.gen # job.gen THEN Rendered(ended)
     ELSE IF failed THEN Rendered([ended EXCEPT !.error = "failed"])
     ELSE IF result = NoBundle
          THEN Rendered([switched EXCEPT !.error = "retry", !.pending = job.run])
     ELSE Shown([switched EXCEPT !.error = "none", !.pending = job.status.pending],
                result, job.gen)

\* A faulty variant: only a load in flight is considered.
IgnoreReloadInFlight(job) == page.inFlight

ShouldIgnoreReload(job) == page.superseded \/ page.inFlight \/ page.gen # job.gen

ReloadEnds(job, result, failed) ==
  IF ShouldIgnoreReload(job) THEN Ignored
  ELSE IF failed THEN Rendered([page EXCEPT !.error = "failed"])
  ELSE IF result = NoBundle THEN Ignored
  ELSE Shown([page EXCEPT !.error = "none"], result, job.gen)

End(s, job, result, failed) ==
  CASE s = "preload" -> PreloadEnds(job, result, failed)
    [] s = "accept"  -> AcceptEnds(job, result, failed)
    [] s \in Loads   -> LoadEnds(job, result, failed)
    [] OTHER         -> ReloadEnds(job, result, failed)

FinishAs(s, job, result, failed, w) ==
  /\ jobs' = [jobs EXCEPT ![s] = Idle]
  /\ Apply(End(s, job, result, failed), w)

Finish(s, result, failed, w) == FinishAs(s, jobs[s], result, failed, w)

\* The preload ends with the status it got and no bundle.
PreloadWithout(status) ==
  FinishAs("preload", [jobs["preload"] EXCEPT !.status = status], NoBundle, FALSE, worker)

Wait(s, job) ==
  /\ jobs' = [jobs EXCEPT ![s] = job]
  /\ UNCHANGED <<page, poll, worker, view>>

-----------------------------------------------------------------------------
(* Answers of the server.                                                   *)

Fail == faults < MaxFaults /\ faults' = faults + 1

\* Discovery on the server notices a newer remote run.  Only a refresh that
\* succeeds ends the trouble of one that failed; to configure does not.
Refreshed(s) ==
  IF s.source # "remote" THEN s
  ELSE [s EXCEPT !.trouble = "none",
                 !.pending = IF s.newest > s.version.remote THEN s.newest ELSE @]
Unrefreshed(s) == [s EXCEPT !.trouble = "refresh"]
Configured(s, kind) ==
  [s EXCEPT !.source = kind, !.pending = 0, !.version.remote = s.newest,
            !.trouble = IF @ = "refresh" THEN @ ELSE "none"]
Accepted(s, run)    == [s EXCEPT !.version.remote = run, !.pending = 0]

\* loadCurrentManagedArtifacts: nothing to fetch when nothing is configured.
StatusAnswered ==
  /\ jobs["preload"].stage = "ask"
  /\ LET job == [jobs["preload"] EXCEPT !.stage = "fetch", !.status = Status(server)] IN
     IF job.status.source = "none" THEN PreloadWithout(job.status) ELSE Wait("preload", job)
  /\ UNCHANGED <<server, faults>>

\* No answer at all: the legacy files are tried, as those of a live target.
StatusUnreachable ==
  /\ jobs["preload"].stage = "ask" /\ Fail
  /\ Wait("preload", [jobs["preload"] EXCEPT !.stage = "legacy", !.status.source = "preload"])
  /\ UNCHANGED <<server>>

\* loadManagedArtifactsFallback: without the legacy files there is no source,
\* and no error either.
LegacyFails ==
  /\ jobs["preload"].stage = "legacy"
  /\ IF server.source = "none" THEN UNCHANGED faults ELSE Fail
  /\ PreloadWithout(NoStatus)
  /\ UNCHANGED <<server>>

\* 'Artifacts are not ready to load' when the answer names no source.
ConfigureAnswered(l) ==
  /\ jobs[l].stage = "ask"
  /\ server' = Configured(server, jobs[l].kind)
  /\ IF Status(server').source = "none" THEN Finish(l, NoBundle, TRUE, worker)
     ELSE Wait(l, [jobs[l] EXCEPT !.stage = "fetch", !.status = Status(server')])
  /\ UNCHANGED <<faults>>

AcceptAnswered ==
  /\ jobs["accept"].stage = "ask"
  /\ IF server.source = "remote" /\ server.pending = jobs["accept"].run
     THEN /\ server' = Accepted(server, jobs["accept"].run)
          /\ Wait("accept", [jobs["accept"] EXCEPT !.stage = "fetch", !.status = Status(server')])
     ELSE Finish("accept", NoBundle, TRUE, worker) /\ UNCHANGED server
  /\ UNCHANGED <<faults>>

RequestFails(s) ==
  /\ jobs[s].stage = "ask" /\ Fail
  /\ Finish(s, NoBundle, TRUE, worker)
  /\ UNCHANGED <<server>>

\* The files of what the server serves now are fetched and posted to the worker.
FetchFiles(s) ==
  /\ jobs[s].stage \in {"fetch", "legacy"} /\ server.source # "none"
  /\ jobs' = [jobs EXCEPT ![s].stage = "parse"]
  /\ worker' = [worker EXCEPT !.inbox =
                  Append(@, [slot |-> s, live |-> TRUE, bundle |-> Served(server)])]
  /\ UNCHANGED <<server, page, poll, view, faults>>

\* A required file cannot be read: the legacy paths are tried next, then none.
FetchFails(s) ==
  /\ jobs[s].stage = "fetch"
  /\ IF server.source = "none" THEN UNCHANGED faults ELSE Fail
  /\ IF jobs[s].attempt = 1
     THEN Wait(s, [jobs[s] EXCEPT !.attempt = 2])
     ELSE Finish(s, NoBundle, FALSE, worker)
  /\ UNCHANGED <<server>>

PollAnswered ==
  /\ poll = PollSent
  /\ \/ server' = Refreshed(server) /\ UNCHANGED faults
     \/ server.source = "remote" /\ server' = Unrefreshed(server) /\ Fail
  /\ poll' = [state |-> "answered", status |-> Status(server')]
  /\ UNCHANGED <<page, jobs, worker, view>>

\* A pending run is a new object every time, so setting it always renders.
PollApplied ==
  /\ poll.state = "answered"
  /\ LET polled == [page EXCEPT !.pending = poll.status.pending,
                                !.error = IF poll.status.error THEN "failed" ELSE @] IN
     IF poll.status.pending = 0 /\ polled = page THEN poll' = PollOff /\ UNCHANGED page
     ELSE RunPollEffect(polled)
  /\ UNCHANGED <<server, jobs, worker, view, faults>>

PollFails ==
  /\ poll = PollSent /\ Fail
  /\ RunPollEffect([page EXCEPT !.error = "failed"])
  /\ UNCHANGED <<server, jobs, worker, view>>

-----------------------------------------------------------------------------
(* The worker handles a message from start to end; the client resolves the   *)
(* request an answer names and drops an answer nothing waits for.           *)

Reply(msg, ok, cache) ==
  worker' = [inbox |-> Tail(worker.inbox), cache |-> cache,
             outbox |-> Append(worker.outbox,
               [slot |-> msg.slot, live |-> msg.live, ok |-> ok,
                bundle |-> IF ok THEN cache ELSE NoBundle])]

WorkerSearches ==
  /\ worker.inbox # <<>> /\ Searching(Head(worker.inbox))
  /\ Reply(Head(worker.inbox), worker.cache # NoBundle, worker.cache)
  /\ UNCHANGED <<server, page, poll, jobs, view, faults>>

\* A faulty variant: the caches are cleared before the bundle is parsed.
WorkerLoadsAfresh ==
  /\ worker.inbox # <<>> /\ ~Searching(Head(worker.inbox))
  /\ \/ Reply(Head(worker.inbox), TRUE, Head(worker.inbox).bundle) /\ UNCHANGED faults
     \/ Reply(Head(worker.inbox), FALSE, NoBundle) /\ Fail
  /\ UNCHANGED <<server, page, poll, jobs, view>>

\* A bundle that does not parse leaves the cached analysis in place.
WorkerLoads ==
  /\ worker.inbox # <<>> /\ ~Searching(Head(worker.inbox))
  /\ \/ Reply(Head(worker.inbox), TRUE, Head(worker.inbox).bundle) /\ UNCHANGED faults
     \/ Reply(Head(worker.inbox), FALSE, worker.cache) /\ Fail
  /\ UNCHANGED <<server, page, poll, jobs, view>>

Received == [worker EXCEPT !.outbox = Tail(@)]

SearchAnswered ==
  /\ worker.outbox # <<>> /\ Searching(Head(worker.outbox))
  /\ LET msg == Head(worker.outbox) IN
     view' = IF msg.live
             THEN [view EXCEPT !.loading = FALSE, !.hits = msg.bundle] ELSE view
  /\ worker' = Received
  /\ UNCHANGED <<server, page, poll, jobs, faults>>

LoadAnswered ==
  /\ worker.outbox # <<>> /\ ~Searching(Head(worker.outbox))
  /\ LET msg == Head(worker.outbox) IN
     IF msg.live THEN Finish(msg.slot, msg.bundle, ~msg.ok, Received)
     ELSE worker' = Received /\ UNCHANGED <<page, poll, jobs, view>>
  /\ UNCHANGED <<server, faults>>

\* onerror, whenever it fires: every request that waits for the worker is
\* rejected and forgotten.
Forgotten(queue) == [i \in DOMAIN queue |-> [queue[i] EXCEPT !.live = FALSE]]

\* A faulty variant: the pending requests are forgotten but only loads rejected.
WorkerErrorForgetsSearch ==
  /\ Fail
  /\ worker' = [worker EXCEPT !.inbox = Forgotten(@), !.outbox = Forgotten(@)]
  /\ jobs' = [s \in Slots |-> IF jobs[s].stage = "parse"
                              THEN [jobs[s] EXCEPT !.stage = "rejected"] ELSE jobs[s]]
  /\ UNCHANGED <<server, page, poll, view>>

WorkerError ==
  /\ Fail
  /\ worker' = [worker EXCEPT !.inbox = Forgotten(@), !.outbox = Forgotten(@)]
  /\ jobs' = [s \in Slots |-> IF jobs[s].stage = "parse"
                              THEN [jobs[s] EXCEPT !.stage = "rejected"] ELSE jobs[s]]
  /\ view' = [view EXCEPT !.loading = FALSE]
  /\ UNCHANGED <<server, page, poll>>

RejectionHandled(s) ==
  /\ jobs[s].stage = "rejected"
  /\ Finish(s, NoBundle, TRUE, worker)
  /\ UNCHANGED <<server, faults>>

-----------------------------------------------------------------------------
(* The world: dbt, and other tabs of the same server.                       *)

\* The dev server announces a rewritten target; the handler is subscribed
\* while the page shows the preloaded target.
TargetRewritten ==
  /\ server.version.preload < MaxVersion
  /\ server' = [server EXCEPT !.version.preload = @ + 1]
  /\ IF page.source # "preload" THEN UNCHANGED jobs
     ELSE \E r \in Reloads : /\ jobs[r] = Idle
                             /\ jobs' = [jobs EXCEPT ![r] = NewJob("fetch", page.gen)]
  /\ UNCHANGED <<page, poll, worker, view, faults>>

RemoteRunWritten ==
  /\ server.newest < MaxVersion
  /\ server' = [server EXCEPT !.newest = @ + 1]
  /\ UNCHANGED <<page, poll, jobs, worker, view, faults>>

OtherTabAccepts ==
  /\ server.source = "remote" /\ server.pending # 0
  /\ server' = Accepted(server, server.pending)
  /\ UNCHANGED <<page, poll, jobs, worker, view, faults>>

OtherTabPolls ==
  /\ server.source = "remote"
  /\ \/ server' = Refreshed(server) /\ UNCHANGED faults
     \/ server' = Unrefreshed(server) /\ Fail
  /\ UNCHANGED <<page, poll, jobs, worker, view>>

Page ==
  \/ \E l \in Loads, kind \in Sources : StartLoad(l, kind)
  \/ StartAccept \/ TypeQuery \/ PollTimer

Answer(s) ==
  \/ s = "preload" /\ (StatusAnswered \/ LegacyFails)
  \/ s = "accept" /\ AcceptAnswered
  \/ s \in Loads /\ ConfigureAnswered(s)
  \/ FetchFiles(s) \/ FetchFails(s)

Worker == WorkerLoads \/ WorkerSearches
Client == LoadAnswered \/ SearchAnswered
Poll   == PollAnswered \/ PollApplied

Fault ==
  \/ StatusUnreachable \/ PollFails \/ WorkerError
  \/ \E s \in Slots : RequestFails(s)

World == TargetRewritten \/ RemoteRunWritten \/ OtherTabAccepts \/ OtherTabPolls

\* Rejections are handled before the next event.
Rejecting == \E s \in Slots : jobs[s].stage = "rejected"

Next ==
  \/ \E s \in Slots : RejectionHandled(s)
  \/ /\ ~Rejecting
     /\ \/ Page \/ Worker \/ Client \/ Poll \/ Fault \/ World
        \/ \E s \in Slots : Answer(s)

Spec == Init /\ [][Next]_vars

-----------------------------------------------------------------------------
(* Properties.                                                              *)

TypeOK ==
  /\ server \in [source : Sources \cup {"none"}, version : [Sources -> 1..MaxVersion],
                 newest : 1..MaxVersion, pending : 0..MaxVersion, trouble : Troubles]
  /\ page \in [gen : 0..MaxClicks, superseded : BOOLEAN, inFlight : BOOLEAN, shown : Bundles,
               shownBy : 0..MaxClicks, source : Sources \cup {"none"}, pending : 0..MaxVersion,
               accepting : BOOLEAN, error : {"none", "failed", "retry"}, preloading : BOOLEAN]
  /\ poll \in [state : {"off", "sent", "answered"}, status : Statuses]
  /\ jobs \in [Slots -> Job]
  /\ worker \in [inbox : Seq(Message), outbox : Seq(Response), cache : Bundles]
  /\ view \in [query : BOOLEAN, loading : BOOLEAN, hits : Bundles]
  /\ faults \in Nat

\* What the user asked for last wins: an analysis never gives way to that of
\* an operation the user started earlier, in whatever order the answers come
\* (loadGenerationRef).
NewerClickWins == [][page'.shownBy >= page.shownBy]_vars

\* A remote investigation stays on the page until the user loads or accepts
\* another: no poll, late preload or HMR refetch replaces it.
NoAutoSwitch ==
  [][page.source = "remote" /\ page'.shown # page.shown =>
       \E s \in Loads \cup {"accept"} : jobs[s] # Idle /\ jobs'[s] = Idle]_vars

\* managedLoadInFlightRef may be left set by a load that an accept superseded,
\* but never so that it suppresses the reload of a live preloaded target.
ReloadIsNotBlocked ==
  page.source = "preload" /\ ~page.superseded /\ page.inFlight =>
    \E l \in Loads : jobs[l] # Idle /\ jobs[l].gen = page.gen

\* The loading card always has a preload behind it, unless the user started
\* another load in the meantime.
CardIsBacked == page.preloading => jobs["preload"] # Idle \/ page.gen > 0

\* While an analysis is shown the worker has one to search: the omnibox is
\* never refused with 'No analysis loaded'.
ShownIsSearchable == page.shown # NoBundle => worker.cache # NoBundle

\* Whatever waits for the worker has its message on the way, in either
\* direction: no load and no search of the page waits forever, however requests
\* are cancelled, rejected or superseded.
Underway(slot) ==
  \E msg \in Range(worker.inbox) \cup Range(worker.outbox) : msg.slot = slot /\ msg.live

EveryWaitIsAnswered ==
  /\ \A s \in Slots : jobs[s].stage = "parse" => Underway(s)
  /\ view.loading => Underway("search")

\* After an accept whose files could not be read, the run is still offered.
RetryIsOffered == page.error = "retry" => page.pending # 0 \/ page.accepting
=============================================================================
