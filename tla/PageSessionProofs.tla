-------------------------- MODULE PageSessionProofs --------------------------
(***************************************************************************)
(* The safety properties of PageSession as theorems, for any number of      *)
(* overlapping loads and refetches, versions, faults and clicks.            *)
(*                                                                          *)
(* First what receiving and sending a message, and withdrawing a search,    *)
(* do to the queues of the two channels, and the type invariant: TypeOK is  *)
(* not inductive, for AcceptAnswered makes the accepted run the version of  *)
(* the server, which is a run only because StartAccept never asks for run   *)
(* 0.  TypeInv adds that.                                                   *)
(*                                                                          *)
(* The inductive invariant Inv has three parts: TypeInv; ChannelInv, that   *)
(* an operation waits for the worker exactly when one live message is on    *)
(* its way for it, in one of the two channels; PageInv, what the            *)
(* generations and the source of the page say about the operations under    *)
(* way.  FinishKeeps and FinishChannels show that the end of an operation   *)
(* keeps them, CarriesKeeps and ChannelsStay that a step that neither       *)
(* starts nor ends one does; then there is a lemma per group of actions.    *)
(***************************************************************************)
EXTENDS PageSession, TLAPS

LEMMA Kinds ==
    /\ NoBundle \in Bundles /\ NoStatus \in Statuses /\ Idle \in Job
    /\ {"preload", "accept"} \subseteq Slots /\ Loads \subseteq Slots /\ Reloads \subseteq Slots
    /\ "search" \notin Slots
    /\ \A l \in Loads : l \notin {"preload", "accept"}
BY PageAssumption DEF NoBundle, Bundles, NoStatus, Statuses, Idle, Job, Stages, Slots, Sources

LEMMA WithoutSearchKeeps ==
    ASSUME NEW S, NEW queue \in Seq(S)
    PROVE  /\ WithoutSearch(queue) \in Seq(S)
           /\ \A i \in DOMAIN WithoutSearch(queue) :
                 \E j \in DOMAIN queue : WithoutSearch(queue)[i] = queue[j]
<1> DEFINE searches == {i \in DOMAIN queue : Searching(queue[i])}
           found == CHOOSE i \in searches : TRUE
           rest == [i \in 1 .. Len(queue) - 1 |-> IF i < found THEN queue[i] ELSE queue[i + 1]]
<1>1. CASE searches = {}
  BY <1>1 DEF WithoutSearch
<1>2. CASE searches # {}
  <2>1. found \in DOMAIN queue
    BY <1>2
  <2>2. WithoutSearch(queue) = rest
    BY <1>2 DEF WithoutSearch
  <2> HIDE DEF found
  <2>3. \A i \in 1 .. Len(queue) - 1 :
           i \in DOMAIN queue /\ i + 1 \in DOMAIN queue /\ queue[i] \in S /\ queue[i + 1] \in S
    OBVIOUS
  <2>4. Len(queue) - 1 \in Nat
    BY <2>1
  <2>5. rest \in Seq(S)
    BY <2>3, <2>4
  <2>6. DOMAIN rest = 1 .. Len(queue) - 1
    OBVIOUS
  <2> QED  BY <2>2, <2>3, <2>5, <2>6
<1> QED  BY <1>1, <1>2

\* The page's part of TypeOK.
PageType == [gen : 0..MaxClicks, superseded : BOOLEAN, inFlight : BOOLEAN, shown : Bundles,
             shownBy : 0..MaxClicks, source : Sources \cup {"none"}, pending : 0..MaxVersion,
             accepting : BOOLEAN, error : {"none", "failed", "retry"}, preloading : BOOLEAN]
ViewType == [query : BOOLEAN, loading : BOOLEAN, hits : Bundles]
WorkerType == [inbox : Seq(Message), outbox : Seq(Response), cache : Bundles]

PollType == [state : {"off", "sent", "answered"}, status : Statuses]

PageTypeOK ==
    /\ page \in PageType /\ poll \in PollType /\ jobs \in [Slots -> Job]
    /\ worker \in WorkerType /\ view \in ViewType

LEMMA PollEffectType ==
    ASSUME NEW p \in PageType, RunPollEffect(p)
    PROVE  page' \in PageType /\ poll' \in PollType
BY Kinds, PageAssumption DEF RunPollEffect, PageType, PollType, PollSent, PollOff

LEMMA SearchEffectType ==
    ASSUME NEW shown \in Bundles, NEW query \in BOOLEAN, NEW w \in WorkerType,
           RunSearchEffect(shown, query, w)
    PROVE  view' \in ViewType /\ worker' \in WorkerType
<1> DEFINE question == [slot |-> "search", live |-> TRUE, bundle |-> NoBundle]
           inbox == WithoutSearch(w.inbox)
<1>1. question \in Message
  BY Kinds DEF Message
<1>2. inbox \in Seq(Message) /\ WithoutSearch(w.outbox) \in Seq(Response)
  BY WithoutSearchKeeps DEF WorkerType
<1> HIDE DEF question, inbox
<1>3. Append(inbox, question) \in Seq(Message)
  BY <1>1, <1>2
<1> QED
  BY <1>2, <1>3, Kinds DEF RunSearchEffect, inbox, question, WorkerType, ViewType

IsOutcome(o) == o.page \in PageType /\ o.effects \in SUBSET {"poll", "search"}

LEMMA OutcomeTypes ==
    ASSUME page \in PageType
    PROVE  /\ IsOutcome(Ignored)
           /\ \A p \in PageType : IsOutcome(Rendered(p))
           /\ \A p \in PageType, bundle \in Bundles, gen \in 0 .. MaxClicks :
                 IsOutcome(Shown(p, bundle, gen))
BY DEF IsOutcome, Ignored, Rendered, Shown, PageType

\* What an operation ends as: itself, or the preload with another status.
EndsAs(s, job) == job \in Job /\ job.gen = jobs[s].gen /\ (s # "preload" => job = jobs[s])

LEMMA FinishIsAs ==
    ASSUME jobs \in [Slots -> Job], NEW s \in Slots, NEW result, NEW failed, NEW w,
           Finish(s, result, failed, w)
    PROVE  EndsAs(s, jobs[s]) /\ FinishAs(s, jobs[s], result, failed, w)
BY DEF Finish, EndsAs

LEMMA PreloadIsAs ==
    ASSUME jobs \in [Slots -> Job], NEW status \in Statuses, PreloadWithout(status)
    PROVE  \E job : EndsAs("preload", job)
                     /\ FinishAs("preload", job, NoBundle, FALSE, worker)
<1> DEFINE job == [jobs["preload"] EXCEPT !.status = status]
<1>1. EndsAs("preload", job)
  BY Kinds DEF EndsAs, Job
<1> QED  BY <1>1 DEF PreloadWithout

LEMMA EndType ==
    ASSUME page \in PageType, NEW job \in Job, NEW result \in Bundles,
           NEW failed \in BOOLEAN
    PROVE  /\ IsOutcome(PreloadEnds(job, result, failed))
           /\ IsOutcome(LoadEnds(job, result, failed))
           /\ IsOutcome(AcceptEnds(job, result, failed))
           /\ IsOutcome(ReloadEnds(job, result, failed))
<1> USE OutcomeTypes
<1>0. /\ job.gen \in 0 .. MaxClicks /\ job.run \in 0 .. MaxVersion
      /\ job.status.source \in Sources \cup {"none"} /\ job.status.pending \in 0 .. MaxVersion
      /\ job.status.error \in BOOLEAN
  BY DEF Job, Statuses
<1>1. IsOutcome(PreloadEnds(job, result, failed))
  <2> DEFINE done == [page EXCEPT !.preloading = FALSE]
             loaded == [done EXCEPT !.source = job.status.source, !.pending = job.status.pending]
  <2>1. /\ done \in PageType /\ loaded \in PageType
        /\ [done EXCEPT !.error = "failed"] \in PageType
        /\ [loaded EXCEPT !.error = "failed"] \in PageType
        /\ [loaded EXCEPT !.error = "none"] \in PageType
    BY <1>0 DEF PageType
  <2>2. 0 \in 0 .. MaxVersion
    BY PageAssumption
  <2>3. [done EXCEPT !.error = "failed", !.source = "none", !.pending = 0] \in PageType
    <3> HIDE DEF done
    <3> QED  BY <2>1, <2>2 DEF PageType
  <2> QED  BY <1>0, <2>1, <2>3 DEF PreloadEnds
<1>2. IsOutcome(LoadEnds(job, result, failed))
  <2> DEFINE flag == IF page.gen = job.gen THEN FALSE ELSE page.inFlight
             ended == [page EXCEPT !.inFlight = flag]
  <2>0. flag \in BOOLEAN
    BY DEF PageType
  <2> HIDE DEF flag
  <2>1. ended \in PageType
    BY <2>0 DEF PageType
  <2> HIDE DEF ended
  <2>2. [ended EXCEPT !.error = "failed"] \in PageType
    BY <2>1 DEF PageType
  <2>3. 0 \in 0 .. MaxVersion
    BY PageAssumption
  <2>4. [ended EXCEPT !.superseded = TRUE, !.source = job.status.source, !.pending = 0]
           \in PageType
    BY <1>0, <2>1, <2>3 DEF PageType
  <2> QED  BY <1>0, <2>2, <2>4 DEF LoadEnds, flag, ended
<1>3. IsOutcome(AcceptEnds(job, result, failed))
  <2> DEFINE ended == [page EXCEPT !.accepting = FALSE]
             switched == [ended EXCEPT !.source = job.status.source]
  <2>1. ended \in PageType /\ switched \in PageType
    BY <1>0 DEF PageType
  <2>2. /\ [ended EXCEPT !.error = "failed"] \in PageType
        /\ [switched EXCEPT !.error = "retry", !.pending = job.run] \in PageType
        /\ [switched EXCEPT !.error = "none", !.pending = job.status.pending] \in PageType
    BY <1>0, <2>1 DEF PageType
  <2> QED  BY <1>0, <2>1, <2>2 DEF AcceptEnds
<1>4. IsOutcome(ReloadEnds(job, result, failed))
  <2>1. /\ [page EXCEPT !.error = "failed"] \in PageType
        /\ [page EXCEPT !.error = "none"] \in PageType
    BY DEF PageType
  <2> QED  BY <1>0, <2>1 DEF ReloadEnds
<1> QED BY <1>1, <1>2, <1>3, <1>4

LEMMA FinishType ==
    ASSUME TypeOK, NEW s \in Slots, NEW job \in Job, NEW result \in Bundles,
           NEW failed \in BOOLEAN, NEW w \in WorkerType, FinishAs(s, job, result, failed, w)
    PROVE  PageTypeOK'
<1> DEFINE outcome == End(s, job, result, failed)
<1>1. jobs \in [Slots -> Job] /\ page \in PageType /\ view \in ViewType /\ poll \in PollType
  BY DEF TypeOK, PageType, ViewType, PollType
<1>2. IsOutcome(outcome)
  BY <1>1, EndType DEF End
<1>3. jobs' \in [Slots -> Job] /\ Apply(outcome, w)
  BY <1>1, Kinds DEF FinishAs
<1> HIDE DEF outcome
<1>4. page' \in PageType /\ poll' \in PollType
  <2>1. CASE RunPollEffect(outcome.page)
    BY <1>2, <2>1, PollEffectType DEF IsOutcome
  <2> QED  BY <1>1, <1>3, <2>1 DEF Apply
<1>5. view' \in ViewType /\ worker' \in WorkerType
  <2>1. CASE RunSearchEffect(outcome.page.shown, view.query, w)
    BY <1>1, <1>2, <2>1, SearchEffectType DEF IsOutcome, PageType, ViewType
  <2> QED  BY <1>1, <1>3, <2>1 DEF Apply
<1> QED  BY <1>3, <1>4, <1>5 DEF PageTypeOK

ServerType == [source : Sources \cup {"none"}, version : [Sources -> 1..MaxVersion],
               newest : 1..MaxVersion, pending : 0..MaxVersion, trouble : Troubles]

LEMMA TypeParts == TypeOK <=> PageTypeOK /\ server \in ServerType /\ faults \in Nat
BY DEF TypeOK, PageTypeOK, PageType, ViewType, PollType, WorkerType, ServerType

LEMMA NextTypeParts == (PageTypeOK /\ server \in ServerType /\ faults \in Nat)' => TypeOK'
BY DEF TypeOK, PageTypeOK, PageType, ViewType, PollType, WorkerType, ServerType

LEMMA ServedType ==
    ASSUME NEW s \in ServerType PROVE Served(s) \in Bundles /\ Status(s) \in Statuses
BY DEF Served, Status, ServerType, Bundles, Statuses, Sources

LEMMA ServerTypes ==
    ASSUME NEW s \in ServerType
    PROVE  /\ Refreshed(s) \in ServerType /\ Unrefreshed(s) \in ServerType
           /\ \A kind \in Sources \cup {"none"} : Configured(s, kind) \in ServerType
           /\ \A run \in 1 .. MaxVersion : Accepted(s, run) \in ServerType
<1>1. \A n \in 1 .. MaxVersion : [s.version EXCEPT !["remote"] = n] \in [Sources -> 1 .. MaxVersion]
  BY DEF ServerType, Sources
<1>2. s \in ServerType /\ s.newest \in 0 .. MaxVersion /\ 0 \in 0 .. MaxVersion
  BY PageAssumption DEF ServerType
<1>3. Refreshed(s) \in ServerType /\ Unrefreshed(s) \in ServerType
  <2>1. [s EXCEPT !.trouble = "none"] \in ServerType /\ Unrefreshed(s) \in ServerType
    BY <1>2 DEF Unrefreshed, ServerType, Troubles
  <2> DEFINE found == IF s.newest > s.version.remote THEN s.newest ELSE s.pending
  <2>2. found \in 0 .. MaxVersion
    BY <1>2 DEF ServerType
  <2> HIDE DEF found
  <2>3. [s EXCEPT !.trouble = "none", !.pending = found] \in ServerType
    BY <1>2, <2>2 DEF ServerType, Troubles
  <2> QED  BY <1>2, <2>1, <2>3 DEF Refreshed, found
<1>4. \A kind \in Sources \cup {"none"} : Configured(s, kind) \in ServerType
  <2> DEFINE trouble == IF s.trouble = "refresh" THEN s.trouble ELSE "none"
  <2>1. trouble \in Troubles
    BY DEF Troubles
  <2> HIDE DEF trouble
  <2>2. \A kind \in Sources \cup {"none"} :
           [s EXCEPT !.source = kind, !.pending = 0, !.version.remote = s.newest,
                     !.trouble = trouble] \in ServerType
    BY <1>1, <1>2, <2>1 DEF ServerType
  <2> QED  BY <2>2 DEF Configured, trouble
<1>5. \A run \in 1 .. MaxVersion : Accepted(s, run) \in ServerType
  BY <1>1, <1>2 DEF Accepted, ServerType
<1> QED  BY <1>3, <1>4, <1>5

LEMMA WaitType ==
    ASSUME TypeOK, NEW s \in Slots, NEW job \in Job, Wait(s, job)
    PROVE  PageTypeOK'
BY DEF Wait, TypeOK, PageTypeOK, PageType, ViewType, PollType, WorkerType

LEMMA FailType == ASSUME faults \in Nat, Fail PROVE faults' \in Nat
BY DEF Fail

-----------------------------------------------------------------------------
(* The steps. *)

\* A run that is accepted is there.
TypeInv == TypeOK /\ (jobs["accept"].stage = "ask" => jobs["accept"].run # 0)

LEMMA PageStepType ==
    ASSUME TypeInv, Page
    PROVE  TypeInv'
<1>1. TypeOK /\ page \in PageType /\ jobs \in [Slots -> Job] /\ server \in ServerType
  BY TypeParts DEF TypeInv, PageTypeOK
<1>2. ASSUME NEW l \in Loads, NEW kind \in Sources, StartLoad(l, kind)
      PROVE  TypeInv'
  <2>1. page.gen + 1 \in 0 .. MaxClicks
    BY <1>1, <1>2, PageAssumption DEF StartLoad, PageType
  <2>2. [NewJob("ask", page.gen + 1) EXCEPT !.kind = kind] \in Job
    BY <2>1, Kinds DEF NewJob, Job, Stages
  <2>3. [page EXCEPT !.gen = @ + 1, !.inFlight = TRUE, !.error = "none"] \in PageType
    BY <1>1, <2>1 DEF PageType
  <2>4. page' \in PageType /\ poll' \in PollType
    BY <1>2, <2>3, PollEffectType DEF StartLoad
  <2>5. jobs' \in [Slots -> Job] /\ jobs'["accept"] = jobs["accept"]
    BY <1>1, <1>2, <2>2, Kinds DEF StartLoad
  <2> QED  BY <1>2, <2>4, <2>5, TypeParts, NextTypeParts DEF StartLoad, TypeInv, PageTypeOK
<1>3. CASE StartAccept
  <2>1. page.gen + 1 \in 0 .. MaxClicks
    BY <1>1, <1>3, PageAssumption DEF StartAccept, PageType
  <2> DEFINE job == [NewJob("ask", page.gen + 1) EXCEPT !.run = page.pending]
  <2>2. job \in Job /\ job.run # 0
    BY <1>1, <1>3, <2>1, Kinds DEF StartAccept, NewJob, Job, Stages, PageType
  <2>3. [page EXCEPT !.gen = @ + 1, !.accepting = TRUE] \in PageType
    BY <1>1, <2>1 DEF PageType
  <2>4. page' \in PageType /\ poll' \in PollType
    BY <1>3, <2>3, PollEffectType DEF StartAccept
  <2>5. jobs' = [jobs EXCEPT !["accept"] = job]
    BY <1>3 DEF StartAccept
  <2> HIDE DEF job
  <2>6. jobs' \in [Slots -> Job] /\ jobs'["accept"] = job
    BY <1>1, <2>2, <2>5, Kinds
  <2> QED  BY <1>3, <2>2, <2>4, <2>6, TypeParts, NextTypeParts DEF StartAccept, TypeInv, PageTypeOK
<1>4. CASE TypeQuery
  <2>1. page' \in PageType /\ poll' \in PollType
    BY <1>1, <1>4, PollEffectType DEF TypeQuery
  <2>2. page.shown \in Bundles /\ worker \in WorkerType
    BY <1>1, TypeParts DEF PageType, PageTypeOK
  <2>3. (~view.query) \in BOOLEAN
    OBVIOUS
  <2>4. view' \in ViewType /\ worker' \in WorkerType
    BY <1>4, <2>2, <2>3, SearchEffectType DEF TypeQuery
  <2> QED  BY <1>1, <1>4, <2>1, <2>4, TypeParts, NextTypeParts DEF TypeQuery, TypeInv, PageTypeOK
<1>5. CASE PollTimer
  <2>1. PollSent \in PollType
    BY Kinds DEF PollSent, PollType
  <2> QED  BY <1>1, <1>5, <2>1, TypeParts, NextTypeParts DEF PollTimer, TypeInv, PageTypeOK
<1> QED  BY <1>2, <1>3, <1>4, <1>5 DEF Page

\* An operation that ends or that waits for its next answer.
LEMMA FinishAsStepType ==
    ASSUME TypeInv, NEW s \in Slots, NEW job \in Job, NEW result \in Bundles,
           NEW failed \in BOOLEAN, NEW w \in WorkerType, FinishAs(s, job, result, failed, w),
           server' \in ServerType, faults' \in Nat
    PROVE  TypeInv'
<1>1. PageTypeOK'
  BY FinishType DEF TypeInv
<1>2. jobs'["accept"] \in {jobs["accept"], Idle}
  BY Kinds DEF TypeInv, TypeOK, FinishAs
<1> QED  BY <1>1, <1>2, TypeParts, NextTypeParts DEF TypeInv, Idle

LEMMA FinishStepType ==
    ASSUME TypeInv, NEW s \in Slots, NEW result \in Bundles, NEW failed \in BOOLEAN,
           NEW w \in WorkerType, Finish(s, result, failed, w),
           server' \in ServerType, faults' \in Nat
    PROVE  TypeInv'
<1>1. jobs[s] \in Job
  BY DEF TypeInv, TypeOK
<1> QED  BY <1>1, FinishAsStepType DEF Finish

LEMMA PreloadStepType ==
    ASSUME TypeInv, NEW status \in Statuses, PreloadWithout(status),
           server' \in ServerType, faults' \in Nat
    PROVE  TypeInv'
<1>1. jobs \in [Slots -> Job] /\ worker \in WorkerType
  BY TypeParts DEF TypeInv, PageTypeOK
<1>2. PICK job : EndsAs("preload", job) /\ FinishAs("preload", job, NoBundle, FALSE, worker)
  BY <1>1, PreloadIsAs
<1> QED  BY <1>1, <1>2, Kinds, FinishAsStepType DEF EndsAs

LEMMA WaitStepType ==
    ASSUME TypeInv, NEW s \in Slots, NEW job \in Job, Wait(s, job), job.stage # "ask",
           server' \in ServerType, faults' \in Nat
    PROVE  TypeInv'
<1>1. PageTypeOK'
  BY WaitType DEF TypeInv
<1>2. jobs'["accept"] \in {jobs["accept"], job}
  BY Kinds DEF TypeInv, TypeOK, Wait
<1> QED  BY <1>1, <1>2, TypeParts, NextTypeParts DEF TypeInv

LEMMA AnswerStepType ==
    ASSUME TypeInv, NEW s \in Slots, Answer(s)
    PROVE  TypeInv'
<1>1. /\ TypeOK /\ page \in PageType /\ jobs \in [Slots -> Job] /\ server \in ServerType
      /\ worker \in WorkerType /\ faults \in Nat
  BY TypeParts DEF TypeInv, PageTypeOK
<1>2. "preload" \in Slots /\ "accept" \in Slots /\ NoBundle \in Bundles
  BY Kinds
<1>3. CASE StatusAnswered
  <2>1. server' \in ServerType /\ faults' \in Nat
    BY <1>1, <1>3 DEF StatusAnswered
  <2>2. CASE PreloadWithout(Status(server))
    BY <1>1, <2>1, <2>2, ServedType, PreloadStepType
  <2> DEFINE job == [jobs["preload"] EXCEPT !.stage = "fetch", !.status = Status(server)]
  <2>3. CASE Wait("preload", job)
    <3>1. job \in Job /\ job.stage # "ask"
      BY <1>1, <1>2, ServedType DEF Job, Stages
    <3> QED  BY <1>2, <2>1, <2>3, <3>1, WaitStepType
  <2>4. job.status = Status(server)
    BY <1>1, <1>2 DEF Job
  <2> QED  BY <1>3, <2>2, <2>3, <2>4 DEF StatusAnswered
<1>8. CASE LegacyFails
  <2>1. server' \in ServerType /\ faults' \in Nat /\ PreloadWithout(NoStatus)
    BY <1>1, <1>8, FailType DEF LegacyFails
  <2> QED  BY <2>1, Kinds, PreloadStepType
<1>4. CASE AcceptAnswered
  <2>1. CASE server.source = "remote" /\ server.pending = jobs["accept"].run
    <3> DEFINE job == [jobs["accept"] EXCEPT !.stage = "fetch", !.status = Status(server')]
    <3>1. jobs["accept"].run \in 1 .. MaxVersion
      BY <1>1, <1>2, <1>4, PageAssumption DEF AcceptAnswered, TypeInv, Job
    <3>2. server' \in ServerType /\ faults' \in Nat
      BY <1>1, <1>4, <2>1, <3>1, ServerTypes DEF AcceptAnswered
    <3>3. job \in Job /\ job.stage # "ask"
      BY <1>1, <1>2, <3>2, ServedType DEF Job, Stages
    <3>4. Wait("accept", job)
      BY <1>4, <2>1 DEF AcceptAnswered
    <3> QED  BY <1>2, <3>2, <3>3, <3>4, WaitStepType
  <2>2. CASE ~(server.source = "remote" /\ server.pending = jobs["accept"].run)
    <3>1. server' \in ServerType /\ faults' \in Nat /\ Finish("accept", NoBundle, TRUE, worker)
      BY <1>1, <1>4, <2>2 DEF AcceptAnswered
    <3> QED  BY <1>1, <1>2, <3>1, FinishStepType
  <2> QED  BY <2>1, <2>2
<1>5. CASE s \in Loads /\ ConfigureAnswered(s)
  <2> DEFINE job == [jobs[s] EXCEPT !.stage = "fetch", !.status = Status(server')]
  <2>1. jobs[s].kind \in Sources \cup {"none"}
    BY <1>1 DEF Job
  <2>2. server' \in ServerType /\ faults' \in Nat
    BY <1>1, <1>5, <2>1, ServerTypes DEF ConfigureAnswered
  <2>3. job \in Job /\ job.stage # "ask"
    BY <1>1, <2>2, ServedType DEF Job, Stages
  <2> QED  BY <1>1, <1>2, <1>5, <2>2, <2>3, WaitStepType, FinishStepType DEF ConfigureAnswered
<1>6. CASE FetchFiles(s)
  <2> DEFINE msg == [slot |-> s, live |-> TRUE, bundle |-> Served(server)]
  <2>1. msg \in Message
    BY <1>1, ServedType DEF Message
  <2> HIDE DEF msg
  <2>2. Append(worker.inbox, msg) \in Seq(Message)
    BY <1>1, <2>1 DEF WorkerType
  <2>3. worker' \in WorkerType
    BY <1>1, <1>6, <2>2 DEF FetchFiles, WorkerType, msg
  <2>4. jobs' \in [Slots -> Job] /\ jobs'["accept"].stage \in {jobs["accept"].stage, "parse"}
        /\ (jobs'["accept"].run = jobs["accept"].run)
    BY <1>1, <1>2, <1>6 DEF FetchFiles, Job, Stages
  <2> QED  BY <1>1, <1>6, <2>3, <2>4, TypeParts, NextTypeParts DEF FetchFiles, TypeInv, PageTypeOK
<1>7. CASE FetchFails(s)
  <2>1. server' \in ServerType /\ faults' \in Nat
    BY <1>1, <1>7, FailType DEF FetchFails
  <2>2. CASE Wait(s, [jobs[s] EXCEPT !.attempt = 2])
    <3> DEFINE job == [jobs[s] EXCEPT !.attempt = 2]
    <3>1. job \in Job /\ job.stage # "ask"
      BY <1>1, <1>7 DEF FetchFails, Job
    <3> QED  BY <2>1, <2>2, <3>1, WaitStepType
  <2>3. CASE Finish(s, NoBundle, FALSE, worker)
    BY <1>1, <1>2, <2>1, <2>3, FinishStepType
  <2> QED  BY <1>7, <2>2, <2>3 DEF FetchFails
<1> QED  BY <1>3, <1>4, <1>5, <1>6, <1>7, <1>8 DEF Answer

LEMMA PollStepType ==
    ASSUME TypeInv, Poll \/ PollFails
    PROVE  TypeInv'
<1>1. /\ TypeOK /\ page \in PageType /\ server \in ServerType /\ poll \in PollType
      /\ faults \in Nat
  BY TypeParts DEF TypeInv, PageTypeOK
<1>2. CASE PollAnswered
  <2>1. server' \in ServerType /\ Status(server') \in Statuses
    BY <1>1, <1>2, ServerTypes, ServedType DEF PollAnswered
  <2>2. poll' \in PollType /\ faults' \in Nat
    BY <1>1, <1>2, <2>1, FailType DEF PollAnswered, PollType
  <2> QED  BY <1>1, <1>2, <2>1, <2>2, TypeParts, NextTypeParts DEF PollAnswered, TypeInv, PageTypeOK
<1>3. CASE PollApplied
  <2> DEFINE error == IF poll.status.error THEN "failed" ELSE page.error
  <2>0. error \in {"none", "failed", "retry"}
    BY <1>1 DEF PageType
  <2> HIDE DEF error
  <2>1. [page EXCEPT !.pending = poll.status.pending, !.error = error] \in PageType
    BY <1>1, <2>0 DEF PageType, PollType, Statuses
  <2>2. PollOff \in PollType
    BY Kinds DEF PollOff, PollType
  <2>3. page' \in PageType /\ poll' \in PollType
    BY <1>1, <1>3, <2>1, <2>2, PollEffectType DEF PollApplied, error
  <2> QED  BY <1>1, <1>3, <2>3, TypeParts, NextTypeParts DEF PollApplied, TypeInv, PageTypeOK
<1>4. CASE PollFails
  <2>1. [page EXCEPT !.error = "failed"] \in PageType
    BY <1>1 DEF PageType
  <2>2. page' \in PageType /\ poll' \in PollType /\ faults' \in Nat
    BY <1>1, <1>4, <2>1, PollEffectType, FailType DEF PollFails
  <2> QED  BY <1>1, <1>4, <2>2, TypeParts, NextTypeParts DEF PollFails, TypeInv, PageTypeOK
<1> QED  BY <1>2, <1>3, <1>4 DEF Poll

LEMMA QueueTypes ==
    ASSUME NEW S, NEW queue \in Seq(S), queue # <<>>
    PROVE  Head(queue) \in S /\ Tail(queue) \in Seq(S)
OBVIOUS

LEMMA ForgottenType ==
    /\ \A queue \in Seq(Message) : Forgotten(queue) \in Seq(Message)
    /\ \A queue \in Seq(Response) : Forgotten(queue) \in Seq(Response)
<1>1. ASSUME NEW queue \in Seq(Message) PROVE Forgotten(queue) \in Seq(Message)
  <2>1. DOMAIN queue = 1 .. Len(queue) /\ Len(queue) \in Nat
    OBVIOUS
  <2>2. \A i \in 1 .. Len(queue) : queue[i] \in Message
    OBVIOUS
  <2>3. \A msg \in Message : [msg EXCEPT !.live = FALSE] \in Message
    BY DEF Message
  <2>4. \A i \in 1 .. Len(queue) : [queue[i] EXCEPT !.live = FALSE] \in Message
    BY <2>2, <2>3
  <2>5. Forgotten(queue) = [i \in 1 .. Len(queue) |-> [queue[i] EXCEPT !.live = FALSE]]
    BY <2>1, Zenon DEF Forgotten
  <2> HIDE DEF Forgotten
  <2> DEFINE f(i) == [queue[i] EXCEPT !.live = FALSE]
  <2>6. \A i \in 1 .. Len(queue) : f(i) \in Message
    BY <2>4
  <2> HIDE DEF f
  <2>7. [i \in 1 .. Len(queue) |-> f(i)] \in Seq(Message)
    BY <2>1, <2>6
  <2> QED  BY <2>5, <2>7, Zenon DEF f
<1>2. ASSUME NEW queue \in Seq(Response) PROVE Forgotten(queue) \in Seq(Response)
  <2>1. DOMAIN queue = 1 .. Len(queue) /\ Len(queue) \in Nat
    OBVIOUS
  <2>2. \A i \in 1 .. Len(queue) : queue[i] \in Response
    OBVIOUS
  <2>3. \A msg \in Response : [msg EXCEPT !.live = FALSE] \in Response
    BY DEF Response
  <2>4. \A i \in 1 .. Len(queue) : [queue[i] EXCEPT !.live = FALSE] \in Response
    BY <2>2, <2>3
  <2>5. Forgotten(queue) = [i \in 1 .. Len(queue) |-> [queue[i] EXCEPT !.live = FALSE]]
    BY <2>1, Zenon DEF Forgotten
  <2> HIDE DEF Forgotten
  <2> DEFINE f(i) == [queue[i] EXCEPT !.live = FALSE]
  <2>6. \A i \in 1 .. Len(queue) : f(i) \in Response
    BY <2>4
  <2> HIDE DEF f
  <2>7. [i \in 1 .. Len(queue) |-> f(i)] \in Seq(Response)
    BY <2>1, <2>6
  <2> QED  BY <2>5, <2>7, Zenon DEF f
<1> QED  BY <1>1, <1>2

LEMMA WorkerStepType ==
    ASSUME TypeInv, Worker
    PROVE  TypeInv'
<1>1. TypeOK /\ worker \in WorkerType /\ faults \in Nat
  BY TypeParts DEF TypeInv, PageTypeOK
<1>2. ASSUME NEW ok \in BOOLEAN, NEW cache \in Bundles, Reply(Head(worker.inbox), ok, cache),
             worker.inbox # <<>>
      PROVE  worker' \in WorkerType
  <2> DEFINE msg == Head(worker.inbox)
             answer == [slot |-> msg.slot, live |-> msg.live, ok |-> ok,
                        bundle |-> IF ok THEN cache ELSE NoBundle]
  <2>1. msg \in Message /\ Tail(worker.inbox) \in Seq(Message)
    BY <1>1, <1>2, QueueTypes DEF WorkerType
  <2> HIDE DEF msg
  <2>2. answer \in Response
    BY <2>1, Kinds DEF Message, Response
  <2> HIDE DEF answer
  <2>3. Append(worker.outbox, answer) \in Seq(Response)
    BY <1>1, <2>2 DEF WorkerType
  <2> QED  BY <1>2, <2>1, <2>3 DEF Reply, WorkerType, answer, msg
<1>3. CASE WorkerSearches
  <2>1. (worker.cache # NoBundle) \in BOOLEAN /\ worker.cache \in Bundles
    BY <1>1 DEF WorkerType
  <2>2. worker' \in WorkerType
    BY <1>2, <1>3, <2>1 DEF WorkerSearches
  <2> QED  BY <1>1, <1>3, <2>2, TypeParts, NextTypeParts DEF WorkerSearches, TypeInv, PageTypeOK
<1>4. CASE WorkerLoads
  <2>0. worker.inbox # <<>> /\ worker.inbox \in Seq(Message) /\ worker.cache \in Bundles
    BY <1>1, <1>4 DEF WorkerLoads, WorkerType
  <2>1. Head(worker.inbox) \in Message
    BY <2>0, QueueTypes
  <2>5. Head(worker.inbox).bundle \in Bundles
    BY <2>1 DEF Message
  <2>2. worker' \in WorkerType
    BY <1>2, <1>4, <2>0, <2>5 DEF WorkerLoads
  <2>3. faults' \in Nat
    BY <1>1, <1>4, FailType DEF WorkerLoads
  <2> QED  BY <1>1, <1>4, <2>2, <2>3, TypeParts, NextTypeParts DEF WorkerLoads, TypeInv, PageTypeOK
<1> QED  BY <1>3, <1>4 DEF Worker

LEMMA ClientStepType ==
    ASSUME TypeInv, Client
    PROVE  TypeInv'
<1>1. /\ TypeOK /\ worker \in WorkerType /\ view \in ViewType /\ faults \in Nat
      /\ server \in ServerType
  BY TypeParts DEF TypeInv, PageTypeOK
<1> DEFINE msg == Head(worker.outbox)
<1>2. worker.outbox # <<>>
  BY DEF Client, LoadAnswered, SearchAnswered
<1>3. msg \in Response /\ Tail(worker.outbox) \in Seq(Response)
  BY <1>1, <1>2, QueueTypes DEF WorkerType
<1> HIDE DEF msg
<1>4. Received \in WorkerType
  BY <1>1, <1>3 DEF Received, WorkerType
<1>5. CASE SearchAnswered
  <2>1. view' \in ViewType
    BY <1>1, <1>3, <1>5 DEF SearchAnswered, ViewType, Response, msg
  <2>2. worker' \in WorkerType
    BY <1>4, <1>5 DEF SearchAnswered
  <2> QED  BY <1>1, <1>5, <2>1, <2>2, TypeParts, NextTypeParts DEF SearchAnswered, TypeInv, PageTypeOK
<1>6. CASE LoadAnswered
  <2>1. msg.slot \in Slots /\ msg.bundle \in Bundles
    BY <1>3, <1>6 DEF LoadAnswered, Searching, Response, msg
  <2>2. (~msg.ok) \in BOOLEAN
    OBVIOUS
  <2>3. CASE msg.live
    <3>1. Finish(msg.slot, msg.bundle, ~msg.ok, Received)
      BY <1>6, <2>3 DEF LoadAnswered, msg
    <3>2. UNCHANGED <<server, faults>>
      BY <1>6 DEF LoadAnswered
    <3> QED  BY <1>1, <1>4, <2>1, <2>2, <3>1, <3>2, FinishStepType
  <2>4. CASE ~msg.live
    <3>1. worker' = Received /\ UNCHANGED <<page, poll, jobs, view, server, faults>>
      BY <1>6, <2>4 DEF LoadAnswered, msg
    <3> QED  BY <1>1, <1>4, <3>1, TypeParts, NextTypeParts DEF TypeInv, PageTypeOK
  <2> QED  BY <2>3, <2>4
<1> QED  BY <1>5, <1>6 DEF Client

LEMMA NextType == TypeInv /\ [Next]_vars => TypeInv'
<1> SUFFICES ASSUME TypeInv, [Next]_vars PROVE TypeInv'
  OBVIOUS
<1>1. /\ TypeOK /\ page \in PageType /\ worker \in WorkerType /\ view \in ViewType
      /\ jobs \in [Slots -> Job] /\ server \in ServerType /\ faults \in Nat
  BY TypeParts DEF TypeInv, PageTypeOK
<1>2. ASSUME NEW s \in Slots, RejectionHandled(s) PROVE TypeInv'
  BY <1>1, <1>2, Kinds, FinishStepType DEF RejectionHandled
<1>3. ASSUME NEW s \in Slots, RequestFails(s) PROVE TypeInv'
  BY <1>1, <1>3, Kinds, FinishStepType, FailType DEF RequestFails
<1>4. CASE StatusUnreachable
  <2> DEFINE old == jobs["preload"]
             legacy == [old.status EXCEPT !.source = "preload"]
             job == [old EXCEPT !.stage = "legacy", !.status = legacy]
  <2>0. old \in Job
    BY <1>1, Kinds
  <2>1. job \in Job /\ job.stage # "ask"
    <3> HIDE DEF old
    <3>1. legacy \in Statuses
      BY <2>0 DEF Job, Statuses, Sources
    <3> DEFINE asked == [old EXCEPT !.stage = "legacy"]
    <3>2. asked \in Job /\ asked.stage = "legacy"
      BY <2>0 DEF Job, Stages
    <3> HIDE DEF asked, legacy
    <3>3. [asked EXCEPT !.status = legacy] \in Job /\ [asked EXCEPT !.status = legacy].stage # "ask"
      BY <3>1, <3>2 DEF Job
    <3>4. job = [asked EXCEPT !.status = legacy]
      BY <2>0, <3>2 DEF Job, asked
    <3> QED  BY <3>3, <3>4
  <2>2. Wait("preload", job) /\ faults' \in Nat /\ server' = server
    BY <1>1, <1>4, FailType DEF StatusUnreachable
  <2> QED  BY <1>1, <2>1, <2>2, Kinds, WaitStepType
<1>5. CASE WorkerError
  <2>1. worker' \in WorkerType
    BY <1>1, <1>5, ForgottenType DEF WorkerError, WorkerType
  <2>2. \A s \in Slots : [jobs[s] EXCEPT !.stage = "rejected"] \in Job
    BY <1>1 DEF Job, Stages
  <2>3. jobs' \in [Slots -> Job]
    BY <1>1, <1>5, <2>2 DEF WorkerError
  <2>4. jobs'["accept"].stage \in {jobs["accept"].stage, "rejected"}
        /\ jobs'["accept"].run = jobs["accept"].run
    BY <1>1, <1>5, Kinds DEF WorkerError, Job
  <2>5. view' \in ViewType /\ faults' \in Nat
    BY <1>1, <1>5, FailType DEF WorkerError, ViewType
  <2> QED  BY <1>1, <1>5, <2>1, <2>3, <2>4, <2>5, TypeParts, NextTypeParts
              DEF WorkerError, TypeInv, PageTypeOK
<1>6. CASE TargetRewritten
  <2>1. server.version["preload"] + 1 \in 1 .. MaxVersion
    BY <1>1, <1>6, PageAssumption DEF TargetRewritten, ServerType, Sources
  <2>2. server' \in ServerType
    BY <1>1, <1>6, <2>1 DEF TargetRewritten, ServerType
  <2>3. page.gen \in 0 .. MaxClicks
    BY <1>1 DEF PageType
  <2>4. NewJob("fetch", page.gen) \in Job
    BY <2>3, Kinds DEF NewJob, Job, Stages
  <2>5. \A r \in Reloads : r \in Slots /\ r # "accept"
    BY Kinds, PageAssumption
  <2>6. jobs' \in [Slots -> Job] /\ jobs'["accept"] = jobs["accept"]
    BY <1>1, <1>6, <2>4, <2>5, Kinds DEF TargetRewritten
  <2> QED  BY <1>1, <1>6, <2>2, <2>6, TypeParts, NextTypeParts DEF TargetRewritten, TypeInv, PageTypeOK
<1>7. CASE RemoteRunWritten
  <2>1. server.newest + 1 \in 1 .. MaxVersion
    BY <1>1, <1>7, PageAssumption DEF RemoteRunWritten, ServerType
  <2>2. server' \in ServerType
    BY <1>1, <1>7, <2>1 DEF RemoteRunWritten, ServerType
  <2> QED  BY <1>1, <1>7, <2>2, TypeParts, NextTypeParts DEF RemoteRunWritten, TypeInv, PageTypeOK
<1>8. CASE OtherTabAccepts
  <2>1. server.pending \in 1 .. MaxVersion
    BY <1>1, <1>8, PageAssumption DEF OtherTabAccepts, ServerType
  <2>2. server' \in ServerType
    BY <1>1, <1>8, <2>1, ServerTypes DEF OtherTabAccepts
  <2> QED  BY <1>1, <1>8, <2>2, TypeParts, NextTypeParts DEF OtherTabAccepts, TypeInv, PageTypeOK
<1>9. CASE UNCHANGED vars
  BY <1>1, <1>9 DEF vars, TypeInv, TypeOK
<1>10. CASE OtherTabPolls
  <2>1. server' \in ServerType /\ faults' \in Nat
    BY <1>1, <1>10, ServerTypes, FailType DEF OtherTabPolls
  <2> QED  BY <1>1, <1>10, <2>1, TypeParts, NextTypeParts DEF OtherTabPolls, TypeInv, PageTypeOK
<1> QED
  BY <1>2, <1>3, <1>4, <1>5, <1>6, <1>7, <1>8, <1>9, <1>10, PageStepType, AnswerStepType, PollStepType,
     WorkerStepType, ClientStepType DEF Next, Fault, World

LEMMA InitType == Init => TypeInv
<1> SUFFICES ASSUME Init PROVE TypeInv
  OBVIOUS
<1>1. server \in ServerType
  BY PageAssumption DEF Init, ServerType, Sources, Troubles
<1>2. page \in PageType /\ poll \in PollType /\ view \in ViewType
  BY Kinds, PageAssumption DEF Init, PageType, PollType, PollOff, ViewType
<1>6. 0 \in 0 .. MaxClicks
  BY PageAssumption
<1>3. NewJob("ask", 0) \in Job
  BY <1>6, Kinds, PageAssumption DEF NewJob, Job, Stages
<1>4. jobs \in [Slots -> Job] /\ jobs["accept"] = Idle
  BY <1>3, Kinds DEF Init
<1>5. worker \in WorkerType /\ faults \in Nat
  BY Kinds DEF Init, WorkerType
<1> QED  BY <1>1, <1>2, <1>4, <1>5, TypeParts DEF TypeInv, PageTypeOK, Idle

\* Every variable of the page, its worker and the two channels keeps its type,
\* however operations, answers and failures overlap.
THEOREM TypeCorrect == Spec => []TypeOK
<1>1. TypeInv => TypeOK
  BY DEF TypeInv
<1> QED  BY <1>1, InitType, NextType, PTL DEF Spec

-----------------------------------------------------------------------------
(* The queues of the two channels. *)

\* A message for slot s that something waits for.
Live(queue, s) == \E i \in DOMAIN queue : queue[i].slot = s /\ queue[i].live

\* At most one message of the queue is live for each operation.
Single(queue) ==
  \A i, j \in DOMAIN queue :
    /\ queue[i].live /\ queue[j].live
    /\ queue[i].slot = queue[j].slot /\ queue[i].slot \in Slots
    => i = j

\* What taking the first message of a queue does to it.
LEMMA TailLive ==
    ASSUME NEW S, NEW queue \in Seq(S), queue # <<>>, Single(queue)
    PROVE  /\ Single(Tail(queue))
           /\ \A s : Live(queue, s) <=> (Head(queue).slot = s /\ Head(queue).live)
                                        \/ Live(Tail(queue), s)
           /\ \A s \in Slots : Head(queue).slot = s /\ Head(queue).live => ~Live(Tail(queue), s)
<1>1. /\ Len(queue) \in Nat \ {0} /\ DOMAIN queue = 1 .. Len(queue) /\ Head(queue) = queue[1]
      /\ DOMAIN Tail(queue) = 1 .. Len(queue) - 1
      /\ \A i \in 1 .. Len(queue) - 1 : Tail(queue)[i] = queue[i + 1]
  OBVIOUS
<1> DEFINE rest == Tail(queue)
<1> HIDE DEF rest
<1>2. \A i \in DOMAIN rest : i + 1 \in DOMAIN queue /\ i + 1 # 1 /\ rest[i] = queue[i + 1]
  BY <1>1 DEF rest
<1>3. \A j \in DOMAIN queue : j = 1 \/ (j - 1 \in DOMAIN rest /\ rest[j - 1] = queue[j])
  BY <1>1 DEF rest
<1>4. Single(rest)
  <2> SUFFICES ASSUME NEW i \in DOMAIN rest, NEW j \in DOMAIN rest,
                      rest[i].live, rest[j].live, rest[i].slot = rest[j].slot, rest[i].slot \in Slots
               PROVE  i = j
    BY DEF Single
  <2>1. i + 1 = j + 1
    BY <1>2 DEF Single
  <2>2. i \in Nat /\ j \in Nat
    BY <1>1 DEF rest
  <2> QED  BY <2>1, <2>2
<1>5. \A s : Live(queue, s) <=> (Head(queue).slot = s /\ Head(queue).live) \/ Live(rest, s)
  <2> TAKE s
  <2>1. ASSUME Live(queue, s) PROVE (Head(queue).slot = s /\ Head(queue).live) \/ Live(rest, s)
    BY <1>1, <1>3, <2>1 DEF Live
  <2>2. ASSUME Live(rest, s) PROVE Live(queue, s)
    BY <1>2, <2>2 DEF Live
  <2>3. ASSUME Head(queue).slot = s, Head(queue).live PROVE Live(queue, s)
    BY <1>1, <2>3 DEF Live
  <2> QED  BY <2>1, <2>2, <2>3
<1>6. ASSUME NEW s \in Slots, Head(queue).slot = s, Head(queue).live, Live(rest, s)
      PROVE  FALSE
  <2>1. PICK i \in DOMAIN rest : rest[i].slot = s /\ rest[i].live
    BY <1>6 DEF Live
  <2>2. i + 1 \in DOMAIN queue /\ 1 \in DOMAIN queue /\ i + 1 # 1 /\ rest[i] = queue[i + 1]
    BY <1>1, <1>2
  <2> QED  BY <1>1, <1>6, <2>1, <2>2 DEF Single
<1> QED  BY <1>4, <1>5, <1>6 DEF rest

\* What adding a message does to a queue.
LEMMA AppendLive ==
    ASSUME NEW S, NEW queue \in Seq(S), NEW msg \in S, Single(queue),
           ~(msg.live /\ msg.slot \in Slots /\ Live(queue, msg.slot))
    PROVE  /\ Single(Append(queue, msg))
           /\ \A s : Live(Append(queue, msg), s) <=> Live(queue, s) \/ (msg.slot = s /\ msg.live)
<1> DEFINE longer == Append(queue, msg)
<1>1. /\ Len(queue) \in Nat /\ DOMAIN queue = 1 .. Len(queue)
      /\ DOMAIN longer = 1 .. Len(queue) + 1 /\ longer[Len(queue) + 1] = msg
      /\ \A i \in 1 .. Len(queue) : longer[i] = queue[i]
  OBVIOUS
<1> HIDE DEF longer
<1>2. \A i \in DOMAIN longer : (i \in DOMAIN queue /\ longer[i] = queue[i])
                               \/ (i = Len(queue) + 1 /\ longer[i] = msg)
  BY <1>1
<1>3. \A i \in DOMAIN queue : i \in DOMAIN longer /\ longer[i] = queue[i]
  BY <1>1
<1>4. Len(queue) + 1 \in DOMAIN longer
  BY <1>1
<1>5. Single(longer)
  <2> SUFFICES ASSUME NEW i \in DOMAIN longer, NEW j \in DOMAIN longer,
                      longer[i].live, longer[j].live, longer[i].slot = longer[j].slot,
                      longer[i].slot \in Slots
               PROVE  i = j
    BY DEF Single
  <2>1. CASE i \in DOMAIN queue /\ longer[i] = queue[i] /\ j \in DOMAIN queue /\ longer[j] = queue[j]
    BY <2>1 DEF Single
  <2>2. CASE i \in DOMAIN queue /\ longer[i] = queue[i] /\ longer[j] = msg
    BY <2>2 DEF Live
  <2>3. CASE j \in DOMAIN queue /\ longer[j] = queue[j] /\ longer[i] = msg
    BY <2>3 DEF Live
  <2>4. CASE i = Len(queue) + 1 /\ j = Len(queue) + 1
    BY <2>4
  <2> QED  BY <1>2, <2>1, <2>2, <2>3, <2>4
<1>6. \A s : Live(longer, s) <=> Live(queue, s) \/ (msg.slot = s /\ msg.live)
  <2> TAKE s
  <2>1. ASSUME Live(longer, s) PROVE Live(queue, s) \/ (msg.slot = s /\ msg.live)
    BY <1>2, <2>1 DEF Live
  <2>2. ASSUME Live(queue, s) PROVE Live(longer, s)
    BY <1>3, <2>2 DEF Live
  <2>3. ASSUME msg.slot = s, msg.live PROVE Live(longer, s)
    BY <1>1, <1>4, <2>3 DEF Live
  <2> QED  BY <2>1, <2>2, <2>3
<1> QED  BY <1>5, <1>6 DEF longer

\* Dropping the search leaves the messages of the operations.
LEMMA WithoutSearchLive ==
    ASSUME NEW S, NEW queue \in Seq(S), Single(queue)
    PROVE  /\ Single(WithoutSearch(queue))
           /\ \A s \in Slots : Live(WithoutSearch(queue), s) <=> Live(queue, s)
<1> DEFINE searches == {i \in DOMAIN queue : Searching(queue[i])}
           found == CHOOSE i \in searches : TRUE
           rest == [i \in 1 .. Len(queue) - 1 |-> IF i < found THEN queue[i] ELSE queue[i + 1]]
<1>1. CASE searches = {}
  BY <1>1 DEF WithoutSearch
<1>2. CASE searches # {}
  <2>1. found \in DOMAIN queue /\ Searching(queue[found])
    BY <1>2
  <2>2. WithoutSearch(queue) = rest
    BY <1>2 DEF WithoutSearch
  <2>3. DOMAIN queue = 1 .. Len(queue) /\ Len(queue) \in Nat
    OBVIOUS
  <2>4. DOMAIN rest = 1 .. Len(queue) - 1
    OBVIOUS
  <2> DEFINE from(i) == IF i < found THEN i ELSE i + 1
  <2> HIDE DEF found
  <2>5. \A i \in DOMAIN rest : rest[i] = queue[from(i)] /\ from(i) \in DOMAIN queue /\ i \in Nat
    BY <2>1, <2>3, <2>4
  <2>6. \A i, j \in DOMAIN rest : from(i) = from(j) => i = j
    BY <2>1, <2>3, <2>4
  <2>7. \A j \in DOMAIN queue : j # found => \E i \in DOMAIN rest : from(i) = j
    <3> TAKE j \in DOMAIN queue
    <3> HAVE j # found
    <3>1. CASE j < found
      <4>1. j \in DOMAIN rest /\ from(j) = j
        BY <2>1, <2>3, <2>4, <3>1
      <4> QED  BY <4>1
    <3>2. CASE j > found
      <4>1. j - 1 \in DOMAIN rest /\ from(j - 1) = j
        BY <2>1, <2>3, <2>4, <3>2
      <4> QED  BY <4>1
    <3> QED  BY <2>1, <2>3, <3>1, <3>2
  <2> HIDE DEF rest, from
  <2>8. Single(rest)
    BY <2>5, <2>6 DEF Single
  <2>9. ASSUME NEW s \in Slots PROVE Live(rest, s) <=> Live(queue, s)
    <3>1. ASSUME Live(rest, s) PROVE Live(queue, s)
      BY <2>5, <3>1 DEF Live
    <3>2. ASSUME Live(queue, s) PROVE Live(rest, s)
      <4>1. PICK j \in DOMAIN queue : queue[j].slot = s /\ queue[j].live
        BY <3>2 DEF Live
      <4>2. j # found
        BY <2>1, <4>1, Kinds DEF Searching
      <4>3. PICK i \in DOMAIN rest : from(i) = j
        BY <2>7, <4>2
      <4> QED  BY <2>5, <4>1, <4>3 DEF Live
    <3> QED  BY <3>1, <3>2
  <2> QED  BY <2>2, <2>8, <2>9
<1> QED  BY <1>1, <1>2

Fields == {"gen", "superseded", "inFlight", "shown", "shownBy", "source", "pending",
           "accepting", "error", "preloading"}
-----------------------------------------------------------------------------
(* What the end of each operation does to the page. *)

\* q is the page p, but for some of the fields in fs.
Alters(p, q, fs) ==
  /\ q = [f \in Fields |-> q[f]]
  /\ \A f \in Fields \ fs : q[f] = p[f]

\* p shows what the page shows, or the result under the current generation.
Shows(p, result) ==
  /\ p.shown \in {page.shown, result}
  /\ p.shownBy \in {page.shownBy, page.gen}

LEMMA AltersNothing == ASSUME NEW p \in PageType PROVE \A fs : Alters(p, p, fs)
BY DEF PageType, Alters, Fields

LEMMA AltersField ==
    ASSUME NEW p, NEW q, NEW fs, Alters(p, q, fs), NEW field \in fs \cap Fields, NEW value
    PROVE  /\ Alters(p, [q EXCEPT ![field] = value], fs)
           /\ [q EXCEPT ![field] = value][field] = value
           /\ \A f \in Fields \ {field} : [q EXCEPT ![field] = value][f] = q[f]
BY DEF Alters

LEMMA AltersMore ==
    ASSUME NEW p, NEW q, NEW fs, NEW gs, Alters(p, q, fs), fs \subseteq gs
    PROVE  Alters(p, q, gs)
BY DEF Alters

LEMMA AltersShown ==
    ASSUME NEW p, NEW q, NEW fs, Alters(p, q, fs), {"shown", "shownBy"} \subseteq fs,
           NEW bundle, NEW gen
    PROVE  /\ Alters(p, Shown(q, bundle, gen).page, fs)
           /\ Shown(q, bundle, gen).page.shown = bundle
           /\ Shown(q, bundle, gen).page.shownBy = gen
           /\ \A f \in Fields \ {"shown", "shownBy"} : Shown(q, bundle, gen).page[f] = q[f]
           /\ "poll" \in Shown(q, bundle, gen).effects
<1> DEFINE r == [q EXCEPT !.shown = bundle]
           s == [r EXCEPT !.shownBy = gen]
<1>1. Alters(p, r, fs) /\ r.shown = bundle /\ \A f \in Fields \ {"shown"} : r[f] = q[f]
  BY DEF Alters, Fields
<1> HIDE DEF r
<1>2. /\ Alters(p, s, fs) /\ s.shown = r.shown /\ s.shownBy = gen
      /\ \A f \in Fields \ {"shownBy"} : s[f] = r[f]
  BY <1>1 DEF Alters, Fields
<1>3. Shown(q, bundle, gen) = [page |-> s, effects |-> {"poll", "search"}]
  BY DEF Shown, r
<1> HIDE DEF s
<1> QED  BY <1>1, <1>2, <1>3 DEF Fields

LEMMA AltersRendered ==
    ASSUME NEW p PROVE Rendered(p).page = p /\ "poll" \in Rendered(p).effects
BY DEF Rendered

AlteredByPreload == {"preloading", "source", "pending", "error", "shown", "shownBy"}

LEMMA PreloadOutcome ==
    ASSUME page \in PageType, NEW job, NEW result, NEW failed \in BOOLEAN,
           NEW o, o = PreloadEnds(job, result, failed)
    PROVE  /\ ~IsPreloadStillCurrent(job) => o = Ignored
           /\ IsPreloadStillCurrent(job) => "poll" \in o.effects /\ o.page.preloading = FALSE
           /\ Alters(page, o.page, AlteredByPreload)
           /\ Shows(o.page, result)
<1> DEFINE done == [page EXCEPT !.preloading = FALSE]
           loaded == [done EXCEPT !.source = job.status.source, !.pending = job.status.pending]
           cleared == [loaded EXCEPT !.error = "none"]
           A(p) == /\ Alters(page, p, AlteredByPreload) /\ Shows(p, page.shown)
                   /\ p.preloading = FALSE
<1>1. A(done)
  BY AltersNothing, AltersField DEF Fields, AlteredByPreload, Shows
<1>2. \A p, v : A(p) => /\ A([p EXCEPT !.source = v]) /\ A([p EXCEPT !.pending = v])
                        /\ A([p EXCEPT !.error = v])
  BY AltersField DEF Fields, AlteredByPreload, Shows
<1> HIDE DEF A
<1>3. A(loaded)
  <2> HIDE DEF done
  <2> QED  BY <1>1, <1>2
<1>4. A(cleared) /\ A([done EXCEPT !.error = "failed"]) /\ A([loaded EXCEPT !.error = "failed"])
  <2> HIDE DEF loaded, done
  <2> QED  BY <1>1, <1>2, <1>3
<1>8. A([done EXCEPT !.error = "failed", !.source = "none", !.pending = 0])
  <2>1. [done EXCEPT !.error = "failed", !.source = "none", !.pending = 0] =
          [[[done EXCEPT !.error = "failed"] EXCEPT !.source = "none"] EXCEPT !.pending = 0]
    BY DEF PageType
  <2> HIDE DEF done
  <2>2. A([[[done EXCEPT !.error = "failed"] EXCEPT !.source = "none"] EXCEPT !.pending = 0])
    BY <1>2, <1>4
  <2> QED  BY <2>1, <2>2
<1>5. CASE ~IsPreloadStillCurrent(job)
  <2>1. o = Ignored
    BY <1>5 DEF PreloadEnds
  <2> QED  BY <1>5, <2>1, AltersNothing DEF Ignored, Shows
<1>6. CASE IsPreloadStillCurrent(job) /\ ~failed /\ ~job.status.error /\ result # NoBundle
  <2>1. o = Shown(cleared, result, job.gen)
    BY <1>6 DEF PreloadEnds
  <2> HIDE DEF cleared
  <2> QED  BY <1>4, <1>6, <2>1, AltersShown
              DEF A, AlteredByPreload, Shows, IsPreloadStillCurrent, Fields
<1>7. CASE IsPreloadStillCurrent(job) /\ (failed \/ job.status.error \/ result = NoBundle)
  <2>1. \E p : A(p) /\ o = Rendered(p)
    <3>1. CASE failed
      BY <1>4, <1>7, <3>1 DEF PreloadEnds
    <3>2. CASE ~failed /\ ~job.status.error /\ job.status.source = "none"
      BY <1>3, <1>7, <3>2 DEF PreloadEnds
    <3>3. CASE ~failed /\ ~job.status.error /\ job.status.source # "none"
      BY <1>4, <1>7, <3>3 DEF PreloadEnds
    <3>4. CASE ~failed /\ job.status.error
      BY <1>7, <1>8, <3>4 DEF PreloadEnds
    <3> QED  BY <3>1, <3>2, <3>3, <3>4
  <2> QED  BY <1>7, <2>1, AltersRendered DEF A, Shows
<1> QED BY <1>5, <1>6, <1>7

AlteredByLoad == {"inFlight", "superseded", "source", "pending", "error", "shown", "shownBy"}

LEMMA LoadOutcome ==
    ASSUME page \in PageType, NEW job, NEW result, NEW failed \in BOOLEAN,
           NEW o, o = LoadEnds(job, result, failed)
    PROVE  /\ o = Ignored \/ "poll" \in o.effects
           /\ Alters(page, o.page, AlteredByLoad)
           /\ Shows(o.page, result)
           /\ page.gen = job.gen => o.page.inFlight = FALSE
           /\ page.gen # job.gen => o.page.inFlight = page.inFlight
           /\ \/ o.page.superseded = page.superseded /\ o.page.source = page.source
              \/ o.page.superseded /\ page.gen = job.gen
<1> DEFINE flag == IF page.gen = job.gen THEN FALSE ELSE page.inFlight
           ended == [page EXCEPT !.inFlight = flag]
           refused == [ended EXCEPT !.error = "failed"]
           loaded == [ended EXCEPT !.superseded = TRUE, !.source = job.status.source, !.pending = 0]
           A(p) == Alters(page, p, AlteredByLoad) /\ p.inFlight = flag
<1>0. A(ended) /\ \A f \in Fields \ {"inFlight"} : ended[f] = page[f]
  <2> HIDE DEF flag
  <2>1. Alters(page, page, AlteredByLoad) /\ "inFlight" \in AlteredByLoad \cap Fields
    BY AltersNothing DEF AlteredByLoad, Fields
  <2> QED  BY <2>1 DEF Alters, Fields
<1>1. CASE failed \/ result = NoBundle
  <2>1. o = Rendered(refused)
    BY <1>1 DEF LoadEnds
  <2> HIDE DEF flag, ended
  <2>3. A(refused) /\ refused.shown = page.shown /\ refused.shownBy = page.shownBy
        /\ refused.superseded = page.superseded /\ refused.source = page.source
    BY <1>0, AltersField DEF Fields, AlteredByLoad
  <2> HIDE DEF refused
  <2> QED  BY <2>1, <2>3, AltersRendered DEF flag, Shows
<1>2. CASE ~(failed \/ result = NoBundle) /\ page.gen # job.gen
  <2>1. o = Ignored
    BY <1>2 DEF LoadEnds
  <2> QED  BY <1>2, <2>1, AltersNothing DEF Ignored, Shows
<1>3. CASE ~(failed \/ result = NoBundle) /\ page.gen = job.gen
  <2>1. o = Shown(loaded, result, job.gen)
    BY <1>3 DEF LoadEnds
  <2> HIDE DEF flag
  <2>3. \A p : A(p) => /\ A([p EXCEPT !.superseded = TRUE])
                       /\ [p EXCEPT !.superseded = TRUE].superseded
    BY AltersField DEF Fields, AlteredByLoad
  <2>4. \A p, v : A(p) /\ p.superseded =>
           /\ A([p EXCEPT !.source = v]) /\ [p EXCEPT !.source = v].superseded
           /\ A([p EXCEPT !.pending = v]) /\ [p EXCEPT !.pending = v].superseded
    BY AltersField DEF Fields, AlteredByLoad
  <2> HIDE DEF ended, A
  <2>5. A(loaded) /\ loaded.superseded
    BY <1>0, <2>3, <2>4
  <2> HIDE DEF loaded
  <2>6. "poll" \in o.effects /\ Alters(page, o.page, AlteredByLoad) /\ o.page.shown = result
        /\ o.page.shownBy = job.gen /\ o.page.inFlight = flag /\ o.page.superseded
    BY <2>1, <2>5, AltersShown DEF A, AlteredByLoad, Fields
  <2> QED  BY <1>3, <2>6 DEF flag, Shows
<1> QED  BY <1>1, <1>2, <1>3

AlteredByAccept == {"accepting", "source", "pending", "error", "shown", "shownBy"}

LEMMA AcceptOutcome ==
    ASSUME page \in PageType, NEW job, NEW result, NEW failed \in BOOLEAN,
           NEW o, o = AcceptEnds(job, result, failed)
    PROVE  /\ "poll" \in o.effects
           /\ Alters(page, o.page, AlteredByAccept)
           /\ Shows(o.page, result)
           /\ \/ o.page.source = page.source
              \/ page.gen = job.gen /\ ~failed /\ o.page.source = job.status.source
<1> DEFINE ended == [page EXCEPT !.accepting = FALSE]
           refused == [ended EXCEPT !.error = "failed"]
           switched == [ended EXCEPT !.source = job.status.source]
           offered == [switched EXCEPT !.error = "retry", !.pending = job.run]
           loaded == [switched EXCEPT !.error = "none", !.pending = job.status.pending]
           A(p) == Alters(page, p, AlteredByAccept) /\ Shows(p, page.shown)
<1>1. A(ended) /\ ended.source = page.source
  BY AltersNothing, AltersField DEF Fields, AlteredByAccept, Shows
<1>2. \A p, v : A(p) => A([p EXCEPT !.source = v]) /\ [p EXCEPT !.source = v].source = v
  BY AltersField DEF Fields, AlteredByAccept, Shows
<1>3. \A p, v : A(p) => /\ A([p EXCEPT !.error = v]) /\ [p EXCEPT !.error = v].source = p.source
                        /\ A([p EXCEPT !.pending = v]) /\ [p EXCEPT !.pending = v].source = p.source
  BY AltersField DEF Fields, AlteredByAccept, Shows
<1>4. CASE page.gen # job.gen
  <2>1. o = Rendered(ended)
    BY <1>4 DEF AcceptEnds
  <2> QED  BY <1>1, <2>1, AltersRendered DEF Shows
<1> HIDE DEF ended, A
<1>5. /\ A(switched) /\ switched.source = job.status.source
      /\ A(refused) /\ refused.source = page.source
  BY <1>1, <1>2, <1>3
<1> HIDE DEF switched, refused
<1>6. \A p : A(p) /\ p.source = job.status.source =>
         \A v : /\ A([p EXCEPT !.error = v]) /\ [p EXCEPT !.error = v].source = job.status.source
               /\ A([p EXCEPT !.pending = v]) /\ [p EXCEPT !.pending = v].source = job.status.source
  BY <1>3
<1>10. A(offered) /\ offered.source = job.status.source
  BY <1>5, <1>6
<1>11. A(loaded) /\ loaded.source = job.status.source
  BY <1>5, <1>6
<1>7. CASE page.gen = job.gen /\ failed
  <2>1. o = Rendered(refused)
    BY <1>7 DEF AcceptEnds, refused, ended
  <2> QED  BY <1>5, <2>1, AltersRendered DEF A, Shows
<1>8. CASE page.gen = job.gen /\ ~failed /\ result = NoBundle
  <2>1. o = Rendered(offered)
    BY <1>8 DEF AcceptEnds, switched, ended
  <2> QED  BY <1>10, <1>8, <2>1, AltersRendered DEF A, Shows
<1>9. CASE page.gen = job.gen /\ ~failed /\ result # NoBundle
  <2>1. o = Shown(loaded, result, job.gen)
    BY <1>9 DEF AcceptEnds, switched, ended
  <2> HIDE DEF loaded
  <2> QED  BY <1>11, <1>9, <2>1, AltersShown DEF A, AlteredByAccept, Fields, Shows
<1> QED  BY <1>4, <1>7, <1>8, <1>9

AlteredByReload == {"error", "shown", "shownBy"}

LEMMA ReloadOutcome ==
    ASSUME page \in PageType, NEW job, NEW result, NEW failed \in BOOLEAN,
           NEW o, o = ReloadEnds(job, result, failed)
    PROVE  /\ o = Ignored \/ "poll" \in o.effects
           /\ Alters(page, o.page, AlteredByReload)
           /\ Shows(o.page, result)
           /\ ShouldIgnoreReload(job) => o = Ignored
<1> DEFINE with(e) == [page EXCEPT !.error = e]
<1>1. \A e : Alters(page, with(e), AlteredByReload) /\ Shows(with(e), page.shown)
  BY AltersNothing, AltersField DEF Fields, AlteredByReload, Shows
<1>2. CASE ShouldIgnoreReload(job) \/ (~failed /\ result = NoBundle)
  <2>1. o = Ignored
    BY <1>2 DEF ReloadEnds
  <2> QED  BY <2>1, AltersNothing DEF Ignored, Shows
<1>3. CASE ~ShouldIgnoreReload(job) /\ failed
  <2>1. o = Rendered(with("failed"))
    BY <1>3 DEF ReloadEnds
  <2>2. Alters(page, with("failed"), AlteredByReload) /\ Shows(with("failed"), page.shown)
    BY <1>1
  <2> HIDE DEF with
  <2> QED  BY <1>3, <2>1, <2>2, AltersRendered DEF Shows
<1>4. CASE ~ShouldIgnoreReload(job) /\ ~failed /\ result # NoBundle
  <2>1. o = Shown(with("none"), result, job.gen)
    BY <1>4 DEF ReloadEnds
  <2> HIDE DEF with
  <2> QED  BY <1>1, <1>4, <2>1, AltersShown DEF AlteredByReload, Shows, ShouldIgnoreReload
<1> QED  BY <1>2, <1>3, <1>4

\* A render only settles the pending run.
Settled(p, q) == Alters(p, q, {"pending"}) /\ (q.pending # 0 => q.source = "remote")

LEMMA RenderSettles ==
    ASSUME NEW p \in PageType, RunPollEffect(p) PROVE Settled(p, page')
<1>1. CASE p.source = "remote"
  <2>1. page' = p
    BY <1>1 DEF RunPollEffect
  <2> QED  BY <1>1, <2>1, AltersNothing DEF Settled
<1>2. CASE p.source # "remote"
  <2>1. page' = [p EXCEPT !.pending = 0]
    BY <1>2 DEF RunPollEffect
  <2> DEFINE q == [p EXCEPT !.pending = 0]
  <2>2. Alters(p, q, {"pending"}) /\ q.pending = 0
    BY AltersNothing, AltersField DEF Fields
  <2> HIDE DEF q
  <2> QED  BY <2>1, <2>2 DEF Settled, q
<1> QED  BY <1>1, <1>2

\* The page after an operation has ended.
LEMMA FinishSettles ==
    ASSUME page \in PageType, page.pending # 0 => page.source = "remote",
           jobs \in [Slots -> Job],
           NEW s \in Slots, NEW job \in Job, NEW result \in Bundles, NEW failed \in BOOLEAN,
           NEW w, FinishAs(s, job, result, failed, w)
    PROVE  /\ Settled(End(s, job, result, failed).page, page')
           /\ page'.gen = page.gen /\ Shows(page', result)
<1> DEFINE o == End(s, job, result, failed)
<1>1. job \in Job
  OBVIOUS
<1>2. /\ o = Ignored \/ "poll" \in o.effects
      /\ Alters(page, o.page, Fields \ {"gen"}) /\ Shows(o.page, result)
  <2>1. CASE s = "preload"
    <3>1. o = PreloadEnds(job, result, failed)
      BY <2>1, Kinds DEF End
    <3> HIDE DEF o
    <3>2. AlteredByPreload \subseteq Fields \ {"gen"}
      BY DEF AlteredByPreload, Fields
    <3>3. /\ o = Ignored \/ "poll" \in o.effects
          /\ Alters(page, o.page, AlteredByPreload) /\ Shows(o.page, result)
      BY <3>1, PreloadOutcome, Zenon
    <3> QED  BY <3>2, <3>3, AltersMore
  <2>2. CASE s # "preload" /\ s = "accept"
    <3>1. o = AcceptEnds(job, result, failed)
      BY <2>2, Kinds DEF End
    <3> HIDE DEF o
    <3>2. AlteredByAccept \subseteq Fields \ {"gen"}
      BY DEF AlteredByAccept, Fields
    <3> QED  BY <3>1, <3>2, AcceptOutcome, AltersMore
  <2>3. CASE s \notin {"preload", "accept"} /\ s \in Loads
    <3>1. o = LoadEnds(job, result, failed)
      BY <2>3 DEF End
    <3> HIDE DEF o
    <3>2. AlteredByLoad \subseteq Fields \ {"gen"}
      BY DEF AlteredByLoad, Fields
    <3>3. /\ o = Ignored \/ "poll" \in o.effects
          /\ Alters(page, o.page, AlteredByLoad) /\ Shows(o.page, result)
      BY <3>1, LoadOutcome, Zenon
    <3>4. Alters(page, o.page, Fields \ {"gen"})
      BY <3>2, <3>3, AltersMore
    <3> QED  BY <3>3, <3>4
  <2>4. CASE s \notin {"preload", "accept"} /\ s \notin Loads
    <3>1. o = ReloadEnds(job, result, failed)
      BY <2>4 DEF End
    <3> HIDE DEF o
    <3>2. AlteredByReload \subseteq Fields \ {"gen"}
      BY DEF AlteredByReload, Fields
    <3>3. /\ o = Ignored \/ "poll" \in o.effects
          /\ Alters(page, o.page, AlteredByReload) /\ Shows(o.page, result)
      BY <3>1, ReloadOutcome
    <3>4. Alters(page, o.page, Fields \ {"gen"})
      BY <3>2, <3>3, AltersMore
    <3> QED  BY <3>3, <3>4
  <2> QED  BY <2>1, <2>2, <2>3, <2>4
<1>3. o.page \in PageType
  BY <1>1, EndType DEF End, IsOutcome
<1>4. Apply(o, w)
  BY DEF FinishAs
<1> HIDE DEF o
<1>5. Settled(o.page, page')
  <2>1. CASE "poll" \in o.effects
    BY <1>3, <1>4, <2>1, RenderSettles DEF Apply
  <2>2. CASE o = Ignored /\ "poll" \notin o.effects
    <3>1. page' = page /\ o.page = page
      BY <1>4, <2>2 DEF Apply, Ignored
    <3> QED  BY <3>1, AltersNothing DEF Settled
  <2> QED  BY <1>2, <2>1, <2>2
<1> QED  BY <1>2, <1>5 DEF Settled, Alters, Fields, o, Shows

-----------------------------------------------------------------------------
(* The two channels. *)

\* An operation waits for the worker exactly when one message is on its way for it.
Channels(w, js) ==
  /\ Single(w.inbox) /\ Single(w.outbox)
  /\ \A s \in Slots : ~(Live(w.inbox, s) /\ Live(w.outbox, s))
  /\ \A s \in Slots : js[s].stage = "parse" <=> Live(w.inbox, s) \/ Live(w.outbox, s)

\* The omnibox waits only for a message on its way.
Asked(w, v) == v.loading => Live(w.inbox, "search") \/ Live(w.outbox, "search")

\* The worker has an analysis before the page can show one.
Analysed(w, shown) ==
  /\ \A i \in DOMAIN w.inbox : ~Searching(w.inbox[i]) => w.inbox[i].bundle # NoBundle
  /\ \A i \in DOMAIN w.outbox : w.outbox[i].bundle # NoBundle => w.cache # NoBundle
  /\ shown # NoBundle => w.cache # NoBundle

ChannelInv == Channels(worker, jobs) /\ Asked(worker, view) /\ Analysed(worker, page.shown)

-----------------------------------------------------------------------------
(* The operations and the page. *)

\* No operation is of a generation to come.
Outdated == \A s \in Slots : jobs[s].gen <= page.gen

\* Before the first click no load is under way and none has succeeded; the
\* preload is older than every click, a load or an accept is of a click.
Clicked ==
  /\ page.gen = 0 => ~page.superseded /\ ~page.inFlight
  /\ jobs["preload"].gen = 0
  /\ \A s \in Loads \cup {"accept"} : jobs[s] # Idle => jobs[s].gen # 0

\* A run is offered only over a remote investigation (useRemoteArtifactPoll).
PendingIsRemote == page.pending # 0 => page.source = "remote"

\* An accept ends in a remote investigation or in none, and began in a remote
\* one that at most a load has replaced.
AcceptIsRemote ==
  /\ jobs["accept"].stage \in {"fetch", "legacy", "parse", "rejected"} =>
       jobs["accept"].status.source \in {"remote", "none"}
  /\ jobs["accept"] # Idle => page.source = "remote" \/ page.superseded

\* No second accept is started while one is under way.
AcceptIsMarked == jobs["accept"] # Idle => page.accepting

\* Until the preload ends or the user clicks, the page has no source.
PreloadIsFirst == jobs["preload"] # Idle /\ page.gen = 0 => page.source = "none"

\* A refetch that would be applied is one of the target on the page.
ReloadIsOfPreload ==
  \A r \in Reloads :
    jobs[r] # Idle /\ jobs[r].gen = page.gen /\ ~page.superseded => page.source = "preload"

\* No analysis on the page is of a generation to come.
NotNewer == page.shownBy <= page.gen

PageInv ==
  /\ Outdated /\ Clicked /\ PendingIsRemote /\ AcceptIsRemote /\ PreloadIsFirst
  /\ AcceptIsMarked /\ ReloadIsOfPreload /\ NotNewer /\ CardIsBacked /\ ReloadIsNotBlocked

\* A step that neither starts nor ends an operation.
Carries ==
  /\ \A f \in {"gen", "superseded", "inFlight", "source", "preloading", "accepting",
             "shownBy"} :
       page'[f] = page[f]
  /\ page'.pending # 0 => page'.source = "remote"
  /\ \A s \in Slots : jobs'[s].gen = jobs[s].gen /\ (jobs'[s] = Idle <=> jobs[s] = Idle)
  /\ jobs'["accept"].stage \in {"fetch", "legacy", "parse", "rejected"} =>
       jobs'["accept"].status.source \in {"remote", "none"}

LEMMA CarriesKeeps == ASSUME PageInv, Carries PROVE PageInv'
<1>1. /\ page'.gen = page.gen /\ page'.superseded = page.superseded
      /\ page'.inFlight = page.inFlight /\ page'.source = page.source
      /\ page'.preloading = page.preloading /\ page'.shownBy = page.shownBy
      /\ page'.accepting = page.accepting
  BY DEF Carries
<1>2. \A s \in Slots : jobs'[s].gen = jobs[s].gen /\ (jobs'[s] = Idle <=> jobs[s] = Idle)
  BY DEF Carries
<1>3. (Outdated /\ Clicked /\ PendingIsRemote /\ PreloadIsFirst /\ NotNewer /\ CardIsBacked)'
  BY <1>1, <1>2, Kinds DEF PageInv, Carries, Outdated, Clicked, PendingIsRemote, PreloadIsFirst,
                           NotNewer, CardIsBacked
<1>4. AcceptIsRemote' /\ AcceptIsMarked' /\ ReloadIsOfPreload'
  BY <1>1, <1>2, Kinds DEF PageInv, Carries, AcceptIsRemote, AcceptIsMarked, ReloadIsOfPreload
<1>5. ReloadIsNotBlocked'
  BY <1>1, <1>2, Kinds DEF PageInv, ReloadIsNotBlocked
<1> QED  BY <1>3, <1>4, <1>5 DEF PageInv

LEMMA SettledCarries ==
    ASSUME PageInv, NEW p, NEW fs \in SUBSET {"pending", "error"}, Alters(page, p, fs),
           Settled(p, page'), UNCHANGED jobs
    PROVE  PageInv'
<1>1. \A f \in {"gen", "superseded", "inFlight", "source", "preloading", "accepting",
               "shownBy"} :
         page'[f] = page[f]
  BY DEF Settled, Alters, Fields
<1> QED  BY <1>1, CarriesKeeps DEF Carries, Settled, PageInv, AcceptIsRemote

\* The end of an operation.
LEMMA FinishKeeps ==
    ASSUME TypeOK, PageInv, NEW s \in Slots, NEW result \in Bundles, NEW failed \in BOOLEAN, NEW w,
           NEW job, EndsAs(s, job), FinishAs(s, job, result, failed, w), jobs[s] # Idle,
           s = "accept" => failed \/ jobs[s].stage \in {"fetch", "parse"}
    PROVE  PageInv'
<1> DEFINE o == End(s, job, result, failed)
<1>1. page \in PageType /\ jobs \in [Slots -> Job]
  BY TypeParts DEF PageTypeOK
<1>2. job \in Job /\ job.gen = jobs[s].gen /\ (s # "preload" => job = jobs[s])
  BY DEF EndsAs
<1>3. Settled(o.page, page') /\ page'.gen = page.gen /\ Shows(page', result)
  BY <1>1, <1>2, FinishSettles DEF PageInv, PendingIsRemote
<1>4. jobs' = [jobs EXCEPT ![s] = Idle]
  BY DEF FinishAs
<1>5. jobs'[s] = Idle /\ \A t \in Slots \ {s} : jobs'[t] = jobs[t]
  BY <1>1, <1>4
<1>6. Outdated' /\ NotNewer' /\ PendingIsRemote'
  BY <1>1, <1>3, <1>5 DEF PageInv, Outdated, NotNewer, Idle, PageType, Settled, PendingIsRemote,
                              Shows
<1>7. page'.superseded = o.page.superseded /\ page'.inFlight = o.page.inFlight
      /\ page'.source = o.page.source /\ page'.preloading = o.page.preloading
      /\ page'.accepting = o.page.accepting
  BY <1>3 DEF Settled, Alters, Fields
<1> HIDE DEF o
<1>8. CASE s = "preload"
  <2>1. o = PreloadEnds(job, result, failed)
    BY <1>8, Kinds DEF End, o
  <2>2. /\ ~IsPreloadStillCurrent(job) => o = Ignored
        /\ IsPreloadStillCurrent(job) => o.page.preloading = FALSE
        /\ Alters(page, o.page, AlteredByPreload)
    <3>1. \A x : x = PreloadEnds(job, result, failed) =>
              /\ ~IsPreloadStillCurrent(job) => x = Ignored
              /\ IsPreloadStillCurrent(job) => x.page.preloading = FALSE
              /\ Alters(page, x.page, AlteredByPreload)
      BY <1>1, PreloadOutcome
    <3> QED  BY <2>1, <3>1
  <2>3. /\ page'.superseded = page.superseded /\ page'.inFlight = page.inFlight
        /\ page'.accepting = page.accepting
    BY <1>7, <2>2 DEF Alters, AlteredByPreload, Fields
  <2>4. Clicked' /\ PreloadIsFirst' /\ AcceptIsMarked'
    <3>1. Clicked'
      BY <1>3, <1>5, <1>8, <2>3, Kinds DEF PageInv, Clicked, Idle
    <3>2. PreloadIsFirst'
      BY <1>3, <1>5, <1>8, <2>3, Kinds DEF PageInv, PreloadIsFirst, Idle
    <3>3. AcceptIsMarked'
      BY <1>3, <1>5, <1>8, <2>3, Kinds DEF PageInv, AcceptIsMarked, Idle
    <3> QED  BY <3>1, <3>2, <3>3
  <2>5. CASE ~IsPreloadStillCurrent(job)
    <3>1. page'.source = page.source /\ page'.preloading = page.preloading
      BY <1>7, <2>2, <2>5 DEF Ignored
    <3>2. page.gen # 0
      BY <1>2, <1>8, <2>5 DEF IsPreloadStillCurrent, PageInv, Clicked
    <3>3. AcceptIsRemote' /\ CardIsBacked'
      BY <1>1, <1>3, <1>5, <1>8, <2>3, <3>1, <3>2, Kinds
         DEF PageInv, AcceptIsRemote, CardIsBacked, PageType, Idle
    <3>4. ReloadIsOfPreload' /\ ReloadIsNotBlocked'
      BY <1>3, <1>5, <1>8, <2>3, <3>1, Kinds, PageAssumption
         DEF PageInv, ReloadIsOfPreload, ReloadIsNotBlocked
    <3> QED  BY <1>6, <2>4, <3>3, <3>4 DEF PageInv
  <2>6. CASE IsPreloadStillCurrent(job)
    <3>1. page.gen = 0 /\ ~page.superseded /\ ~page.inFlight /\ page.source = "none"
      BY <1>2, <1>8, <2>6 DEF IsPreloadStillCurrent, PageInv, Clicked, PreloadIsFirst
    <3>2. jobs["accept"] = Idle
      BY <1>1, <3>1, Kinds DEF PageInv, Clicked, Outdated, Job
    <3>3. AcceptIsRemote' /\ CardIsBacked' /\ ReloadIsNotBlocked'
      BY <1>5, <1>7, <1>8, <2>2, <2>3, <2>6, <3>1, <3>2, Kinds
         DEF AcceptIsRemote, CardIsBacked, ReloadIsNotBlocked, Idle
    <3>4. ReloadIsOfPreload'
      BY <1>3, <1>5, <2>3, <3>1, Kinds DEF PageInv, ReloadIsOfPreload
    <3> QED  BY <1>6, <2>4, <3>3, <3>4 DEF PageInv
  <2> QED  BY <2>5, <2>6
<1>9. CASE s = "accept"
  <2>1. o = AcceptEnds(job, result, failed)
    BY <1>9, Kinds DEF End, o
  <2>2. /\ Alters(page, o.page, AlteredByAccept)
        /\ \/ o.page.source = page.source
           \/ page.gen = job.gen /\ ~failed /\ o.page.source = job.status.source
    BY <1>1, <2>1, AcceptOutcome
  <2>3. /\ page'.superseded = page.superseded /\ page'.inFlight = page.inFlight
        /\ page'.preloading = page.preloading
    BY <1>7, <2>2 DEF Alters, AlteredByAccept, Fields
  <2>4. page'.source = page.source \/ page'.source \in {"remote", "none"}
    BY <1>2, <1>7, <1>9, <2>2 DEF PageInv, AcceptIsRemote
  <2>5. page.gen # 0 /\ page.gen \in Nat
    BY <1>1, <1>2, <1>9, Kinds DEF PageInv, Clicked, Outdated, PageType, Job
  <2>6. Clicked' /\ PreloadIsFirst' /\ AcceptIsRemote' /\ AcceptIsMarked' /\ CardIsBacked'
    BY <1>3, <1>5, <1>9, <2>3, <2>5, Kinds
       DEF PageInv, Clicked, PreloadIsFirst, AcceptIsRemote, AcceptIsMarked, CardIsBacked, Idle
  <2>7. ReloadIsOfPreload'
    BY <1>3, <1>5, <1>9, <2>3, <2>4, Kinds DEF PageInv, ReloadIsOfPreload, AcceptIsRemote
  <2>8. ReloadIsNotBlocked'
    BY <1>3, <1>5, <1>9, <2>3, <2>4, Kinds DEF PageInv, ReloadIsNotBlocked
  <2> QED  BY <1>6, <2>6, <2>7, <2>8 DEF PageInv
<1>10. CASE s \in Loads
  <2>1. o = LoadEnds(job, result, failed)
    BY <1>10, Kinds DEF End, o
  <2>2. /\ Alters(page, o.page, AlteredByLoad)
        /\ page.gen = job.gen => o.page.inFlight = FALSE
        /\ page.gen # job.gen => o.page.inFlight = page.inFlight
        /\ \/ o.page.superseded = page.superseded /\ o.page.source = page.source
           \/ o.page.superseded /\ page.gen = job.gen
    BY <1>1, <2>1, LoadOutcome
  <2>3. page'.preloading = page.preloading /\ page'.accepting = page.accepting
    BY <1>7, <2>2 DEF Alters, AlteredByLoad, Fields
  <2>4. page.gen # 0 /\ page.gen \in Nat
    BY <1>1, <1>2, <1>10 DEF PageInv, Clicked, Outdated, PageType, Job
  <2>5. Clicked' /\ PreloadIsFirst' /\ CardIsBacked' /\ AcceptIsMarked'
    BY <1>3, <1>5, <1>10, <2>3, <2>4, Kinds
       DEF PageInv, Clicked, PreloadIsFirst, CardIsBacked, AcceptIsMarked, Idle
  <2>6. AcceptIsRemote' /\ ReloadIsOfPreload'
    BY <1>3, <1>5, <1>7, <1>10, <2>2, Kinds, PageAssumption
       DEF PageInv, ReloadIsOfPreload, AcceptIsRemote
  <2>7. ReloadIsNotBlocked'
    <3>1. CASE page.gen = job.gen
      BY <1>7, <2>2, <3>1 DEF ReloadIsNotBlocked
    <3>2. CASE page.gen # job.gen
      <4>1. /\ page'.superseded = page.superseded /\ page'.source = page.source
            /\ page'.inFlight = page.inFlight /\ page'.gen = page.gen
        BY <1>3, <1>7, <2>2, <3>2
      <4>2. \A l \in Loads : l \in Slots /\ (jobs[l].gen = page.gen => jobs'[l] = jobs[l])
        BY <1>2, <1>5, <1>10, <3>2, Kinds, PageAssumption
      <4> QED  BY <4>1, <4>2 DEF PageInv, ReloadIsNotBlocked
    <3> QED  BY <3>1, <3>2
  <2> QED  BY <1>6, <2>5, <2>6, <2>7 DEF PageInv
<1>11. CASE s \in Reloads
  <2>1. s \notin Loads \cup {"preload", "accept"}
    BY <1>11, PageAssumption
  <2>2. o = ReloadEnds(job, result, failed)
    BY <2>1 DEF End, o
  <2>3. Alters(page, o.page, AlteredByReload)
    BY <1>1, <2>2, ReloadOutcome
  <2>4. /\ page'.superseded = page.superseded /\ page'.inFlight = page.inFlight
        /\ page'.preloading = page.preloading /\ page'.source = page.source
        /\ page'.accepting = page.accepting
    BY <1>7, <2>3 DEF Alters, AlteredByReload, Fields
  <2>5. \A t \in Loads \cup {"preload", "accept"} : jobs'[t] = jobs[t]
    BY <1>5, <2>1, Kinds
  <2>6. Clicked' /\ PreloadIsFirst' /\ CardIsBacked' /\ AcceptIsRemote' /\ AcceptIsMarked'
    BY <1>3, <2>4, <2>5 DEF PageInv, Clicked, PreloadIsFirst, CardIsBacked, AcceptIsRemote,
                            AcceptIsMarked
  <2>7. ReloadIsOfPreload' /\ ReloadIsNotBlocked'
    BY <1>3, <1>5, <2>4, <2>5, Kinds DEF PageInv, ReloadIsOfPreload, ReloadIsNotBlocked
  <2> QED  BY <1>6, <2>6, <2>7 DEF PageInv
<1> QED  BY <1>8, <1>9, <1>10, <1>11 DEF Slots

Inv == TypeInv /\ PageInv /\ ChannelInv

LEMMA InvParts ==
    ASSUME Inv
    PROVE  /\ TypeOK /\ PageInv /\ ChannelInv /\ page \in PageType /\ jobs \in [Slots -> Job]
           /\ worker \in WorkerType /\ server \in ServerType /\ view \in ViewType
BY TypeParts DEF Inv, TypeInv, PageTypeOK

-----------------------------------------------------------------------------
(* What the steps do to the channels. *)

\* The omnibox asks again.
LEMMA SearchEffectChannels ==
    ASSUME NEW w \in WorkerType, NEW js, NEW shown, NEW other, NEW query,
           Channels(w, js), Analysed(w, shown), RunSearchEffect(other, query, w)
    PROVE  Channels(worker', js) /\ Asked(worker', view') /\ Analysed(worker', shown)
<1> DEFINE asks == other # NoBundle /\ query
           question == [slot |-> "search", live |-> TRUE, bundle |-> NoBundle]
           rest == WithoutSearch(w.inbox)
           outbox == WithoutSearch(w.outbox)
           inbox == IF asks THEN Append(rest, question) ELSE rest
<1>1. w.inbox \in Seq(Message) /\ w.outbox \in Seq(Response)
  BY DEF WorkerType
<1>2. /\ rest \in Seq(Message) /\ outbox \in Seq(Response)
      /\ \A i \in DOMAIN rest : \E j \in DOMAIN w.inbox : rest[i] = w.inbox[j]
      /\ \A i \in DOMAIN outbox : \E j \in DOMAIN w.outbox : outbox[i] = w.outbox[j]
  BY <1>1, WithoutSearchKeeps
<1>3. /\ Single(rest) /\ Single(outbox)
      /\ \A s \in Slots : /\ Live(rest, s) <=> Live(w.inbox, s)
                          /\ Live(outbox, s) <=> Live(w.outbox, s)
  BY <1>1, WithoutSearchLive DEF Channels
<1>4. question \in Message /\ question.slot \notin Slots
  BY Kinds DEF Message
<1>5. /\ worker'.inbox = inbox /\ worker'.outbox = outbox /\ worker'.cache = w.cache
      /\ view'.loading = asks
  BY DEF RunSearchEffect, WorkerType
<1> HIDE DEF rest, outbox, question
<1>6. /\ Single(inbox)
      /\ \A s \in Slots : Live(inbox, s) <=> Live(rest, s)
      /\ asks => Live(inbox, "search")
  <2>1. CASE asks
    <3>1. inbox = Append(rest, question)
      BY <2>1
    <3>2. /\ Single(inbox)
          /\ \A s : Live(inbox, s) <=> Live(rest, s) \/ (question.slot = s /\ question.live)
      BY <1>2, <1>3, <1>4, <3>1, AppendLive
    <3>3. question.slot = "search" /\ question.live
      BY DEF question
    <3> QED  BY <1>4, <3>2, <3>3
  <2>2. CASE ~asks
    BY <1>3, <2>2
  <2> QED  BY <2>1, <2>2
<1>7. \A i \in DOMAIN inbox : ~Searching(inbox[i]) => inbox[i].bundle # NoBundle
  <2>1. \A i \in DOMAIN rest : ~Searching(rest[i]) => rest[i].bundle # NoBundle
    BY <1>2 DEF Analysed
  <2>2. \A i \in DOMAIN Append(rest, question) :
           \/ i \in DOMAIN rest /\ Append(rest, question)[i] = rest[i]
           \/ Append(rest, question)[i] = question
    BY <1>2, <1>4
  <2>3. Searching(question)
    BY DEF question, Searching
  <2>4. CASE asks
    BY <2>1, <2>2, <2>3, <2>4
  <2> QED  BY <2>1, <2>4
<1>8. \A i \in DOMAIN outbox : outbox[i].bundle # NoBundle => w.cache # NoBundle
  BY <1>2 DEF Analysed
<1> HIDE DEF inbox, asks
<1>9. Channels(worker', js)
  BY <1>3, <1>5, <1>6 DEF Channels
<1>10. Asked(worker', view')
  BY <1>5, <1>6 DEF Asked
<1>11. Analysed(worker', shown)
  BY <1>5, <1>7, <1>8 DEF Analysed
<1> QED  BY <1>9, <1>10, <1>11

\* The end of an operation: nothing waits for the worker in its name.
LEMMA FinishChannels ==
    ASSUME TypeOK, PageInv, NEW s \in Slots, NEW result \in Bundles, NEW failed \in BOOLEAN,
           NEW job \in Job, NEW w \in WorkerType, FinishAs(s, job, result, failed, w),
           Channels(w, [jobs EXCEPT ![s] = Idle]), Asked(w, view), Analysed(w, page.shown),
           result # NoBundle => w.cache # NoBundle
    PROVE  ChannelInv'
<1>1. page \in PageType /\ jobs \in [Slots -> Job]
  BY TypeParts DEF PageTypeOK
<1>2. page'.shown \in {page.shown, result}
  BY <1>1, FinishSettles DEF Shows, PageInv, PendingIsRemote
<1>3. Analysed(w, page'.shown)
  BY <1>2 DEF Analysed
<1>4. jobs' = [jobs EXCEPT ![s] = Idle] /\ Apply(End(s, job, result, failed), w)
  BY DEF FinishAs
<1>5. Channels(w, jobs')
  BY <1>4
<1> DEFINE o == End(s, job, result, failed)
<1> HIDE DEF o
<1>6. CASE RunSearchEffect(o.page.shown, view.query, w)
  <2>1. Channels(worker', jobs') /\ Asked(worker', view') /\ Analysed(worker', page'.shown)
    BY <1>3, <1>5, <1>6, SearchEffectChannels
  <2> QED  BY <2>1 DEF ChannelInv, Channels, Asked, Analysed
<1>7. CASE worker' = w /\ UNCHANGED view
  BY <1>3, <1>5, <1>7 DEF ChannelInv, Channels, Asked, Analysed
<1> QED  BY <1>4, <1>6, <1>7 DEF Apply, o

\* A step in which the worker and the omnibox have no part.
LEMMA ChannelsStay ==
    ASSUME ChannelInv, UNCHANGED <<worker, view>>, page'.shown = page.shown,
           \A s \in Slots : jobs'[s].stage = "parse" <=> jobs[s].stage = "parse"
    PROVE  ChannelInv'
BY DEF ChannelInv, Channels, Asked, Analysed

LEMMA SamePage == ASSUME PageInv, UNCHANGED <<page, jobs>> PROVE PageInv'
BY DEF PageInv, Outdated, Clicked, PendingIsRemote, AcceptIsRemote, AcceptIsMarked,
       PreloadIsFirst, ReloadIsOfPreload, NotNewer, CardIsBacked, ReloadIsNotBlocked

-----------------------------------------------------------------------------
(* Operations that end or wait, while the worker has no message of theirs. *)

LEMMA NotIdle == ASSUME NEW s \in Slots, jobs[s].stage # "idle" PROVE jobs[s] # Idle
BY DEF Idle

LEMMA FinishAsInv ==
    ASSUME Inv, NEW s \in Slots, NEW failed \in BOOLEAN, NEW job, EndsAs(s, job),
           FinishAs(s, job, NoBundle, failed, worker),
           jobs[s].stage \in {"ask", "fetch", "legacy", "rejected"},
           s = "accept" => failed \/ jobs[s].stage = "fetch"
    PROVE  PageInv' /\ ChannelInv'
<1>1. jobs[s] # Idle
  BY NotIdle
<1>2. PageInv'
  BY <1>1, InvParts, Kinds, FinishKeeps
<1>3. Channels(worker, [jobs EXCEPT ![s] = Idle])
  <2>1. \A t \in Slots : [jobs EXCEPT ![s] = Idle][t].stage = "parse" <=> jobs[t].stage = "parse"
    BY InvParts DEF Idle
  <2> QED  BY <2>1, InvParts DEF ChannelInv, Channels
<1>4. ChannelInv'
  BY <1>3, InvParts, Kinds, FinishChannels DEF ChannelInv, EndsAs
<1> QED  BY <1>2, <1>4

LEMMA FinishInv ==
    ASSUME Inv, NEW s \in Slots, NEW failed \in BOOLEAN, Finish(s, NoBundle, failed, worker),
           jobs[s].stage \in {"ask", "fetch", "rejected"},
           s = "accept" => failed \/ jobs[s].stage = "fetch"
    PROVE  PageInv' /\ ChannelInv'
<1>1. EndsAs(s, jobs[s]) /\ FinishAs(s, jobs[s], NoBundle, failed, worker)
  BY InvParts, FinishIsAs
<1> QED  BY <1>1, FinishAsInv

LEMMA PreloadInv ==
    ASSUME Inv, NEW status \in Statuses, PreloadWithout(status),
           jobs["preload"].stage \in {"ask", "legacy"}
    PROVE  PageInv' /\ ChannelInv'
<1>1. PICK job : EndsAs("preload", job) /\ FinishAs("preload", job, NoBundle, FALSE, worker)
  BY InvParts, PreloadIsAs
<1> QED  BY <1>1, Kinds, FinishAsInv

LEMMA WaitInv ==
    ASSUME Inv, NEW s \in Slots, NEW job, Wait(s, job), jobs[s].stage \in {"ask", "fetch"},
           job.stage \in {"fetch", "legacy"}, job.gen = jobs[s].gen,
           s = "accept" => job.status.source \in {"remote", "none"}
    PROVE  PageInv' /\ ChannelInv'
<1>1. jobs'[s] = job /\ \A t \in Slots \ {s} : jobs'[t] = jobs[t]
  BY InvParts DEF Wait
<1>2. UNCHANGED <<page, worker, view>>
  BY DEF Wait
<1>3. job # Idle /\ jobs[s] # Idle
  BY DEF Idle
<1>4. Carries
  BY <1>1, <1>2, <1>3, InvParts, Kinds DEF Carries, PageInv, PendingIsRemote, AcceptIsRemote
<1>5. ChannelInv'
  BY <1>1, <1>2, InvParts, ChannelsStay
<1> QED  BY <1>4, <1>5, InvParts, CarriesKeeps

-----------------------------------------------------------------------------
(* The steps. *)

LEMMA PageStepInv ==
    ASSUME Inv, Page
    PROVE  PageInv' /\ ChannelInv'
<1> USE InvParts
<1>1. page.gen \in Nat /\ page.gen + 1 \in Nat /\ page.shownBy \in Nat
  BY DEF PageType
<1>2. \A s \in Slots : jobs[s] \in Job /\ jobs[s].gen \in Nat /\ jobs[s].gen <= page.gen
  BY DEF PageInv, Outdated, Job
<1>3. ASSUME NEW l \in Loads, NEW kind \in Sources, StartLoad(l, kind)
      PROVE  PageInv' /\ ChannelInv'
  <2> DEFINE p == [page EXCEPT !.gen = @ + 1, !.inFlight = TRUE, !.error = "none"]
             job == [NewJob("ask", page.gen + 1) EXCEPT !.kind = kind]
  <2>0. page.gen + 1 \in 0 .. MaxClicks
    BY <1>1, <1>3, PageAssumption DEF StartLoad
  <2>1. p \in PageType
    BY <2>0 DEF PageType
  <2>2. Alters(page, p, {"gen", "inFlight", "error"}) /\ p.gen = page.gen + 1
    BY <2>1 DEF Alters, Fields, PageType
  <2>3. RunPollEffect(p) /\ UNCHANGED <<worker, view>> /\ jobs' = [jobs EXCEPT ![l] = job]
    BY <1>3 DEF StartLoad
  <2> HIDE DEF p
  <2>4. Settled(p, page')
    BY <2>1, <2>3, RenderSettles
  <2>5. /\ page'.gen = page.gen + 1 /\ page'.superseded = page.superseded
        /\ page'.source = page.source /\ page'.preloading = page.preloading
        /\ page'.accepting = page.accepting /\ page'.shownBy = page.shownBy
        /\ page'.shown = page.shown
    BY <2>2, <2>4 DEF Settled, Alters, Fields
  <2>6. job.gen = page.gen + 1 /\ job.stage = "ask" /\ job # Idle
    BY DEF NewJob, Idle
  <2> HIDE DEF job
  <2>7. l \in Slots /\ l \notin {"preload", "accept"} /\ l \notin Reloads /\ jobs[l] = Idle
    BY <1>3, Kinds, PageAssumption DEF StartLoad
  <2>8. jobs'[l] = job /\ \A s \in Slots \ {l} : jobs'[s] = jobs[s]
    BY <2>3, <2>7
  <2>9. Outdated' /\ Clicked' /\ PreloadIsFirst' /\ NotNewer' /\ CardIsBacked'
    BY <1>1, <1>2, <2>5, <2>6, <2>7, <2>8, Kinds
       DEF PageInv, Outdated, Clicked, PreloadIsFirst, NotNewer, CardIsBacked
  <2>10. PendingIsRemote' /\ AcceptIsRemote' /\ AcceptIsMarked'
    BY <2>4, <2>5, <2>7, <2>8, Kinds
       DEF PageInv, Settled, PendingIsRemote, AcceptIsRemote, AcceptIsMarked
  <2>11. ReloadIsOfPreload'
    BY <1>1, <1>2, <2>5, <2>7, <2>8, Kinds DEF ReloadIsOfPreload
  <2>12. ReloadIsNotBlocked'
    BY <2>5, <2>6, <2>8 DEF ReloadIsNotBlocked
  <2>13. ChannelInv'
    BY <2>3, <2>5, <2>6, <2>7, <2>8, ChannelsStay DEF Idle
  <2> QED  BY <2>9, <2>10, <2>11, <2>12, <2>13 DEF PageInv
<1>4. CASE StartAccept
  <2> DEFINE p == [page EXCEPT !.gen = @ + 1, !.accepting = TRUE]
             job == [NewJob("ask", page.gen + 1) EXCEPT !.run = page.pending]
  <2>0. page.gen + 1 \in 0 .. MaxClicks
    BY <1>1, <1>4, PageAssumption DEF StartAccept
  <2>1. p \in PageType
    BY <2>0 DEF PageType
  <2>2. Alters(page, p, {"gen", "accepting"}) /\ p.gen = page.gen + 1 /\ p.accepting = TRUE
    BY <2>1 DEF Alters, Fields, PageType
  <2>3. RunPollEffect(p) /\ UNCHANGED <<worker, view>> /\ jobs' = [jobs EXCEPT !["accept"] = job]
    BY <1>4 DEF StartAccept
  <2> HIDE DEF p
  <2>4. Settled(p, page')
    BY <2>1, <2>3, RenderSettles
  <2>5. /\ page'.gen = page.gen + 1 /\ page'.superseded = page.superseded
        /\ page'.source = page.source /\ page'.preloading = page.preloading
        /\ page'.accepting = TRUE /\ page'.shownBy = page.shownBy
        /\ page'.shown = page.shown /\ page'.inFlight = page.inFlight
    BY <2>2, <2>4 DEF Settled, Alters, Fields
  <2>6. job.gen = page.gen + 1 /\ job.stage = "ask" /\ job # Idle
    BY DEF NewJob, Idle
  <2> HIDE DEF job
  <2>7. jobs["accept"] = Idle /\ page.source = "remote"
    BY <1>4 DEF StartAccept, PageInv, AcceptIsMarked, PendingIsRemote
  <2>8. jobs'["accept"] = job /\ \A s \in Slots \ {"accept"} : jobs'[s] = jobs[s]
    BY <2>3, Kinds
  <2>9. Outdated' /\ Clicked' /\ PreloadIsFirst' /\ NotNewer' /\ CardIsBacked'
    BY <1>1, <1>2, <2>5, <2>6, <2>8, Kinds
       DEF PageInv, Outdated, Clicked, PreloadIsFirst, NotNewer, CardIsBacked
  <2>10. PendingIsRemote' /\ AcceptIsRemote' /\ AcceptIsMarked'
    BY <2>4, <2>5, <2>6, <2>7, <2>8 DEF Settled, PendingIsRemote, AcceptIsRemote, AcceptIsMarked
  <2>11. ReloadIsOfPreload' /\ ReloadIsNotBlocked'
    BY <1>1, <1>2, <2>5, <2>7, <2>8, Kinds, PageAssumption DEF ReloadIsOfPreload, ReloadIsNotBlocked
  <2>12. ChannelInv'
    BY <2>3, <2>5, <2>6, <2>7, <2>8, ChannelsStay DEF Idle
  <2> QED  BY <2>9, <2>10, <2>11, <2>12 DEF PageInv
<1>5. CASE TypeQuery
  <2>1. Settled(page, page') /\ RunSearchEffect(page.shown, ~view.query, worker) /\ UNCHANGED jobs
    BY <1>5, RenderSettles DEF TypeQuery
  <2>2. PageInv'
    BY <2>1, AltersNothing, SettledCarries
  <2>3. page'.shown = page.shown
    BY <2>1 DEF Settled, Alters, Fields
  <2>4. Channels(worker', jobs) /\ Asked(worker', view') /\ Analysed(worker', page.shown)
    BY <2>1, SearchEffectChannels DEF ChannelInv
  <2> QED  BY <2>1, <2>2, <2>3, <2>4 DEF ChannelInv, Channels, Asked, Analysed
<1>6. CASE PollTimer
  <2>1. UNCHANGED <<page, jobs, worker, view>>
    BY <1>6 DEF PollTimer
  <2> QED  BY <2>1, SamePage, ChannelsStay
<1> QED  BY <1>3, <1>4, <1>5, <1>6 DEF Page

LEMMA AnswerStepInv ==
    ASSUME Inv, NEW s \in Slots, Answer(s)
    PROVE  PageInv' /\ ChannelInv'
<1> USE InvParts
<1>1. CASE StatusAnswered
  <2> DEFINE job == [jobs["preload"] EXCEPT !.stage = "fetch", !.status = Status(server)]
  <2>1. job.stage = "fetch" /\ job.gen = jobs["preload"].gen
    BY Kinds DEF Job
  <2> HIDE DEF job
  <2>2. CASE Wait("preload", job)
    BY <1>1, <2>1, <2>2, Kinds, WaitInv DEF StatusAnswered
  <2>3. CASE PreloadWithout(Status(server))
    BY <1>1, <2>3, ServedType, PreloadInv DEF StatusAnswered
  <2>4. job.status = Status(server)
    BY Kinds DEF job, Job
  <2> QED  BY <1>1, <2>2, <2>3, <2>4 DEF StatusAnswered, job
<1>6. CASE LegacyFails
  BY <1>6, Kinds, PreloadInv DEF LegacyFails
<1>2. CASE AcceptAnswered
  <2>1. CASE Finish("accept", NoBundle, TRUE, worker)
    BY <1>2, <2>1, Kinds, FinishInv DEF AcceptAnswered
  <2>2. CASE server.source = "remote" /\ server.pending = jobs["accept"].run
    <3> DEFINE job == [jobs["accept"] EXCEPT !.stage = "fetch", !.status = Status(server')]
    <3>1. server'.source = "remote"
      BY <1>2, <2>2 DEF AcceptAnswered, Accepted, ServerType
    <3>2. job.stage = "fetch" /\ job.gen = jobs["accept"].gen
          /\ job.status.source \in {"remote", "none"}
      BY <3>1, Kinds DEF Status, Job
    <3>3. Wait("accept", job) /\ jobs["accept"].stage = "ask"
      BY <1>2, <2>2 DEF AcceptAnswered
    <3> HIDE DEF job
    <3> QED  BY <3>2, <3>3, Kinds, WaitInv
  <2> QED  BY <1>2, <2>1, <2>2 DEF AcceptAnswered
<1>3. CASE s \in Loads /\ ConfigureAnswered(s)
  <2> DEFINE job == [jobs[s] EXCEPT !.stage = "fetch", !.status = Status(server')]
  <2>1. job.stage = "fetch" /\ job.gen = jobs[s].gen
    BY DEF Job
  <2>2. jobs[s].stage = "ask" /\ s # "accept"
        /\ (Wait(s, job) \/ Finish(s, NoBundle, TRUE, worker))
    BY <1>3, Kinds DEF ConfigureAnswered
  <2> HIDE DEF job
  <2> QED  BY <2>1, <2>2, WaitInv, FinishInv
<1>4. CASE FetchFails(s)
  <2>1. CASE Finish(s, NoBundle, FALSE, worker)
    BY <1>4, <2>1, FinishInv DEF FetchFails
  <2>2. CASE Wait(s, [jobs[s] EXCEPT !.attempt = 2])
    <3> DEFINE job == [jobs[s] EXCEPT !.attempt = 2]
    <3>1. job.stage = "fetch" /\ job.gen = jobs[s].gen /\ job.status = jobs[s].status
      BY <1>4 DEF FetchFails, Job
    <3>2. s = "accept" => jobs[s].status.source \in {"remote", "none"}
      BY <1>4 DEF FetchFails, PageInv, AcceptIsRemote
    <3>3. jobs[s].stage = "fetch"
      BY <1>4 DEF FetchFails
    <3> HIDE DEF job
    <3> QED  BY <2>2, <3>1, <3>2, <3>3, WaitInv DEF job
  <2> QED  BY <1>4, <2>1, <2>2 DEF FetchFails
<1>5. CASE FetchFiles(s)
  <2> DEFINE msg == [slot |-> s, live |-> TRUE, bundle |-> Served(server)]
             inbox == Append(worker.inbox, msg)
  <2>1. msg \in Message /\ msg.bundle # NoBundle /\ msg.slot = s /\ msg.live
    BY <1>5, ServedType DEF Message, FetchFiles, Served, NoBundle
  <2>2. /\ worker'.inbox = inbox /\ worker'.outbox = worker.outbox
        /\ worker'.cache = worker.cache /\ UNCHANGED <<page, view>>
    BY <1>5 DEF FetchFiles, WorkerType
  <2>3. /\ jobs'[s].stage = "parse" /\ jobs'[s].gen = jobs[s].gen
        /\ jobs'[s].status = jobs[s].status
        /\ \A t \in Slots \ {s} : jobs'[t] = jobs[t]
    BY <1>5 DEF FetchFiles, Job
  <2>4. jobs[s].stage \in {"fetch", "legacy"} /\ jobs[s] # Idle /\ jobs'[s] # Idle
    BY <1>5, <2>3 DEF FetchFiles, Idle
  <2>5. PageInv'
    BY <2>2, <2>3, <2>4, Kinds, CarriesKeeps DEF Carries, PageInv, PendingIsRemote, AcceptIsRemote
  <2>6. worker.inbox \in Seq(Message) /\ Single(worker.inbox)
    BY DEF WorkerType, ChannelInv, Channels
  <2>7. ~Live(worker.inbox, s) /\ ~Live(worker.outbox, s)
    BY <2>4 DEF ChannelInv, Channels
  <2> HIDE DEF msg
  <2>8. /\ Single(inbox)
        /\ \A t : Live(inbox, t) <=> Live(worker.inbox, t) \/ t = s
    BY <2>1, <2>6, <2>7, AppendLive
  <2>9. \A i \in DOMAIN inbox : ~Searching(inbox[i]) => inbox[i].bundle # NoBundle
    <3>1. \A i \in DOMAIN inbox :
             inbox[i] = msg \/ (i \in DOMAIN worker.inbox /\ inbox[i] = worker.inbox[i])
      BY <2>1, <2>6
    <3> QED  BY <2>1, <3>1 DEF ChannelInv, Analysed
  <2> HIDE DEF inbox
  <2>10. Channels(worker', jobs')
    BY <2>2, <2>3, <2>4, <2>7, <2>8 DEF ChannelInv, Channels
  <2>11. Asked(worker', view') /\ Analysed(worker', page'.shown)
    BY <2>2, <2>8, <2>9 DEF ChannelInv, Asked, Analysed
  <2> QED  BY <2>5, <2>10, <2>11 DEF ChannelInv, Channels, Asked, Analysed
<1> QED  BY <1>1, <1>2, <1>3, <1>4, <1>5, <1>6 DEF Answer

LEMMA WorkerStepInv ==
    ASSUME Inv, Worker
    PROVE  PageInv' /\ ChannelInv'
<1> USE InvParts
<1> DEFINE msg == Head(worker.inbox)
<1>1. UNCHANGED <<page, jobs, view>>
  BY DEF Worker, WorkerLoads, WorkerSearches
<1>2. \E ok \in BOOLEAN, cache \in Bundles :
         /\ worker.inbox # <<>> /\ Reply(msg, ok, cache)
         /\ worker.cache # NoBundle => cache # NoBundle
  <2>1. worker.cache \in Bundles /\ (worker.cache # NoBundle) \in BOOLEAN
    BY DEF WorkerType
  <2>2. CASE WorkerSearches
    BY <2>1, <2>2 DEF WorkerSearches
  <2>3. CASE WorkerLoads
    <3>1. worker.inbox # <<>> /\ ~Searching(msg) /\ worker.inbox \in Seq(Message)
      BY <2>3 DEF WorkerLoads, WorkerType
    <3>2. msg \in Message /\ 1 \in DOMAIN worker.inbox /\ msg = worker.inbox[1]
      BY <3>1
    <3>3. msg.bundle \in Bundles /\ msg.bundle # NoBundle
      BY <3>1, <3>2 DEF Message, ChannelInv, Analysed
    <3>4. Reply(msg, TRUE, msg.bundle) \/ Reply(msg, FALSE, worker.cache)
      BY <2>3 DEF WorkerLoads
    <3> QED  BY <2>1, <3>1, <3>3, <3>4
  <2> QED  BY <2>2, <2>3 DEF Worker
<1>3. PICK ok \in BOOLEAN, cache \in Bundles :
         /\ worker.inbox # <<>> /\ Reply(msg, ok, cache)
         /\ worker.cache # NoBundle => cache # NoBundle
  BY <1>2
<1> DEFINE answer == [slot |-> msg.slot, live |-> msg.live, ok |-> ok,
                      bundle |-> IF ok THEN cache ELSE NoBundle]
           inbox == Tail(worker.inbox)
           outbox == Append(worker.outbox, answer)
<1>4. /\ worker.inbox \in Seq(Message) /\ worker.outbox \in Seq(Response) /\ worker.inbox # <<>>
      /\ Single(worker.inbox) /\ Single(worker.outbox)
  BY <1>3 DEF WorkerType, ChannelInv, Channels
<1>5. msg \in Message
  BY <1>4
<1>6. worker'.inbox = inbox /\ worker'.outbox = outbox /\ worker'.cache = cache
  BY <1>3 DEF Reply
<1>7. /\ Single(inbox)
      /\ \A s : Live(worker.inbox, s) <=> (msg.slot = s /\ msg.live) \/ Live(inbox, s)
      /\ \A s \in Slots : msg.slot = s /\ msg.live => ~Live(inbox, s)
  BY <1>4, TailLive
<1>8. \A i \in DOMAIN inbox : ~Searching(inbox[i]) => inbox[i].bundle # NoBundle
  <2>1. \A i \in DOMAIN inbox : i + 1 \in DOMAIN worker.inbox /\ inbox[i] = worker.inbox[i + 1]
    BY <1>4
  <2> QED  BY <2>1 DEF ChannelInv, Analysed
<1> HIDE DEF msg
<1>9. answer \in Response /\ answer.slot = msg.slot /\ answer.live = msg.live
      /\ (answer.bundle # NoBundle => cache # NoBundle)
  BY <1>5, Kinds DEF Message, Response
<1> HIDE DEF answer, inbox
<1>10. \A i \in DOMAIN outbox : outbox[i].bundle # NoBundle => cache # NoBundle
  <2>1. \A i \in DOMAIN outbox :
           outbox[i] = answer \/ (i \in DOMAIN worker.outbox /\ outbox[i] = worker.outbox[i])
    BY <1>4, <1>9
  <2>2. \A i \in DOMAIN worker.outbox : worker.outbox[i].bundle # NoBundle => cache # NoBundle
    BY <1>3 DEF ChannelInv, Analysed
  <2> QED  BY <1>9, <2>1, <2>2
<1>11. ~(answer.live /\ answer.slot \in Slots /\ Live(worker.outbox, answer.slot))
  BY <1>7, <1>9 DEF ChannelInv, Channels
<1>12. /\ Single(outbox)
       /\ \A s : Live(outbox, s) <=> Live(worker.outbox, s) \/ (answer.slot = s /\ answer.live)
  BY <1>4, <1>9, <1>11, AppendLive
<1> HIDE DEF outbox
<1>13. Channels(worker', jobs')
  BY <1>1, <1>6, <1>7, <1>9, <1>12 DEF ChannelInv, Channels
<1>14. Asked(worker', view') /\ Analysed(worker', page'.shown)
  BY <1>1, <1>3, <1>6, <1>7, <1>8, <1>9, <1>10, <1>12 DEF ChannelInv, Asked, Analysed
<1> QED  BY <1>1, <1>13, <1>14, SamePage DEF ChannelInv, Channels, Asked, Analysed

LEMMA ClientStepInv ==
    ASSUME Inv, Client
    PROVE  PageInv' /\ ChannelInv'
<1> USE InvParts
<1> DEFINE msg == Head(worker.outbox)
           rest == Tail(worker.outbox)
<1>1. worker.outbox # <<>> /\ worker.outbox \in Seq(Response) /\ Single(worker.outbox)
  BY DEF Client, LoadAnswered, SearchAnswered, WorkerType, ChannelInv, Channels
<1>2. msg \in Response /\ rest \in Seq(Response)
  BY <1>1
<1>3. msg.bundle # NoBundle => worker.cache # NoBundle
  <2>1. 1 \in DOMAIN worker.outbox /\ msg = worker.outbox[1]
    BY <1>1
  <2> QED  BY <2>1 DEF ChannelInv, Analysed
<1>4. /\ Single(rest)
      /\ \A s : Live(worker.outbox, s) <=> (msg.slot = s /\ msg.live) \/ Live(rest, s)
      /\ \A s \in Slots : msg.slot = s /\ msg.live => ~Live(rest, s)
  BY <1>1, TailLive
<1>5. \A i \in DOMAIN rest : rest[i].bundle # NoBundle => worker.cache # NoBundle
  <2>1. \A i \in DOMAIN rest : i + 1 \in DOMAIN worker.outbox /\ rest[i] = worker.outbox[i + 1]
    BY <1>1
  <2> QED  BY <2>1 DEF ChannelInv, Analysed
<1>6. /\ Received.inbox = worker.inbox /\ Received.outbox = rest /\ Received.cache = worker.cache
      /\ Received \in WorkerType
  BY <1>2 DEF Received, WorkerType
<1> HIDE DEF msg, rest
<1>7. Analysed(Received, page.shown)
  BY <1>5, <1>6 DEF ChannelInv, Analysed
<1>8. CASE SearchAnswered
  <2>1. worker' = Received /\ UNCHANGED <<page, jobs>> /\ msg.slot = "search"
        /\ (msg.live => view'.loading = FALSE) /\ (~msg.live => view' = view)
    BY <1>8 DEF SearchAnswered, Searching, msg, ViewType
  <2>2. Channels(worker', jobs')
    BY <1>4, <1>6, <2>1, Kinds DEF ChannelInv, Channels
  <2>3. Asked(worker', view')
    BY <1>4, <1>6, <2>1 DEF ChannelInv, Asked
  <2> QED  BY <1>7, <2>1, <2>2, <2>3, SamePage DEF ChannelInv, Channels, Asked, Analysed
<1>9. CASE LoadAnswered
  <2>1. msg.slot \in Slots
    BY <1>2, <1>9 DEF LoadAnswered, Searching, Response, msg
  <2>2. Asked(Received, view)
    BY <1>4, <1>6, <2>1, Kinds DEF ChannelInv, Asked
  <2>3. CASE ~msg.live
    <3>1. worker' = Received /\ UNCHANGED <<page, jobs, view>>
      BY <1>9, <2>3 DEF LoadAnswered, msg
    <3>2. Channels(worker', jobs')
      BY <1>4, <1>6, <2>3, <3>1 DEF ChannelInv, Channels
    <3> QED  BY <1>7, <2>2, <3>1, <3>2, SamePage DEF ChannelInv, Channels, Asked, Analysed
  <2>4. CASE msg.live
    <3> DEFINE s == msg.slot
               failed == ~msg.ok
    <3>1. Finish(s, msg.bundle, failed, Received) /\ failed \in BOOLEAN /\ msg.bundle \in Bundles
      BY <1>2, <1>9, <2>4 DEF LoadAnswered, msg, Response
    <3> HIDE DEF s, failed
    <3>9. EndsAs(s, jobs[s]) /\ FinishAs(s, jobs[s], msg.bundle, failed, Received)
      BY <2>1, <3>1, FinishIsAs DEF s
    <3>2. s \in Slots /\ Live(worker.outbox, s) /\ ~Live(rest, s)
      BY <1>4, <2>1, <2>4 DEF s
    <3>3. jobs[s].stage = "parse" /\ ~Live(worker.inbox, s)
      BY <3>2 DEF ChannelInv, Channels
    <3>4. [jobs EXCEPT ![s] = Idle][s].stage # "parse"
          /\ \A t \in Slots \ {s} : [jobs EXCEPT ![s] = Idle][t] = jobs[t]
      BY <3>2 DEF Idle
    <3>5. \A t \in Slots \ {s} : Live(rest, t) <=> Live(worker.outbox, t)
      BY <1>4 DEF s
    <3>6. Channels(Received, [jobs EXCEPT ![s] = Idle])
      BY <1>4, <1>6, <3>2, <3>3, <3>4, <3>5 DEF ChannelInv, Channels
    <3>7. ChannelInv'
      BY <1>3, <1>6, <1>7, <2>2, <3>1, <3>2, <3>6, <3>9, FinishChannels DEF EndsAs
    <3>8. PageInv'
      BY <3>1, <3>2, <3>3, <3>9, NotIdle, FinishKeeps
    <3> QED  BY <3>7, <3>8
  <2> QED  BY <2>3, <2>4
<1> QED  BY <1>8, <1>9 DEF Client

LEMMA PollStepInv ==
    ASSUME Inv, Poll \/ PollFails
    PROVE  PageInv' /\ ChannelInv'
<1> USE InvParts
<1>1. CASE PollAnswered \/ (PollApplied /\ UNCHANGED page)
  <2>1. UNCHANGED <<page, jobs, worker, view>>
    BY <1>1 DEF PollAnswered, PollApplied
  <2> QED  BY <2>1, SamePage, ChannelsStay
<1>2. ASSUME NEW p \in PageType, Alters(page, p, {"pending", "error"}), RunPollEffect(p),
             UNCHANGED <<jobs, worker, view>>
      PROVE  PageInv' /\ ChannelInv'
  <2>1. Settled(p, page')
    BY <1>2, RenderSettles
  <2>2. PageInv'
    BY <1>2, <2>1, SettledCarries
  <2>3. page'.shown = page.shown
    BY <1>2, <2>1 DEF Settled, Alters, Fields
  <2> QED  BY <1>2, <2>2, <2>3, ChannelsStay
<1>3. CASE PollApplied /\ ~UNCHANGED page
  <2> DEFINE error == IF poll.status.error THEN "failed" ELSE page.error
             p == [page EXCEPT !.pending = poll.status.pending, !.error = error]
  <2>0. RunPollEffect(p)
    BY <1>3 DEF PollApplied
  <2>1. poll.status.pending \in 0 .. MaxVersion /\ error \in {"none", "failed", "retry"}
    BY TypeParts DEF PageTypeOK, PollType, Statuses, PageType
  <2> HIDE DEF error
  <2>2. p \in PageType /\ Alters(page, p, {"pending", "error"})
    BY <2>1 DEF PageType, Alters, Fields
  <2>3. UNCHANGED <<jobs, worker, view>>
    BY <1>3 DEF PollApplied
  <2> HIDE DEF p
  <2> QED  BY <1>2, <2>0, <2>2, <2>3
<1>4. CASE PollFails
  <2> DEFINE p == [page EXCEPT !.error = "failed"]
  <2>1. p \in PageType /\ Alters(page, p, {"pending", "error"})
    BY DEF PageType, Alters, Fields
  <2>2. RunPollEffect(p) /\ UNCHANGED <<jobs, worker, view>>
    BY <1>4 DEF PollFails
  <2> HIDE DEF p
  <2> QED  BY <1>2, <2>1, <2>2
<1> QED  BY <1>1, <1>3, <1>4 DEF Poll, PollApplied

LEMMA FaultStepInv ==
    ASSUME Inv,
           \/ StatusUnreachable \/ WorkerError
           \/ \E s \in Slots : RequestFails(s) \/ RejectionHandled(s)
    PROVE  PageInv' /\ ChannelInv'
<1> USE InvParts
<1>1. CASE StatusUnreachable
  <2> DEFINE job == [jobs["preload"] EXCEPT !.stage = "legacy", !.status.source = "preload"]
  <2>1. job.stage = "legacy" /\ job.gen = jobs["preload"].gen
    BY Kinds DEF Job
  <2>2. Wait("preload", job) /\ jobs["preload"].stage = "ask"
    BY <1>1 DEF StatusUnreachable
  <2> HIDE DEF job
  <2> QED  BY <2>1, <2>2, Kinds, WaitInv
<1>2. ASSUME NEW s \in Slots, RequestFails(s) \/ RejectionHandled(s)
      PROVE  PageInv' /\ ChannelInv'
  BY <1>2, FinishInv DEF RequestFails, RejectionHandled
<1>3. CASE WorkerError
  <2>1. /\ worker'.inbox = Forgotten(worker.inbox) /\ worker'.outbox = Forgotten(worker.outbox)
        /\ worker'.cache = worker.cache /\ view'.loading = FALSE /\ UNCHANGED page
    BY <1>3 DEF WorkerError, WorkerType, ViewType
  <2>2. \A s \in Slots : /\ jobs'[s].gen = jobs[s].gen /\ jobs'[s].status = jobs[s].status
                         /\ (jobs'[s] = Idle <=> jobs[s] = Idle)
                         /\ jobs'[s].stage # "parse"
                         /\ \/ jobs'[s].stage = jobs[s].stage
                            \/ jobs[s].stage = "parse" /\ jobs'[s].stage = "rejected"
    BY <1>3 DEF WorkerError, Job, Idle
  <2>3. PageInv'
    BY <2>1, <2>2, Kinds, CarriesKeeps DEF Carries, PageInv, PendingIsRemote, AcceptIsRemote
  <2>4. worker.inbox \in Seq(Message) /\ worker.outbox \in Seq(Response)
    BY DEF WorkerType
  <2>5. /\ \A i \in DOMAIN worker.inbox : worker.inbox[i] \in Message
        /\ \A i \in DOMAIN worker.outbox : worker.outbox[i] \in Response
    BY <2>4
  <2>6. /\ \A m \in Message : LET f == [m EXCEPT !.live = FALSE] IN
             f.live = FALSE /\ f.slot = m.slot /\ f.bundle = m.bundle
        /\ \A m \in Response : LET f == [m EXCEPT !.live = FALSE] IN
             f.live = FALSE /\ f.slot = m.slot /\ f.bundle = m.bundle
    BY DEF Message, Response
  <2>7. /\ Single(worker'.inbox) /\ \A s : ~Live(worker'.inbox, s)
        /\ Single(worker'.outbox) /\ \A s : ~Live(worker'.outbox, s)
    BY <2>1, <2>5, <2>6 DEF Forgotten, Single, Live
  <2>8. Analysed(worker', page'.shown)
    BY <2>1, <2>5, <2>6 DEF Forgotten, ChannelInv, Analysed, Searching
  <2>9. Channels(worker', jobs') /\ Asked(worker', view')
    BY <2>1, <2>2, <2>7 DEF Channels, Asked
  <2> QED  BY <2>3, <2>8, <2>9 DEF ChannelInv, Channels, Asked, Analysed
<1> QED  BY <1>1, <1>2, <1>3

LEMMA WorldStepInv ==
    ASSUME Inv, World
    PROVE  PageInv' /\ ChannelInv'
<1> USE InvParts
<1>1. CASE UNCHANGED <<page, jobs, worker, view>>
  BY <1>1, SamePage, ChannelsStay
<1>2. ASSUME NEW r \in Reloads, page.source = "preload", jobs[r] = Idle,
             jobs' = [jobs EXCEPT ![r] = NewJob("fetch", page.gen)],
             UNCHANGED <<page, worker, view>>
      PROVE  PageInv' /\ ChannelInv'
  <2> DEFINE job == NewJob("fetch", page.gen)
  <2>1. job.gen = page.gen /\ job.stage = "fetch" /\ page.gen \in Nat
    BY DEF NewJob, Idle, PageType
  <2> HIDE DEF job
  <2>2. r \in Slots /\ r \notin Loads \cup {"preload", "accept"}
    BY Kinds, PageAssumption
  <2>3. jobs'[r] = job /\ \A s \in Slots \ {r} : jobs'[s] = jobs[s]
    BY <1>2, <2>2 DEF job
  <2>4. \A s \in Loads \cup {"preload", "accept"} : jobs'[s] = jobs[s]
    BY <2>2, <2>3, Kinds
  <2>5. (Outdated /\ Clicked /\ PendingIsRemote /\ AcceptIsRemote /\ AcceptIsMarked
          /\ PreloadIsFirst /\ NotNewer /\ CardIsBacked)'
    BY <1>2, <2>1, <2>2, <2>3, <2>4
       DEF PageInv, Outdated, Clicked, PendingIsRemote, AcceptIsRemote, AcceptIsMarked,
           PreloadIsFirst, NotNewer, CardIsBacked
  <2>6. (ReloadIsOfPreload /\ ReloadIsNotBlocked)'
    BY <1>2, <2>4 DEF PageInv, ReloadIsOfPreload, ReloadIsNotBlocked
  <2>7. \A s \in Slots : jobs'[s].stage = "parse" <=> jobs[s].stage = "parse"
    BY <1>2, <2>1, <2>3 DEF Idle
  <2>8. ChannelInv'
    BY <1>2, <2>7, ChannelsStay
  <2> QED  BY <2>5, <2>6, <2>8 DEF PageInv
<1> QED
  BY <1>1, <1>2 DEF World, TargetRewritten, RemoteRunWritten, OtherTabAccepts, OtherTabPolls

LEMMA NextInv == Inv /\ [Next]_vars => Inv'
<1> SUFFICES ASSUME Inv, [Next]_vars PROVE PageInv' /\ ChannelInv'
  BY NextType DEF Inv
<1>1. CASE UNCHANGED vars
  BY <1>1, InvParts, SamePage, ChannelsStay DEF vars
<1> QED
  BY <1>1, PageStepInv, AnswerStepInv, WorkerStepInv, ClientStepInv, PollStepInv, FaultStepInv,
     WorldStepInv DEF Next, Fault

LEMMA InitInv == Init => Inv
<1> SUFFICES ASSUME Init PROVE PageInv /\ ChannelInv
  BY InitType DEF Inv
<1>1. /\ page.gen = 0 /\ page.superseded = FALSE /\ page.inFlight = FALSE /\ page.pending = 0
      /\ page.source = "none" /\ page.shown = NoBundle /\ page.shownBy = 0
  BY DEF Init
<1>2. \A s \in Slots : /\ jobs[s].gen = 0 /\ jobs[s].stage \in {"ask", "idle"}
                       /\ s # "preload" => jobs[s] = Idle
  BY DEF Init, NewJob, Idle
<1>3. jobs["preload"] # Idle
  BY Kinds DEF Init, NewJob, Idle
<1>4. Outdated /\ Clicked /\ PendingIsRemote /\ PreloadIsFirst /\ NotNewer /\ CardIsBacked
  BY <1>1, <1>2, <1>3, Kinds
     DEF Outdated, Clicked, PendingIsRemote, PreloadIsFirst, NotNewer, CardIsBacked
<1>5. AcceptIsRemote /\ AcceptIsMarked
  BY <1>2, Kinds DEF AcceptIsRemote, AcceptIsMarked, Idle
<1>6. ReloadIsOfPreload /\ ReloadIsNotBlocked
  BY <1>1, <1>2, Kinds, PageAssumption DEF ReloadIsOfPreload, ReloadIsNotBlocked
<1>7. worker.inbox = <<>> /\ worker.outbox = <<>> /\ view.loading = FALSE
  BY DEF Init
<1>8. ChannelInv
  BY <1>1, <1>2, <1>7 DEF ChannelInv, Channels, Asked, Analysed, Single, Live
<1> QED  BY <1>4, <1>5, <1>6, <1>8 DEF PageInv

LEMMA Invariance == Spec => []Inv
BY InitInv, NextInv, PTL DEF Spec

\* The loading card always has a preload behind it, unless the user started
\* another load: whatever overtakes the preload, the card is not left alone.
THEOREM CardIsBackedAlways == Spec => []CardIsBacked
<1>1. Inv => CardIsBacked
  BY DEF Inv, PageInv
<1> QED  BY <1>1, Invariance, PTL

\* A load that an accept superseded may leave managedLoadInFlightRef set, but
\* never so that the reload of a live preloaded target is suppressed.
THEOREM ReloadIsNotBlockedEver == Spec => []ReloadIsNotBlocked
<1>1. Inv => ReloadIsNotBlocked
  BY DEF Inv, PageInv
<1> QED  BY <1>1, Invariance, PTL

\* While the page shows an analysis the worker has one to search.
THEOREM ShownIsSearchableAlways == Spec => []ShownIsSearchable
<1>1. Inv => ShownIsSearchable
  BY DEF Inv, ChannelInv, Analysed, ShownIsSearchable
<1> QED  BY <1>1, Invariance, PTL

\* Whatever waits for the worker has its message in one of the two channels.
THEOREM EveryWaitIsAnsweredAlways == Spec => []EveryWaitIsAnswered
<1>1. \A s : Live(worker.inbox, s) \/ Live(worker.outbox, s) => Underway(s)
  BY DEF Live, Underway, Range
<1>2. Inv => EveryWaitIsAnswered
  BY <1>1 DEF Inv, ChannelInv, Channels, Asked, EveryWaitIsAnswered
<1> QED  BY <1>2, Invariance, PTL

-----------------------------------------------------------------------------
(* What a step may do to the analysis on the page. *)

Ends(s) ==
  /\ jobs[s] # Idle
  /\ \E result \in Bundles, failed \in BOOLEAN : \E w, job :
        EndsAs(s, job) /\ FinishAs(s, job, result, failed, w)

LEMMA FinishEnds ==
    ASSUME jobs \in [Slots -> Job], NEW s \in Slots, NEW result \in Bundles,
           NEW failed \in BOOLEAN, NEW w, Finish(s, result, failed, w), jobs[s].stage # "idle"
    PROVE  Ends(s)
BY FinishIsAs, NotIdle DEF Ends

LEMMA PreloadWithoutEnds ==
    ASSUME jobs \in [Slots -> Job], NEW status \in Statuses, PreloadWithout(status),
           jobs["preload"].stage # "idle"
    PROVE  Ends("preload")
BY PreloadIsAs, NotIdle, Kinds DEF Ends

LEMMA ShownByEnds ==
    ASSUME Inv, [Next]_vars
    PROVE  \/ page'.shown = page.shown /\ page'.shownBy = page.shownBy
           \/ \E s \in Slots : Ends(s)
<1> USE InvParts
<1> DEFINE Same == page'.shown = page.shown /\ page'.shownBy = page.shownBy
           A(p) == Alters(page, p, {"gen", "inFlight", "error", "accepting", "pending"})
<1>1. ASSUME NEW p, A(p), RunPollEffect(p)
      PROVE  Same
  <2>1. page' = p \/ page' = [p EXCEPT !.pending = 0]
    BY <1>1 DEF RunPollEffect
  <2> QED  BY <1>1, <2>1 DEF Alters, Fields
<1>2. \A p, v : A(p) => /\ A([p EXCEPT !.gen = v]) /\ A([p EXCEPT !.inFlight = v])
                        /\ A([p EXCEPT !.error = v]) /\ A([p EXCEPT !.accepting = v])
                        /\ A([p EXCEPT !.pending = v])
  BY AltersField DEF Fields
<1>3. CASE Page
  BY <1>1, <1>2, <1>3, AltersNothing DEF Page, StartLoad, StartAccept, TypeQuery, PollTimer
<1>4. CASE Poll \/ PollFails
  BY <1>1, <1>2, <1>4, AltersNothing DEF Poll, PollAnswered, PollApplied, PollFails
<1>5. ASSUME NEW s \in Slots, Answer(s) PROVE Same \/ \E t \in Slots : Ends(t)
  <2>1. CASE StatusAnswered
    <3>1. \A status : [jobs["preload"] EXCEPT !.stage = "fetch", !.status = status].status = status
      BY Kinds DEF Job
    <3> QED  BY <2>1, <3>1, Kinds, ServedType, PreloadWithoutEnds DEF StatusAnswered, Wait
  <2>2. CASE AcceptAnswered
    BY <2>2, Kinds, FinishEnds DEF AcceptAnswered, Wait
  <2>3. CASE ConfigureAnswered(s)
    BY <2>3, Kinds, FinishEnds DEF ConfigureAnswered, Wait
  <2>6. CASE LegacyFails
    BY <2>6, Kinds, PreloadWithoutEnds DEF LegacyFails
  <2>4. CASE FetchFiles(s)
    BY <2>4 DEF FetchFiles
  <2>5. CASE FetchFails(s)
    BY <2>5, Kinds, FinishEnds DEF FetchFails, Wait
  <2> QED  BY <1>5, <2>1, <2>2, <2>3, <2>4, <2>5, <2>6 DEF Answer
<1>6. ASSUME NEW s \in Slots, RequestFails(s) \/ RejectionHandled(s) PROVE Ends(s)
  BY <1>6, Kinds, FinishEnds DEF RequestFails, RejectionHandled
<1>7. CASE Client
  <2>1. CASE SearchAnswered
    BY <2>1 DEF SearchAnswered
  <2>2. CASE LoadAnswered
    <3> DEFINE msg == Head(worker.outbox)
    <3>1. worker.outbox # <<>> /\ worker.outbox \in Seq(Response)
      BY <2>2 DEF LoadAnswered, WorkerType
    <3>2. msg \in Response /\ 1 \in DOMAIN worker.outbox /\ msg = worker.outbox[1]
      BY <3>1
    <3>3. msg.slot \in Slots /\ msg.bundle \in Bundles
      BY <2>2, <3>2 DEF LoadAnswered, Searching, Response
    <3>4. CASE msg.live
      <4>1. jobs[msg.slot].stage # "idle"
        BY <3>2, <3>3, <3>4 DEF ChannelInv, Channels, Live
      <4>2. Finish(msg.slot, msg.bundle, ~msg.ok, Received) /\ (~msg.ok) \in BOOLEAN
        BY <2>2, <3>4 DEF LoadAnswered
      <4> QED  BY <3>3, <4>1, <4>2, FinishEnds
    <3>5. CASE ~msg.live
      BY <2>2, <3>5 DEF LoadAnswered
    <3> QED  BY <3>4, <3>5
  <2> QED  BY <1>7, <2>1, <2>2 DEF Client
<1>8. CASE Worker \/ World \/ StatusUnreachable \/ WorkerError \/ UNCHANGED vars
  <2>1. UNCHANGED page
    BY <1>8 DEF Worker, WorkerLoads, WorkerSearches, World, TargetRewritten, RemoteRunWritten,
                OtherTabAccepts, OtherTabPolls, StatusUnreachable, WorkerError, Wait, vars
  <2> QED  BY <2>1
<1> QED  BY <1>3, <1>4, <1>5, <1>6, <1>7, <1>8 DEF Next, Fault

\* A preload or a refetch never touches a remote investigation.
LEMMA EndsSwitch ==
    ASSUME Inv, NEW s \in Slots, Ends(s), page.source = "remote", page'.shown # page.shown
    PROVE  s \in Loads \cup {"accept"} /\ jobs[s] # Idle /\ jobs'[s] = Idle
<1> USE InvParts
<1>1. PICK result \in Bundles, failed \in BOOLEAN : \E w, job :
         EndsAs(s, job) /\ FinishAs(s, job, result, failed, w)
  BY DEF Ends
<1>6. PICK w, job : EndsAs(s, job) /\ FinishAs(s, job, result, failed, w)
  BY <1>1
<1>2. /\ jobs[s] # Idle /\ jobs'[s] = Idle
      /\ job \in Job /\ job.gen = jobs[s].gen /\ (s # "preload" => job = jobs[s])
  BY <1>6 DEF Ends, FinishAs, EndsAs
<1> DEFINE o == End(s, job, result, failed)
<1>3. page'.shown = o.page.shown
  BY <1>2, <1>6, FinishSettles DEF PageInv, PendingIsRemote, Settled, Alters, Fields
<1>4. ASSUME s = "preload" PROVE FALSE
  <2>1. o = PreloadEnds(job, result, failed)
    BY <1>4, Kinds DEF End
  <2>2. ~IsPreloadStillCurrent(job)
    BY <1>2, <1>4 DEF IsPreloadStillCurrent, PageInv, Clicked, PreloadIsFirst
  <2> QED  BY <1>3, <2>1, <2>2 DEF PreloadEnds, Ignored
<1>5. ASSUME s \in Reloads PROVE FALSE
  <2>1. o = ReloadEnds(job, result, failed)
    BY <1>5, PageAssumption DEF End
  <2>2. ShouldIgnoreReload(job)
    BY <1>2, <1>5 DEF ShouldIgnoreReload, PageInv, ReloadIsOfPreload
  <2> QED  BY <1>3, <2>1, <2>2 DEF ReloadEnds, Ignored
<1> QED  BY <1>2, <1>4, <1>5 DEF Slots

\* A remote investigation stays on the page until the user loads or accepts
\* another: no poll, late preload or HMR refetch replaces it.
THEOREM NoAutoSwitchEver == Spec => NoAutoSwitch
<1> DEFINE Switch ==
      page.source = "remote" /\ page'.shown # page.shown =>
        \E s \in Loads \cup {"accept"} : jobs[s] # Idle /\ jobs'[s] = Idle
<1>1. Inv /\ [Next]_vars => [Switch]_vars
  BY ShownByEnds, EndsSwitch
<1> QED  BY <1>1, Invariance, PTL DEF Spec, NoAutoSwitch

\* What the user asked for last wins: the analysis on the page never gives way
\* to that of an operation started earlier, in whatever order the answers come.
THEOREM NewerClickWinsAlways == Spec => NewerClickWins
<1>1. Inv /\ [Next]_vars => page'.shownBy >= page.shownBy
  <2> SUFFICES ASSUME Inv, [Next]_vars PROVE page'.shownBy >= page.shownBy
    OBVIOUS
  <2>1. page.gen \in Nat /\ page.shownBy \in Nat /\ page.shownBy <= page.gen
    BY InvParts DEF PageType, PageInv, NotNewer
  <2>2. ASSUME NEW s \in Slots, Ends(s) PROVE page'.shownBy \in {page.shownBy, page.gen}
    BY <2>2, InvParts, FinishSettles DEF Ends, EndsAs, Shows, PageInv, PendingIsRemote
  <2> QED  BY <2>1, <2>2, ShownByEnds
<1> QED  BY <1>1, Invariance, PTL DEF Spec, NewerClickWins

=============================================================================
