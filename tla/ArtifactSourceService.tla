------------------------ MODULE ArtifactSourceService ------------------------
(***************************************************************************)
(* ArtifactSourceService                                                   *)
(* (packages/web/src/artifact-source/source-service.ts): the one artifact  *)
(* session behind the web server's /api/artifact-source routes.  Nothing   *)
(* serializes the routes: every HTTP request runs as soon as it arrives    *)
(* and interleaves with the others at each await.  What orders them is the *)
(* session generation, bumped by configure, and the binding the work that  *)
(* crosses an await captures.                                              *)
(*                                                                         *)
(* A process is a tab or timer with at most one request outstanding, or    *)
(* Boot, the bootstrap behind initPromise that every request awaits.  The  *)
(* status and discover routes change no state and are left out, and so is  *)
(* the delegated adapter, an option of the constructor that no entry point *)
(* of the package passes.                                                  *)
(***************************************************************************)
EXTENDS ArtifactStore, SessionBinding, FiniteSets

CONSTANTS Handlers,       \* tabs and timers that send requests
          Boot,           \* the work behind initPromise
          LocalTargets,   \* the targets that are local directories
          Uses,           \* handler -> the operations it requests
          MaxGeneration   \* bound: configure requests

CurrentRunId == "current"     \* the only run id the root-only layout yields

Ops == {"configure", "refresh", "accept", "switch", "getCurrent"}

ASSUME ServiceAssumption ==
    /\ Boot \notin Handlers
    /\ LocalTargets \subseteq Targets
    /\ Uses \in [Handlers -> SUBSET Ops]
    /\ MaxGeneration \in Nat

VARIABLES
    source,              \* the configured root, or None (mode 'none')
    runs,                \* runs of the last discovery; {} when it was not ok
    selectedRunId,       \* run id, or None
    loadedVersion,       \* the run loadedVersionToken was taken from, or None
    loadedArtifactCache, \* the pinned payload, or None
    sessionGeneration,   \* epoch of the session
    remoteRefreshError,  \* a failed refresh is surfaced as discoveryError
    refresh,             \* remoteDiscoveryRefreshPromise: its job, or None
    request,             \* handler -> its request, or None (an applied configure stays)
    pc,                  \* process -> where it stands
    job                  \* process -> its discovery or read, or None

sessionVars == <<source, runs, selectedRunId, loadedVersion, loadedArtifactCache>>
controlVars == <<refresh, request, pc, job>>
vars == <<storeVars, sessionVars, sessionGeneration, remoteRefreshError, controlVars>>

Processes == Handlers \cup {Boot}

-----------------------------------------------------------------------------
Binding == [epoch: Nat, scopeKey: {CurrentRunId, None}]

\* The bytes of a run: the root they were read from, and which dbt invocation
\* wrote each file.
Payload == [run: Run, manifest: Version, runResults: Version]

\* run: None while discovering.
Job == [target: Targets, binding: Binding, run: Run \cup {None},
        manifest: Version, runResults: Version]

RefreshJob == [target: Targets, binding: Binding]

\* target: the location of a configure, None when it does not parse.
Request == [op: Ops, target: Targets \cup {None}]

\* ... and so is no payload and no request.
ASSUME NoneIsNoValue == None \notin Payload \cup Request

Settled == {"returned", "threw"}
ProgramCounter == Settled \cup {"idle", "awaitingReady", "discovering", "joined", "reading"}

\* Every variable has the type its declaration in the class gives it.
TypeOK ==
    /\ StoreTypeOK
    /\ source \in Targets \cup {None}
    /\ runs \in SUBSET Run
    /\ selectedRunId \in {CurrentRunId, None}
    /\ loadedVersion \in Run \cup {None}
    /\ loadedArtifactCache \in Payload \cup {None}
    /\ sessionGeneration \in Nat
    /\ remoteRefreshError \in BOOLEAN
    /\ refresh \in RefreshJob \cup {None}
    /\ request \in [Handlers -> Request \cup {None}]
    /\ pc \in [Processes -> ProgramCounter]
    /\ job \in [Processes -> Job \cup {None}]

\* mode === 'remote'
Remote == source # None /\ source \notin LocalTargets

NewJob(target, epoch, scopeKey, run) ==
    [target |-> target, binding |-> CaptureSessionBinding(epoch, scopeKey),
     run |-> run, manifest |-> 0, runResults |-> 0]

\* The server starts with a target from its environment, which Boot discovers,
\* or with none.
Init ==
    /\ StoreInit
    /\ source = None
    /\ runs = {}
    /\ selectedRunId = None
    /\ loadedVersion = None
    /\ loadedArtifactCache = None
    /\ sessionGeneration = 0
    /\ remoteRefreshError = FALSE
    /\ refresh = None
    /\ request = [h \in Handlers |-> None]
    /\ \E t \in Targets \cup {None} :
        /\ pc = [p \in Processes |-> IF p # Boot THEN "idle"
                                     ELSE IF t = None THEN "returned" ELSE "discovering"]
        /\ job = [p \in Processes |-> IF p = Boot /\ t # None
                                      THEN NewJob(t, 0, None, None) ELSE None]

-----------------------------------------------------------------------------
(* Bindings, and the steps every operation shares. *)

\* The request is answered: with a result, or with an error.
Settle(p, outcome) ==
    /\ pc' = [pc EXCEPT ![p] = outcome]
    /\ job' = [job EXCEPT ![p] = None]
    /\ request' = [h \in Handlers |-> IF h = p THEN None ELSE request[h]]
    /\ UNCHANGED refresh

\* Mutant of DiscoveryIsCurrent: configure does not check after its discovery.
DiscoveryUnchecked(binding) == TRUE

\* The check after a discovery, of configure and of the remote refresh.
DiscoveryIsCurrent(binding) == IsSessionBindingCurrent(binding, sessionGeneration, None)

\* The check after the read of refreshLoadedArtifactCache.
ReadIsCurrent(p) == IsSessionBindingCurrent(job[p].binding, sessionGeneration, selectedRunId)

\* Mutant of CommitVersion: the version is synced, the pinned payload kept.
CommitVersionOnly(run) ==
    /\ loadedVersion' = run
    /\ UNCHANGED loadedArtifactCache

\* syncLoadedVersionToken, and the payload of the previous version is dropped.
\* Tokens are compared as strings; made of mtimes, etags and generations, those
\* of two roots differ, so a token is represented by its run.
CommitVersion(run) ==
    /\ loadedVersion' = run
    /\ loadedArtifactCache' = None

\* refreshLoadedArtifactCache() starts to read the run just selected; its
\* callers have checked that there is one.
ReadSelected(p, run) ==
    /\ job' = [job EXCEPT ![p] = NewJob(run.target, sessionGeneration, CurrentRunId, run)]
    /\ pc' = [pc EXCEPT ![p] = "reading"]
    /\ UNCHANGED <<request, refresh>>

-----------------------------------------------------------------------------
(* Requests. *)

Configuring == {h \in Handlers : pc[h] = "awaitingReady" /\ request[h].op = "configure"}

\* A tab or timer sends its next request, once its last one is answered.
SendRequest(h, op, target) ==
    /\ op \in Uses[h]
    /\ pc[h] \in Settled \cup {"idle"}
    /\ IF op = "configure"
       THEN sessionGeneration + Cardinality(Configuring) < MaxGeneration
       ELSE target = None
    /\ request' = [request EXCEPT ![h] = [op |-> op, target |-> target]]
    /\ pc' = [pc EXCEPT ![h] = "awaitingReady"]
    /\ job' = [job EXCEPT ![h] = None]
    /\ UNCHANGED <<storeVars, sessionVars, sessionGeneration, remoteRefreshError, refresh>>

\* ensureReady() resolves, and the operation runs to its first await.
Ready(h, op) ==
    /\ pc[h] = "awaitingReady"
    /\ request[h].op = op
    /\ pc[Boot] = "returned"

\* ensureReady() rejects with what the bootstrap rejected with.
RefuseUnready(h) ==
    /\ pc[h] = "awaitingReady"
    /\ pc[Boot] = "threw"
    /\ Settle(h, "threw")
    /\ UNCHANGED <<storeVars, sessionVars, sessionGeneration, remoteRefreshError>>

\* configureArtifactSource: the generation is bumped before the location is
\* parsed.
StartConfigure(h) ==
    /\ Ready(h, "configure")
    /\ sessionGeneration' = sessionGeneration + 1
    /\ IF request[h].target = None
       THEN Settle(h, "threw")
       ELSE /\ pc' = [pc EXCEPT ![h] = "discovering"]
            /\ job' = [job EXCEPT ![h] =
                          NewJob(request[h].target, sessionGeneration + 1, None, None)]
            /\ UNCHANGED <<request, refresh>>
    /\ UNCHANGED <<storeVars, sessionVars, remoteRefreshError>>

\* refreshRemoteArtifactDiscovery: one listing at a time, joined by whoever
\* asks while it is outstanding.
StartRefresh(h) ==
    /\ Ready(h, "refresh")
    /\ IF ~Remote
       THEN Settle(h, "returned")
       ELSE /\ pc' = [pc EXCEPT ![h] = "joined"]
            /\ refresh' = IF refresh # None THEN refresh
                          ELSE [target |-> source,
                                binding |-> CaptureSessionBinding(sessionGeneration, None)]
            /\ UNCHANGED <<request, job>>
    /\ UNCHANGED <<storeVars, sessionVars, sessionGeneration, remoteRefreshError>>

\* acceptPendingRemoteRun(runId), and switchToRun(runId), which also takes a
\* local source.
Selects(h) == Ready(h, "accept") \/ Ready(h, "switch")

Selectable(h) == runs # {} /\ (request[h].op = "accept" => Remote)

RejectSelect(h) ==
    /\ Selects(h)
    /\ ~Selectable(h)
    /\ Settle(h, "threw")
    /\ UNCHANGED <<storeVars, sessionVars, sessionGeneration, remoteRefreshError>>

StartSelect(h) ==
    /\ Selects(h)
    /\ Selectable(h)
    /\ selectedRunId' = CurrentRunId
    /\ \E run \in runs : CommitVersion(run) /\ ReadSelected(h, run)
    /\ UNCHANGED <<storeVars, source, runs, sessionGeneration, remoteRefreshError>>

\* getCurrentArtifacts answers without a read: there is nothing to read, or a
\* remote payload is pinned.
AnswersAtOnce ==
    \/ selectedRunId = None
    \/ runs = {}
    \/ Remote /\ loadedArtifactCache # None /\ loadedVersion # None

StartGetCurrent(h) ==
    /\ Ready(h, "getCurrent")
    /\ IF AnswersAtOnce
       THEN Settle(h, "returned")
       ELSE \E run \in runs : ReadSelected(h, run)
    /\ UNCHANGED <<storeVars, sessionVars, sessionGeneration, remoteRefreshError>>

-----------------------------------------------------------------------------
(* Discovery. *)

\* applyDiscoveredArtifactSource with a selected run.
ApplySelected(p, run) ==
    /\ source' = run.target
    /\ runs' = {run}
    /\ selectedRunId' = CurrentRunId
    /\ CommitVersion(run)
    /\ ReadSelected(p, run)

\* configure's listing is back: superseded by a later configure it changes
\* nothing, without a complete pair it throws, and otherwise it is applied.
ConfigureDiscovers(h) ==
    /\ h \in Handlers
    /\ pc[h] = "discovering"
    /\ LET found == DiscoveredRuns(job[h].target) IN
         IF DiscoveryIsCurrent(job[h].binding) /\ found # {}
         THEN \E run \in found : ApplySelected(h, run)
         ELSE /\ Settle(h, IF DiscoveryIsCurrent(job[h].binding) THEN "threw" ELSE "returned")
              /\ UNCHANGED sessionVars
    /\ UNCHANGED <<storeVars, sessionGeneration, remoteRefreshError>>

\* The bootstrap's listing is back; a root without a complete pair is bound
\* all the same, with nothing selected.
BootDiscovers ==
    /\ pc[Boot] = "discovering"
    /\ LET found == DiscoveredRuns(job[Boot].target) IN
         IF found # {}
         THEN \E run \in found : ApplySelected(Boot, run)
         ELSE /\ source' = job[Boot].target
              /\ Settle(Boot, "returned")
              /\ UNCHANGED <<runs, selectedRunId, loadedVersion, loadedArtifactCache>>
    /\ UNCHANGED <<storeVars, sessionGeneration, remoteRefreshError>>

\* The listing itself fails.
DiscoveryFails(p) ==
    /\ pc[p] = "discovering"
    /\ RequestFault
    /\ Settle(p, "threw")
    /\ UNCHANGED <<sessionVars, sessionGeneration, remoteRefreshError>>

\* Mutant of SettleRefresh: only a successful listing answers who joined it.
SettleSuccessfulRefresh(ok) ==
    /\ pc' = [p \in Processes |-> IF ok /\ pc[p] = "joined" THEN "returned" ELSE pc[p]]
    /\ request' = [h \in Handlers |-> IF ok /\ pc[h] = "joined" THEN None ELSE request[h]]
    /\ refresh' = None
    /\ UNCHANGED job

\* The refresh never rejects: its finally clears the promise and everyone who
\* joined it is answered.
SettleRefresh(ok) ==
    /\ pc' = [p \in Processes |-> IF pc[p] = "joined" THEN "returned" ELSE pc[p]]
    /\ request' = [h \in Handlers |-> IF pc[h] = "joined" THEN None ELSE request[h]]
    /\ refresh' = None
    /\ UNCHANGED job

\* Mutant of ApplyRefreshed: the runs of the first discovery are kept.
ApplySourceOnly(target, found) ==
    /\ source' = target
    /\ UNCHANGED <<runs, selectedRunId, loadedVersion, loadedArtifactCache>>

\* applyDiscoveredArtifactSource with commitLoadedVersion: false.
ApplyRefreshed(target, found) ==
    /\ source' = target
    /\ runs' = found
    /\ UNCHANGED <<selectedRunId, loadedVersion, loadedArtifactCache>>

RefreshDiscovers ==
    /\ refresh # None
    /\ LET found == DiscoveredRuns(refresh.target)
           current == DiscoveryIsCurrent(refresh.binding)
       IN  /\ IF current /\ found # {}
              THEN ApplyRefreshed(refresh.target, found)
              ELSE UNCHANGED sessionVars
           /\ remoteRefreshError' = IF current THEN found = {} ELSE remoteRefreshError
           /\ SettleRefresh(found # {})
    /\ UNCHANGED <<storeVars, sessionGeneration>>

RefreshFails ==
    /\ refresh # None
    /\ RequestFault
    /\ remoteRefreshError' = (remoteRefreshError \/ DiscoveryIsCurrent(refresh.binding))
    /\ SettleRefresh(FALSE)
    /\ UNCHANGED <<sessionVars, sessionGeneration>>

-----------------------------------------------------------------------------
(* Reading the two required files of a run, at the same time. *)

ReadManifest(p) ==
    /\ pc[p] = "reading"
    /\ job[p].manifest = 0
    /\ store[job[p].target].manifest # 0
    /\ job' = [job EXCEPT ![p].manifest = store[job[p].target].manifest]
    /\ UNCHANGED <<storeVars, sessionVars, sessionGeneration, remoteRefreshError,
                   refresh, request, pc>>

ReadRunResults(p) ==
    /\ pc[p] = "reading"
    /\ job[p].runResults = 0
    /\ store[job[p].target].runResults # 0
    /\ job' = [job EXCEPT ![p].runResults = store[job[p].target].runResults]
    /\ UNCHANGED <<storeVars, sessionVars, sessionGeneration, remoteRefreshError,
                   refresh, request, pc>>

\* A read is rejected: the request fails, or the file is gone by now.  What
\* was committed before the read stays committed.
ReadFails(p) ==
    /\ pc[p] = "reading"
    /\ 0 \in {job[p].manifest, job[p].runResults}
    /\ \/ RequestFault
       \/ /\ \/ job[p].manifest = 0 /\ store[job[p].target].manifest = 0
             \/ job[p].runResults = 0 /\ store[job[p].target].runResults = 0
          /\ UNCHANGED storeVars
    /\ Settle(p, "threw")
    /\ UNCHANGED <<sessionVars, sessionGeneration, remoteRefreshError>>

Fetches(p) == p # Boot /\ request[p].op = "getCurrent"

Configures(p) == p # Boot /\ request[p].op = "configure"

\* Mutant of PinsFetched: the version is not compared again after the read.
PinsAnyRemote(p) == Remote

\* What getCurrentArtifacts read is pinned if it is still the loaded version.
PinsFetched(p) == Remote /\ loadedVersion = job[p].run

FinishRead(p) ==
    /\ pc[p] = "reading"
    /\ 0 \notin {job[p].manifest, job[p].runResults}
    /\ loadedArtifactCache' =
          IF (IF Fetches(p) THEN PinsFetched(p) ELSE ReadIsCurrent(p))
          THEN [run |-> job[p].run, manifest |-> job[p].manifest,
                runResults |-> job[p].runResults]
          ELSE loadedArtifactCache
    /\ IF Configures(p)
       THEN pc' = [pc EXCEPT ![p] = "returned"] /\ UNCHANGED <<request, job, refresh>>
       ELSE Settle(p, "returned")
    /\ UNCHANGED <<storeVars, source, runs, selectedRunId, loadedVersion,
                   sessionGeneration, remoteRefreshError>>

-----------------------------------------------------------------------------
Send(h) ==
    \E op \in Ops : \E target \in Targets \cup {None} : SendRequest(h, op, target)

Start(h) ==
    \/ RefuseUnready(h)
    \/ StartConfigure(h)
    \/ StartRefresh(h)
    \/ RejectSelect(h)
    \/ StartSelect(h)
    \/ StartGetCurrent(h)

Discovers(p) == ConfigureDiscovers(p) \/ DiscoveryFails(p)

Reads(p) == ReadManifest(p) \/ ReadRunResults(p) \/ ReadFails(p) \/ FinishRead(p)

StoreStep ==
    /\ StoreNext
    /\ UNCHANGED <<sessionVars, sessionGeneration, remoteRefreshError, controlVars>>

RefreshStep == RefreshDiscovers \/ RefreshFails

Next ==
    \/ \E h \in Handlers : Send(h) \/ Start(h)
    \/ \E p \in Processes : Discovers(p) \/ Reads(p)
    \/ BootDiscovers
    \/ RefreshStep
    \/ StoreStep

Spec == Init /\ [][Next]_vars

\* The event loop runs every continuation, and every request to the file system
\* or the object store is answered.  A handler whose only operation is refresh
\* is a timer, which keeps firing.
Fairness ==
    /\ \A h \in Handlers : WF_vars(Start(h))
    /\ \A h \in Handlers : Uses[h] = {"refresh"} => WF_vars(Send(h))
    /\ \A p \in Processes : WF_vars(Discovers(p) \/ Reads(p))
    /\ WF_vars(BootDiscovers \/ DiscoveryFails(Boot))
    /\ WF_vars(RefreshStep)

FairSpec == Spec /\ Fairness

-----------------------------------------------------------------------------
(* Properties. *)

\* The pinned payload (loadedArtifactCache) is of the root and of at least the
\* version that loadedVersionToken names: no read that was overtaken by a
\* configure, an accept or a refresh may leave other or older bytes under it.
CacheBelongsToVersion ==
    loadedArtifactCache # None =>
        /\ loadedVersion # None
        /\ loadedArtifactCache.run.target = loadedVersion.target
        /\ loadedArtifactCache.manifest >= loadedVersion.token.manifest
        /\ loadedArtifactCache.runResults >= loadedVersion.token.runResults

\* When the root still has the version the session calls loaded, no pending run
\* is offered, so the pinned bytes must be exactly those in the root.
UnchangedVersionIsExact ==
    (/\ loadedArtifactCache # None
     /\ loadedVersion # None
     /\ VersionToken(store[loadedVersion.target]) = loadedVersion.token)
    => /\ loadedArtifactCache.manifest = loadedVersion.token.manifest
       /\ loadedArtifactCache.runResults = loadedVersion.token.runResults

\* A configure that was answered with a status and that no later configure
\* superseded is in effect: the loaded version is of the location it named, and
\* so are the pinned bytes, which are there.
ConfigureTakesEffect ==
    \A h \in Handlers :
        (/\ pc[h] = "returned"
         /\ request[h] # None
         /\ job[h].binding.epoch = sessionGeneration)
        => /\ loadedVersion # None /\ loadedVersion.target = request[h].target
           /\ loadedArtifactCache # None
           /\ loadedArtifactCache.run.target = request[h].target

\* A refresh that was in flight never reverts the source a user configured:
\* only configure and the bootstrap choose the root.
RefreshKeepsSource == [][RefreshStep => source' = source]_vars

\* The error of a remote refresh is never shown for a local source.
RefreshErrorIsOfRemote == remoteRefreshError => source \notin LocalTargets

\* Every request is answered, whatever fails and whoever overlaps with it.
EveryRequestSettles ==
    \A h \in Handlers : pc[h] = "awaitingReady" ~> pc[h] \in Settled

\* Polling notices what dbt wrote to the configured prefix, although listings
\* fail: the runs that the status is made from become those of the prefix,
\* unless they are removed, another source is configured or the bootstrap has
\* failed.
NewRunIsNoticed ==
    \A t \in Targets \ LocalTargets :
        (source = t /\ Discovered(store[t]))
            ~> (\/ runs = DiscoveredRuns(t)
                \/ ~Discovered(store[t])
                \/ source # t
                \/ pc[Boot] = "threw")

=============================================================================
