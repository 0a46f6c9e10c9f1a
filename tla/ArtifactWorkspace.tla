-------------------------- MODULE ArtifactWorkspace --------------------------
(***************************************************************************)
(* ArtifactWorkspace (packages/core/src/artifact-workspace/index.ts): the  *)
(* one artifact session an MCP server or a CLI command holds.  Callers'    *)
(* promises run on one JavaScript thread, so a step is what runs between   *)
(* two awaits.  Most operations are chained on one promise (runSerialized) *)
(* and so execute one at a time in call order; initialize() and listRuns() *)
(* are not, and refreshIfChanged() callers share one queued refresh.       *)
(*                                                                         *)
(* A process is a caller with at most one call outstanding, or InitJob:    *)
(* the load behind initializePromise, which several callers may await.     *)
(***************************************************************************)
EXTENDS ArtifactStore, Sequences, FiniteSets, SessionBinding

CONSTANTS Clients,            \* callers of the workspace's operations
          Poller,             \* the setInterval callback of the MCP server
          InitJob,            \* the work behind initializePromise
          Operations,         \* operations the clients use
          MaxCachedTargets,   \* --max-cached-targets; 0 disables the cache
          CacheTtl,           \* --cache-ttl-ms in clock ticks; 0 disables expiry
          AutoReloadOnPoll,   \* autoReloadOnPoll; the MCP server leaves it TRUE
          Polling,            \* --poll-interval-ms is set
          MaxGeneration       \* bound: calls that start a new binding

CurrentRunId == "current"     \* the only run id the root-only layout yields

SerializedOps == {"setTarget", "unsetTarget", "clearCachedTargets", "selectRun",
                  "getLoadedWorkspace", "acceptPendingRun"}
BindingOps == {"setTarget", "unsetTarget", "clearCachedTargets"}
RefreshOps == {"refresh", "poll"}   \* refreshIfChanged, cold load allowed or not
AllOps == SerializedOps \cup RefreshOps \cup {"initialize", "listRuns"}

ASSUME WorkspaceAssumption ==
    /\ Poller \notin Clients
    /\ InitJob \notin Clients \cup {Poller}
    /\ None \notin Clients \cup {Poller}
    /\ Operations \subseteq AllOps \ {"poll"}
    /\ MaxCachedTargets \in Nat
    /\ CacheTtl \in Nat
    /\ AutoReloadOnPoll \in BOOLEAN
    /\ Polling \in BOOLEAN
    /\ MaxGeneration \in Nat

VARIABLES
    dbtTarget,          \* the bound root, or None
    loadGeneration,     \* epoch of the binding
    selectedRunId,      \* run id, or None
    runs,               \* runs of the last discovery: empty or one run
    loaded,             \* the snapshot served to use cases, or None
    stale,              \* status.stale
    lastRefreshError,   \* status.lastRefreshError is present
    pendingRun,         \* newer run waiting for acceptPendingRun, or None
    targetCache,        \* root -> cached entry, or None
    lru,                \* keys of targetCache in Map insertion order
    queue,              \* callers chained on serializedOps, the running one first
    refreshOwner,       \* caller whose queued refresh is refreshPromise, or None
    call,               \* caller -> its outstanding request, or None
    pc,                 \* process -> where it stands
    job                 \* process -> its discovery and load in progress, or None

sessionVars == <<dbtTarget, loadGeneration, selectedRunId, runs, loaded, stale,
                 lastRefreshError, pendingRun>>
cacheVars == <<targetCache, lru>>
controlVars == <<queue, refreshOwner, call, pc, job>>
vars == <<storeVars, sessionVars, cacheVars, controlVars>>

Callers == Clients \cup {Poller}
Processes == Callers \cup {InitJob}

-----------------------------------------------------------------------------
Binding == [epoch: Nat, scopeKey: Targets \cup {None}]

\* A parsed snapshot: the run it was loaded as, and which dbt invocations wrote
\* the bytes it was parsed from.
Loaded == [run: Run, manifest: Version, runResults: Version]

\* CachedTargetEntry; idle is now - lastAccessedAtMs, saturating past the ttl.
CacheEntry == [runs: SUBSET Run, selectedRunId: {CurrentRunId}, loaded: Loaded,
               idle: 0 .. CacheTtl + 1]

\* run: while discovering, the run whose version the operation compares with
\* (or, for acceptPendingRun, will load); while loading, the run being read.
Job == [target: Targets, binding: Binding, run: Run \cup {None},
        manifest: Version, runResults: Version]

\* No snapshot, and a root without a cached entry, are told from having one.
ASSUME NoneIsNoSnapshot == None \notin Loaded \cup CacheEntry

\* No selection is told from a selection.
ASSUME NoneIsNoRunId == None # CurrentRunId

Request == [op: AllOps, target: Targets \cup {None}]

\* A caller without an outstanding request is told from every caller with one.
ASSUME NoneIsNoRequest == None \notin Request

Settled == {"returned", "threw"}
Resting == Settled \cup {"idle"}
ProgramCounter == Resting \cup {"queued", "joined", "initializing", "initialized",
                                "initFailed", "discovering", "loading"}

SessionTypeOK ==
    /\ dbtTarget \in Targets \cup {None}
    /\ loadGeneration \in Nat
    /\ selectedRunId \in {CurrentRunId, None}
    /\ runs \in SUBSET Run
    /\ loaded \in Loaded \cup {None}
    /\ stale \in BOOLEAN
    /\ lastRefreshError \in BOOLEAN
    /\ pendingRun \in Run \cup {None}
    /\ targetCache \in [Targets -> CacheEntry \cup {None}]

ControlTypeOK ==
    /\ queue \in Seq(Callers)
    /\ refreshOwner \in Callers \cup {None}
    /\ call \in [Callers -> Request \cup {None}]
    /\ pc \in [Processes -> ProgramCounter]
    /\ job \in [Processes -> Job \cup {None}]

\* Every variable has the type its declaration in the class gives it.
TypeOK == StoreTypeOK /\ SessionTypeOK /\ ControlTypeOK

Init ==
    /\ StoreInit
    /\ dbtTarget \in Targets \cup {None}
    /\ loadGeneration = 0
    /\ selectedRunId = None
    /\ runs = {}
    /\ loaded = None
    /\ stale = FALSE
    /\ lastRefreshError = FALSE
    /\ pendingRun = None
    /\ targetCache = [t \in Targets |-> None]
    /\ lru = <<>>
    /\ queue = <<>>
    /\ refreshOwner = None
    /\ call = [c \in Callers |-> None]
    /\ pc = [p \in Processes |-> "idle"]
    /\ job = [p \in Processes |-> None]

-----------------------------------------------------------------------------
(* The LRU cache. *)

\* What is left of the Map's insertion order when only these keys are kept.
Kept(order, keys) ==
    LET Upto[n \in 0 .. Len(order)] ==
            IF n = 0 THEN <<>>
            ELSE IF order[n] \in keys THEN Append(Upto[n - 1], order[n])
            ELSE Upto[n - 1]
    IN  Upto[Len(order)]

\* Mutant of Touched: setting a key that is present keeps its place in the Map.
TouchedInPlace(order, t) ==
    IF \E i \in 1 .. Len(order) : order[i] = t THEN order ELSE Append(order, t)

\* The key is deleted and set again, which moves it to the end of the Map.
Touched(order, t) == Append(Kept(order, Targets \ {t}), t)

\* Mutant of PutCacheEntry: a new entry takes the victim's slot, key included.
PutInVictimsSlot(t, entry) ==
    LET order == Touched(lru, t)
        slot == IF Len(order) > MaxCachedTargets THEN Head(order) ELSE t
    IN  /\ lru' = IF Len(order) > MaxCachedTargets THEN lru ELSE order
        /\ targetCache' = [targetCache EXCEPT ![slot] = entry]

\* Mutant of PutCacheEntry: nothing is evicted.
PutUnbounded(t, entry) ==
    /\ lru' = Touched(lru, t)
    /\ targetCache' = [targetCache EXCEPT ![t] = entry]

\* putCacheEntry: the Map grows by at most one key, so at most one is dropped.
PutCacheEntry(t, entry) ==
    LET order == Touched(lru, t)
        overflows == Len(order) > MaxCachedTargets
    IN  /\ lru' = IF overflows THEN Tail(order) ELSE order
        /\ targetCache' = [u \in Targets |->
                              IF overflows /\ u = Head(order) THEN None
                              ELSE IF u = t THEN entry
                              ELSE targetCache[u]]

\* syncActiveToCache, on the values the step leaves in the session.
SyncActiveToCache(target, runId, found, snapshot) ==
    IF MaxCachedTargets = 0 \/ target = None \/ snapshot = None \/ runId = None
    THEN UNCHANGED cacheVars
    ELSE PutCacheEntry(target, [runs |-> found, selectedRunId |-> runId,
                                loaded |-> snapshot, idle |-> 0])

\* evictExpired
Expired(entry) == CacheTtl > 0 /\ entry.idle > CacheTtl

\* Mutant of Unexpired: expired entries stay.
KeepExpired == targetCache

Unexpired == [t \in Targets |->
                 IF targetCache[t] # None /\ Expired(targetCache[t]) THEN None
                 ELSE targetCache[t]]
KeysOf(cache, order) == Kept(order, {t \in Targets : cache[t] # None})

-----------------------------------------------------------------------------
(* Calls, bindings and the promise chain. *)


\* Mutant of BindingStillActive: the check after an await is missing.
BindingUnchecked(p) == TRUE

BindingStillActive(p) ==
    IsSessionBindingCurrent(job[p].binding, loadGeneration, dbtTarget)

\* discoverSource() is called: the root is read from dbtTarget now.
NewJob(target, epoch, run) ==
    [target |-> target, binding |-> CaptureSessionBinding(epoch, target), run |-> run,
     manifest |-> 0, runResults |-> 0]

\* Mutant of FinishSerialized: refreshPromise is stored with its rejection caught,
\* so only the caller that queued the refresh is told that it failed.
FinishTellingOwner(c, result) ==
    LET settles(x) == x = c \/ (c = refreshOwner /\ pc[x] = "joined")
    IN  /\ pc' = [x \in Processes |->
                    IF x = c THEN result ELSE IF settles(x) THEN "returned" ELSE pc[x]]
        /\ call' = [x \in Callers |-> IF settles(x) THEN None ELSE call[x]]
        /\ job' = [job EXCEPT ![c] = None]
        /\ queue' = Tail(queue)
        /\ refreshOwner' = IF c = refreshOwner THEN None ELSE refreshOwner

\* Mutant of FinishSerialized: refreshPromise is only reset when it resolves.
FinishKeepingFailedRefresh(c, result) ==
    LET settles(x) == x = c \/ (c = refreshOwner /\ pc[x] = "joined")
    IN  /\ pc' = [x \in Processes |-> IF settles(x) THEN result ELSE pc[x]]
        /\ call' = [x \in Callers |-> IF settles(x) THEN None ELSE call[x]]
        /\ job' = [job EXCEPT ![c] = None]
        /\ queue' = Tail(queue)
        /\ refreshOwner' = IF c = refreshOwner /\ result = "returned" THEN None
                           ELSE refreshOwner

\* The call of c settles; the next operation of the chain may start.  Callers
\* that joined the refresh of c settle with it.
FinishSerialized(c, result) ==
    LET settles(x) == x = c \/ (c = refreshOwner /\ pc[x] = "joined")
    IN  /\ pc' = [x \in Processes |-> IF settles(x) THEN result ELSE pc[x]]
        /\ call' = [x \in Callers |-> IF settles(x) THEN None ELSE call[x]]
        /\ job' = [job EXCEPT ![c] = None]
        /\ queue' = Tail(queue)
        /\ refreshOwner' = IF c = refreshOwner THEN None ELSE refreshOwner

\* A call that is not on the promise chain settles.
Finish(c, result) ==
    /\ pc' = [pc EXCEPT ![c] = result]
    /\ call' = [call EXCEPT ![c] = None]
    /\ job' = [job EXCEPT ![c] = None]
    /\ UNCHANGED <<queue, refreshOwner>>

\* Mutant of Discover: the binding is captured with the epoch of construction.
DiscoverWithFirstEpoch(c, target, run) ==
    /\ pc' = [pc EXCEPT ![c] = "discovering"]
    /\ job' = [job EXCEPT ![c] = NewJob(target, 0, run)]
    /\ UNCHANGED <<queue, refreshOwner>>

\* The operation of c captures the binding and lists the root.
Discover(c, target, run) ==
    /\ pc' = [pc EXCEPT ![c] = "discovering"]
    /\ job' = [job EXCEPT ![c] = NewJob(target, loadGeneration, run)]
    /\ UNCHANGED <<queue, refreshOwner>>

\* loadRun(source, run) is called.
StartLoading(p, run) ==
    /\ pc' = [pc EXCEPT ![p] = "loading"]
    /\ job' = [job EXCEPT ![p].run = run]
    /\ UNCHANGED <<queue, refreshOwner, call>>

\* ensureInitialized with nothing loaded: join initializePromise, or start it
\* for the given binding.
EnsureInitialized(c, target, epoch) ==
    /\ IF pc[InitJob] = "idle"
       THEN /\ pc' = [pc EXCEPT ![c] = "initializing", ![InitJob] = "discovering"]
            /\ job' = [job EXCEPT ![InitJob] = NewJob(target, epoch, None)]
       ELSE /\ pc' = [pc EXCEPT ![c] = "initializing"]
            /\ UNCHANGED job
    /\ UNCHANGED <<queue, refreshOwner>>

\* Mutant of CanInitialize: requireTarget is not called.
InitializeAlways(target) == TRUE

\* initializeInternal calls requireTarget, which throws when nothing is bound.
CanInitialize(target) == pc[InitJob] # "idle" \/ target # None

\* Mutant of SettleInitialize: a failure is swallowed.
SettleInitializeQuietly(resumed) ==
    /\ pc' = [x \in Processes |->
                 IF x = InitJob THEN "idle"
                 ELSE IF pc[x] = "initializing" THEN "initialized" ELSE pc[x]]
    /\ job' = [job EXCEPT ![InitJob] = None]
    /\ UNCHANGED <<queue, refreshOwner, call>>

\* initializePromise settles: it is forgotten and those who await it resume.
SettleInitialize(resumed) ==
    /\ pc' = [x \in Processes |->
                 IF x = InitJob THEN "idle"
                 ELSE IF pc[x] = "initializing" THEN resumed ELSE pc[x]]
    /\ job' = [job EXCEPT ![InitJob] = None]
    /\ UNCHANGED <<queue, refreshOwner, call>>

\* A snapshot is committed to the session, and to the cache.
Commit(p, runId, found) ==
    LET snapshot == [run |-> job[p].run, manifest |-> job[p].manifest,
                     runResults |-> job[p].runResults]
    IN  /\ loaded' = snapshot
        /\ selectedRunId' = runId
        /\ stale' = FALSE
        /\ lastRefreshError' = FALSE
        /\ SyncActiveToCache(dbtTarget, runId, found, snapshot)
        /\ UNCHANGED <<dbtTarget, loadGeneration, runs>>

\* Mutant of RecordRefreshError: the error is recorded, the flag is not set.
RecordErrorOnly ==
    /\ lastRefreshError' = TRUE
    /\ UNCHANGED stale

\* stale = true; lastRefreshError = message
RecordRefreshError ==
    /\ stale' = TRUE
    /\ lastRefreshError' = TRUE

\* A binding operation still queued will bump the generation.
QueuedBumps ==
    Cardinality({c \in Callers : /\ call[c] # None
                                 /\ call[c].op \in BindingOps
                                 /\ pc[c] = "queued"})

-----------------------------------------------------------------------------
(* Calls. *)

\* The request c makes; a setTarget of None is one with a blank string.
Requests(c) ==
    IF c = Poller THEN [op : IF Polling THEN {"poll"} ELSE {}, target : {None}]
    ELSE [op : Operations \ {"setTarget"}, target : {None}]
         \cup [op : Operations \cap {"setTarget"}, target : Targets \cup {None}]

WithinBound(request) ==
    request.op \in BindingOps => loadGeneration + QueuedBumps < MaxGeneration

\* runSerialized: the operation is chained behind those already called.
CallSerialized(c, request) ==
    /\ request.op \in SerializedOps
    /\ call' = [call EXCEPT ![c] = request]
    /\ pc' = [pc EXCEPT ![c] = "queued"]
    /\ queue' = Append(queue, c)
    /\ UNCHANGED <<refreshOwner, job, sessionVars>>

\* refreshIfChanged: nothing to do without a target, else join the refresh that
\* is already queued or running, else queue one with this caller's option.
CallRefresh(c, request) ==
    /\ request.op \in RefreshOps
    /\ IF dbtTarget = None
       THEN /\ pc' = [pc EXCEPT ![c] = "returned"]
            /\ UNCHANGED <<call, queue, refreshOwner>>
       ELSE /\ call' = [call EXCEPT ![c] = request]
            /\ IF refreshOwner = None
               THEN /\ refreshOwner' = c
                    /\ queue' = Append(queue, c)
                    /\ pc' = [pc EXCEPT ![c] = "queued"]
               ELSE /\ pc' = [pc EXCEPT ![c] = "joined"]
                    /\ UNCHANGED <<queue, refreshOwner>>
    /\ UNCHANGED <<job, sessionVars>>

\* initialize: ensureInitialized at once, not on the chain.
CallInitialize(c, request) ==
    /\ request.op = "initialize"
    /\ IF loaded # None
       THEN /\ pc' = [pc EXCEPT ![c] = "returned"]
            /\ UNCHANGED <<queue, refreshOwner, call, job>>
       ELSE IF ~CanInitialize(dbtTarget)
       THEN /\ pc' = [pc EXCEPT ![c] = "threw"]
            /\ UNCHANGED <<queue, refreshOwner, call, job>>
       ELSE /\ EnsureInitialized(c, dbtTarget, loadGeneration)
            /\ call' = [call EXCEPT ![c] = request]
    /\ UNCHANGED sessionVars

\* listRuns: discovers at once, not on the chain, when no run is known.
CallListRuns(c, request) ==
    /\ request.op = "listRuns"
    /\ IF runs # {} \/ dbtTarget = None
       THEN /\ pc' = [pc EXCEPT ![c] = IF runs # {} THEN "returned" ELSE "threw"]
            /\ UNCHANGED <<queue, refreshOwner, call, job>>
       ELSE /\ Discover(c, dbtTarget, None)
            /\ call' = [call EXCEPT ![c] = request]
    /\ UNCHANGED sessionVars

Call(c) ==
    /\ pc[c] \in Resting
    /\ \E request \in Requests(c) :
          /\ WithinBound(request)
          /\ \/ CallSerialized(c, request)
             \/ CallRefresh(c, request)
             \/ CallInitialize(c, request)
             \/ CallListRuns(c, request)
    /\ UNCHANGED <<storeVars, cacheVars>>

-----------------------------------------------------------------------------
(* The operation at the head of the chain starts. *)

\* c's call of op is next on the chain.
Starts(c, op) ==
    /\ queue # <<>>
    /\ Head(queue) = c
    /\ pc[c] = "queued"
    /\ call[c].op = op

\* setTarget with a blank target throws first of all.
StartSetBlankTarget(c) ==
    /\ Starts(c, "setTarget")
    /\ call[c].target = None
    /\ FinishSerialized(c, "threw")
    /\ UNCHANGED <<storeVars, sessionVars, cacheVars>>

\* setTarget to a cached root: applyCachedTarget serves the entry, moved to the
\* end of the cache, while it is revalidated.  The generation stays.
StartSetCachedTarget(c) ==
    LET t == call[c].target
        entry == Unexpired[t]
    IN  /\ Starts(c, "setTarget")
        /\ t # None
        /\ MaxCachedTargets > 0
        /\ entry # None
        /\ dbtTarget' = t
        /\ stale' = FALSE
        /\ lastRefreshError' = FALSE
        /\ runs' = entry.runs
        /\ selectedRunId' = entry.selectedRunId
        /\ loaded' = entry.loaded
        /\ targetCache' = [Unexpired EXCEPT ![t].idle = 0]
        /\ lru' = Touched(KeysOf(Unexpired, lru), t)
        /\ Discover(c, t, entry.loaded.run)
        /\ UNCHANGED <<storeVars, loadGeneration, pendingRun, call>>

\* setTarget to any other root: a new binding with nothing loaded, initialized.
StartSetNewTarget(c) ==
    LET t == call[c].target
    IN  /\ Starts(c, "setTarget")
        /\ t # None
        /\ MaxCachedTargets = 0 \/ Unexpired[t] = None
        /\ dbtTarget' = t
        /\ stale' = FALSE
        /\ lastRefreshError' = FALSE
        /\ loadGeneration' = loadGeneration + 1
        /\ selectedRunId' = None
        /\ runs' = {}
        /\ loaded' = None
        /\ targetCache' = Unexpired
        /\ lru' = KeysOf(Unexpired, lru)
        /\ EnsureInitialized(c, t, loadGeneration + 1)
        /\ UNCHANGED <<storeVars, pendingRun, call>>

StartUnsetTarget(c) ==
    /\ Starts(c, "unsetTarget")
    /\ loadGeneration' = loadGeneration + 1
    /\ dbtTarget' = None
    /\ selectedRunId' = None
    /\ runs' = {}
    /\ loaded' = None
    /\ stale' = FALSE
    /\ lastRefreshError' = FALSE
    /\ FinishSerialized(c, "returned")
    /\ UNCHANGED <<storeVars, cacheVars, pendingRun>>

StartClearCachedTargets(c) ==
    /\ Starts(c, "clearCachedTargets")
    /\ loadGeneration' = loadGeneration + 1
    /\ targetCache' = [t \in Targets |-> None]
    /\ lru' = <<>>
    /\ loaded' = None
    /\ runs' = {}
    /\ selectedRunId' = None
    /\ stale' = TRUE
    /\ lastRefreshError' = FALSE
    /\ FinishSerialized(c, "returned")
    /\ UNCHANGED <<storeVars, dbtTarget, pendingRun>>

\* refreshIfChangedInternal: the target may have been unset meanwhile; a poll
\* does not load a snapshot, an explicit refresh does; a snapshot is checked
\* for a newer version.
StartRefresh(c) ==
    /\ \E op \in RefreshOps : Starts(c, op)
    /\ \/ /\ dbtTarget = None \/ (loaded = None /\ call[c].op = "poll")
          /\ FinishSerialized(c, "returned")
       \/ /\ dbtTarget # None /\ loaded = None /\ call[c].op = "refresh"
          /\ EnsureInitialized(c, dbtTarget, loadGeneration)
          /\ UNCHANGED call
       \/ /\ dbtTarget # None /\ loaded # None
          /\ Discover(c, dbtTarget, loaded.run)
          /\ UNCHANGED call
    /\ UNCHANGED <<storeVars, sessionVars, cacheVars>>

StartGetLoadedWorkspace(c) ==
    /\ Starts(c, "getLoadedWorkspace")
    /\ \/ /\ loaded # None
          /\ FinishSerialized(c, "returned")
       \/ /\ loaded = None /\ CanInitialize(dbtTarget)
          /\ EnsureInitialized(c, dbtTarget, loadGeneration)
          /\ UNCHANGED call
       \/ /\ loaded = None /\ ~CanInitialize(dbtTarget)
          /\ FinishSerialized(c, "threw")
    /\ UNCHANGED <<storeVars, sessionVars, cacheVars>>

StartSelectRun(c) ==
    /\ Starts(c, "selectRun")
    /\ \/ /\ dbtTarget = None
          /\ FinishSerialized(c, "threw")
       \/ /\ dbtTarget # None
          /\ Discover(c, dbtTarget, None)
          /\ UNCHANGED call
    /\ UNCHANGED <<storeVars, sessionVars, cacheVars>>

StartAcceptPendingRun(c) ==
    /\ Starts(c, "acceptPendingRun")
    /\ \/ /\ pendingRun = None
          /\ FinishSerialized(c, "returned")
       \/ /\ pendingRun # None /\ dbtTarget = None
          /\ FinishSerialized(c, "threw")
       \/ /\ pendingRun # None /\ dbtTarget # None
          /\ Discover(c, dbtTarget, pendingRun)
          /\ UNCHANGED call
    /\ UNCHANGED <<storeVars, sessionVars, cacheVars>>

-----------------------------------------------------------------------------
(* initializeInternal, the work behind initializePromise. *)

InitializeDiscovers ==
    LET found == DiscoveredRuns(job[InitJob].target)
    IN  /\ pc[InitJob] = "discovering"
        /\ \/ /\ ~BindingStillActive(InitJob)
              /\ SettleInitialize("initialized")
              /\ UNCHANGED sessionVars
           \/ /\ BindingStillActive(InitJob) /\ found = {}
              /\ runs' = found
              /\ SettleInitialize("initFailed")
              /\ UNCHANGED <<dbtTarget, loadGeneration, selectedRunId, loaded, stale,
                             lastRefreshError, pendingRun>>
           \/ /\ BindingStillActive(InitJob)
              /\ \E run \in found : StartLoading(InitJob, run)
              /\ runs' = found
              /\ selectedRunId' = CurrentRunId
              /\ UNCHANGED <<dbtTarget, loadGeneration, loaded, stale, lastRefreshError,
                             pendingRun>>
        /\ UNCHANGED <<storeVars, cacheVars>>

\* Both files have been read, so loadRun can finish.
IsRead(p) ==
    /\ pc[p] = "loading"
    /\ job[p].manifest # 0
    /\ job[p].runResults # 0

InitializeCommits ==
    /\ IsRead(InitJob)
    /\ \/ /\ ~BindingStillActive(InitJob)
          /\ UNCHANGED <<sessionVars, cacheVars>>
       \/ /\ BindingStillActive(InitJob)
          /\ Commit(InitJob, selectedRunId, runs)
          /\ UNCHANGED pendingRun
    /\ SettleInitialize("initialized")
    /\ UNCHANGED storeVars

\* Listing or loading throws, and so does initializeInternal.
InitializeFails ==
    /\ pc[InitJob] \in {"discovering", "loading"}
    /\ SettleInitialize("initFailed")
    /\ UNCHANGED <<sessionVars, cacheVars>>

\* Those who awaited initializePromise go on: initialize() settles, the
\* operations of the chain finish.
Resume(c) ==
    /\ pc[c] \in {"initialized", "initFailed"}
    /\ LET failed == \/ pc[c] = "initFailed"
                     \/ call[c].op = "getLoadedWorkspace" /\ loaded = None
           result == IF failed THEN "threw" ELSE "returned"
       IN  IF call[c].op = "initialize"
           THEN Finish(c, result)
           ELSE FinishSerialized(c, result)
    /\ IF pc[c] = "initialized" /\ call[c].op = "setTarget"
       THEN SyncActiveToCache(dbtTarget, selectedRunId, runs, loaded)
       ELSE UNCHANGED cacheVars
    /\ UNCHANGED <<storeVars, sessionVars>>

-----------------------------------------------------------------------------
(* reloadSelectedRunIfVersionChanged, of a refresh and of a cached setTarget. *)

Revalidates(c) == call[c].op \in RefreshOps \cup {"setTarget"}

ReloadDiscovers(c) ==
    LET found == DiscoveredRuns(job[c].target)
        previous == job[c].run
    IN  /\ pc[c] = "discovering"
        /\ Revalidates(c)
        /\ \/ /\ ~BindingStillActive(c)
              /\ FinishSerialized(c, "returned")
              /\ UNCHANGED sessionVars
           \/ \* The selected run is gone.
              /\ BindingStillActive(c) /\ found = {}
              /\ runs' = found
              /\ RecordRefreshError
              /\ FinishSerialized(c, "returned")
              /\ UNCHANGED <<dbtTarget, loadGeneration, selectedRunId, loaded, pendingRun>>
           \/ /\ BindingStillActive(c)
              /\ \E run \in found :
                    \/ \* The version is the one already loaded.
                       /\ run.token = previous.token
                       /\ pendingRun' = None
                       /\ FinishSerialized(c, "returned")
                       /\ UNCHANGED stale
                    \/ \* A newer version is only announced.
                       /\ run.token # previous.token /\ ~AutoReloadOnPoll
                       /\ pendingRun' = run
                       /\ stale' = TRUE
                       /\ FinishSerialized(c, "returned")
                    \/ /\ run.token # previous.token /\ AutoReloadOnPoll
                       /\ StartLoading(c, run)
                       /\ UNCHANGED <<pendingRun, stale>>
              /\ runs' = found
              /\ selectedRunId' = CurrentRunId
              /\ UNCHANGED <<dbtTarget, loadGeneration, loaded, lastRefreshError>>
        /\ UNCHANGED <<storeVars, cacheVars>>

ReloadCommits(c) ==
    /\ IsRead(c)
    /\ Revalidates(c)
    /\ \/ /\ ~BindingStillActive(c)
          /\ UNCHANGED <<sessionVars, cacheVars>>
       \/ /\ BindingStillActive(c)
          /\ Commit(c, selectedRunId, runs)
          /\ pendingRun' = None
    /\ FinishSerialized(c, "returned")
    /\ UNCHANGED storeVars

\* Listing or loading throws: the snapshot stays, and is reported stale.
ReloadFails(c) ==
    /\ pc[c] \in {"discovering", "loading"}
    /\ Revalidates(c)
    /\ IF BindingStillActive(c) \/ (call[c].op = "setTarget" /\ pc[c] = "discovering")
       THEN RecordRefreshError
       ELSE UNCHANGED <<stale, lastRefreshError>>
    /\ FinishSerialized(c, "returned")
    /\ UNCHANGED <<dbtTarget, loadGeneration, selectedRunId, runs, loaded, pendingRun,
                   cacheVars>>

-----------------------------------------------------------------------------
(* selectRun, acceptPendingRun and listRuns. *)

\* selectRun records the selection before it loads the run.
SelectRunDiscovers(c) ==
    LET found == DiscoveredRuns(job[c].target)
    IN  /\ pc[c] = "discovering"
        /\ call[c].op = "selectRun"
        /\ \/ /\ ~BindingStillActive(c)
              /\ FinishSerialized(c, "returned")
              /\ UNCHANGED <<runs, selectedRunId>>
           \/ /\ BindingStillActive(c) /\ found = {}
              /\ runs' = found
              /\ FinishSerialized(c, "threw")
              /\ UNCHANGED selectedRunId
           \/ /\ BindingStillActive(c)
              /\ \E run \in found : StartLoading(c, run)
              /\ runs' = found
              /\ selectedRunId' = CurrentRunId
        /\ UNCHANGED <<storeVars, cacheVars, dbtTarget, loadGeneration, loaded, stale,
                       lastRefreshError, pendingRun>>

SelectRunCommits(c) ==
    /\ IsRead(c)
    /\ call[c].op = "selectRun"
    /\ \/ /\ ~BindingStillActive(c)
          /\ UNCHANGED <<sessionVars, cacheVars>>
       \/ /\ BindingStillActive(c)
          /\ Commit(c, selectedRunId, runs)
          /\ UNCHANGED pendingRun
    /\ FinishSerialized(c, "returned")
    /\ UNCHANGED storeVars

SelectRunFails(c) ==
    /\ pc[c] \in {"discovering", "loading"}
    /\ call[c].op = "selectRun"
    /\ FinishSerialized(c, "threw")
    /\ UNCHANGED <<sessionVars, cacheVars>>

\* acceptPendingRun discovers only to reach the store: it loads the run it
\* found pending, whatever the listing says.
AcceptPendingRunDiscovers(c) ==
    /\ pc[c] = "discovering"
    /\ call[c].op = "acceptPendingRun"
    /\ \/ /\ ~BindingStillActive(c)
          /\ FinishSerialized(c, "returned")
       \/ /\ BindingStillActive(c)
          /\ StartLoading(c, job[c].run)
    /\ UNCHANGED <<storeVars, sessionVars, cacheVars>>

AcceptPendingRunCommits(c) ==
    /\ IsRead(c)
    /\ call[c].op = "acceptPendingRun"
    /\ \/ /\ ~BindingStillActive(c)
          /\ UNCHANGED <<sessionVars, cacheVars>>
       \/ /\ BindingStillActive(c)
          /\ Commit(c, CurrentRunId, runs)
          /\ pendingRun' = None
    /\ FinishSerialized(c, "returned")
    /\ UNCHANGED storeVars

\* A failing listing rejects the call; a failing load is recorded.
AcceptPendingRunFails(c) ==
    /\ call[c] # None /\ call[c].op = "acceptPendingRun"
    /\ \/ /\ pc[c] = "discovering"
          /\ FinishSerialized(c, "threw")
          /\ UNCHANGED <<stale, lastRefreshError>>
       \/ /\ pc[c] = "loading"
          /\ RecordRefreshError
          /\ FinishSerialized(c, "returned")
    /\ UNCHANGED <<dbtTarget, loadGeneration, selectedRunId, runs, loaded, pendingRun,
                   cacheVars>>

\* listRuns keeps what it found, whatever is bound by then.
ListRunsDiscovers(c) ==
    LET found == DiscoveredRuns(job[c].target)
    IN  /\ pc[c] = "discovering"
        /\ call[c].op = "listRuns"
        /\ runs' = found
        /\ SyncActiveToCache(dbtTarget, selectedRunId, found, loaded)
        /\ Finish(c, "returned")
        /\ UNCHANGED <<storeVars, dbtTarget, loadGeneration, selectedRunId, loaded,
                       stale, lastRefreshError, pendingRun>>

ListRunsFails(c) ==
    /\ pc[c] = "discovering"
    /\ call[c].op = "listRuns"
    /\ Finish(c, "threw")
    /\ UNCHANGED <<sessionVars, cacheVars>>

-----------------------------------------------------------------------------
(* loadRun reads the two files concurrently, so in either order. *)

ReadManifest(p) ==
    /\ pc[p] = "loading"
    /\ job[p].manifest = 0
    /\ store[job[p].run.target].manifest # 0
    /\ job' = [job EXCEPT ![p].manifest = store[job[p].run.target].manifest]
    /\ UNCHANGED <<storeVars, sessionVars, cacheVars, queue, refreshOwner, call, pc>>

ReadRunResults(p) ==
    /\ pc[p] = "loading"
    /\ job[p].runResults = 0
    /\ store[job[p].run.target].runResults # 0
    /\ job' = [job EXCEPT ![p].runResults = store[job[p].run.target].runResults]
    /\ UNCHANGED <<storeVars, sessionVars, cacheVars, queue, refreshOwner, call, pc>>

\* A request of p fails: the file is gone since it was listed, or a fault.
FileIsMissing(p) ==
    /\ pc[p] = "loading"
    /\ LET contents == store[job[p].run.target]
       IN  \/ job[p].manifest = 0 /\ contents.manifest = 0
           \/ job[p].runResults = 0 /\ contents.runResults = 0

RequestFails(p) ==
    \/ FileIsMissing(p) /\ UNCHANGED storeVars
    \/ RequestFault

OperationFails(c) ==
    \/ ReloadFails(c)
    \/ SelectRunFails(c)
    \/ AcceptPendingRunFails(c)
    \/ ListRunsFails(c)

-----------------------------------------------------------------------------
StartOperation(c) ==
    \/ StartSetBlankTarget(c)
    \/ StartSetCachedTarget(c)
    \/ StartSetNewTarget(c)
    \/ StartUnsetTarget(c)
    \/ StartClearCachedTargets(c)
    \/ StartRefresh(c)
    \/ StartGetLoadedWorkspace(c)
    \/ StartSelectRun(c)
    \/ StartAcceptPendingRun(c)

ContinueOperation(c) ==
    \/ Resume(c)
    \/ ReloadDiscovers(c)
    \/ ReloadCommits(c)
    \/ SelectRunDiscovers(c)
    \/ SelectRunCommits(c)
    \/ AcceptPendingRunDiscovers(c)
    \/ AcceptPendingRunCommits(c)
    \/ ListRunsDiscovers(c)
    \/ ReadManifest(c)
    \/ ReadRunResults(c)
    \/ RequestFails(c) /\ OperationFails(c)

ContinueInitialize ==
    \/ InitializeDiscovers
    \/ InitializeCommits
    \/ ReadManifest(InitJob)
    \/ ReadRunResults(InitJob)
    \/ RequestFails(InitJob) /\ InitializeFails

\* Time passes: every cached entry ages.
Tick ==
    /\ CacheTtl > 0
    /\ targetCache' = [t \in Targets |->
                          IF targetCache[t] = None THEN None
                          ELSE [targetCache[t] EXCEPT
                                  !.idle = IF @ > CacheTtl THEN @ ELSE @ + 1]]
    /\ UNCHANGED <<storeVars, sessionVars, lru, controlVars>>

\* dbt, or a cleanup, writes to the store.
Environment == StoreNext /\ UNCHANGED <<sessionVars, cacheVars, controlVars>>

Next ==
    \/ \E c \in Callers : Call(c) \/ StartOperation(c) \/ ContinueOperation(c)
    \/ ContinueInitialize
    \/ Tick
    \/ Environment

\* The event loop runs every continuation, every request settles, and the
\* interval timer keeps firing.  Clients and dbt owe nothing.
Fairness ==
    /\ \A c \in Callers : WF_vars(StartOperation(c) \/ ContinueOperation(c))
    /\ WF_vars(ContinueInitialize)
    /\ WF_vars(Call(Poller))

Spec == Init /\ [][Next]_vars /\ Fairness

-----------------------------------------------------------------------------
(* Properties. *)

\* Stale-load rule: the snapshot that use cases are answered from was loaded
\* for the root that is bound now, whatever loads, refreshes and target switches
\* overlapped.  (loadGeneration and bindingStillActive; applyCachedTarget.)
LoadedBelongsToTarget == loaded # None => loaded.run.target = dbtTarget

\* The runs the status reports were discovered at the bound root.
RunsBelongToTarget == \A run \in runs : run.target = dbtTarget

\* A cache hit can only restore what was discovered and loaded under its own
\* key.  (syncActiveToCache takes the key and the snapshot from two fields.)
CacheBelongsToKey ==
    \A t \in Targets :
        targetCache[t] # None =>
            /\ targetCache[t].loaded.run.target = t
            /\ \A run \in targetCache[t].runs : run.target = t

\* The Map holds at most maxCachedTargets keys, and its insertion order is the
\* order of last access, which is what makes its first key the LRU victim.
CacheIsLRU ==
    /\ Len(lru) <= MaxCachedTargets
    /\ {lru[i] : i \in 1 .. Len(lru)} = {t \in Targets : targetCache[t] # None}
    /\ \A i, k \in 1 .. Len(lru) :
          i < k => /\ lru[i] # lru[k]
                   /\ targetCache[lru[i]].idle >= targetCache[lru[k]].idle

\* Nothing expired is served: an entry that outlived the ttl is never applied.
NoExpiredHit ==
    [][\A t \in Targets :
          (dbtTarget # t /\ dbtTarget' = t /\ loaded' # None)
             => ~Expired(targetCache[t])]_vars

\* A snapshot's token was taken before its bytes were read, so as long as the
\* root still lists that token the snapshot is exactly the pair in the store:
\* a refresh that sees an unchanged token may skip the reload.
UnchangedTokenMeansExact ==
    \A snapshot \in {loaded} \cup {targetCache[t].loaded : t \in {u \in Targets : targetCache[u] # None}} :
        snapshot # None /\ snapshot.run \in DiscoveredRuns(snapshot.run.target) =>
            snapshot.run.token = [manifest |-> snapshot.manifest,
                                  runResults |-> snapshot.runResults]

IsQuiet == \A p \in Processes : pc[p] \notin {"discovering", "loading"}

\* When no load is under way, a snapshot that is not the run last discovered at
\* its root is reported stale: no answer is silently outdated.
OutdatedIsStale ==
    IsQuiet /\ loaded # None => runs = {loaded.run} \/ stale

\* No call hangs: the promise chain, initializePromise and refreshPromise are
\* released on every path, failures included.
EveryCallSettles == \A c \in Callers : call[c] # None ~> call[c] = None

\* With polling, the snapshot of a root that stays bound catches up with what
\* dbt wrote there.
SnapshotCatchesUp ==
    \A t \in Targets :
        (dbtTarget = t /\ loaded # None) ~>
            \/ dbtTarget # t
            \/ loaded = None
            \/ ~Discovered(store[t])
            \/ loaded.run \in DiscoveredRuns(t)

\* The whole mechanism is an ArtifactSession: what the queue, the bindings, the
\* refreshes and the cache do to the bound root, the snapshot in use and the
\* cached snapshots is a step its abstract specification allows.
RunInUse == IF loaded = None THEN None ELSE loaded.run
SavedRuns ==
    [t \in Targets |-> IF targetCache[t] = None THEN None ELSE targetCache[t].loaded.run]

Session == INSTANCE ArtifactSession
              WITH Capacity <- MaxCachedTargets,
                   target <- dbtTarget,
                   snapshot <- RunInUse,
                   saved <- SavedRuns,
                   latest <- [t \in Targets |-> store[t].lastRun]

ImplementsSession == Session!Spec

\* The step in which a refresh of c is answered while a root stays bound.
RefreshAnswered(c) ==
    /\ call[c] # None /\ call[c].op = "refresh"
    /\ pc'[c] = "returned" /\ dbtTarget' # None

\* Refreshes are coalesced (refreshPromise): a refresh that is answered leaves a
\* snapshot of the bound root in memory, whether it loaded one itself or joined
\* the refresh another client had queued, and whatever was bound, cleared or
\* removed while it waited.  Only who joined the poll's refresh, which does not
\* load (coldLoadIfUnloaded = false), may be answered without one.
RefreshLoads ==
    [][\A c \in Callers :
          RefreshAnswered(c) =>
             loaded' # None \/ (pc[c] = "joined" /\ refreshOwner = Poller)]_vars

\* What the refresh-snapshot skill says of dbt_tools_refresh: it is done when a
\* snapshot of the bound root is in memory.  It is not when the poll's refresh
\* was the one to join.
RefreshIsDone == [][\A c \in Callers : RefreshAnswered(c) => loaded' # None]_vars

\* ... and a refresh that found the loaded version current leaves stale cleared.
RefreshClearsStale ==
    [][\A c \in Callers :
          (/\ call[c] # None /\ call[c].op \in RefreshOps
           /\ pc[c] = "discovering" /\ pc'[c] = "returned"
           /\ faults' = faults
           /\ loaded # None /\ runs' = {loaded.run})
             => ~stale']_vars

=============================================================================
