----------------------- MODULE ArtifactWorkspaceProofs -----------------------
(***************************************************************************)
(* Theorems about ArtifactWorkspace, for any number of clients, roots, dbt *)
(* invocations and faults, and any cache size.                             *)
(*                                                                         *)
(* The control state (promise chain, promises, what each process is doing) *)
(* changes only through six operators, so its invariant ControlInv is      *)
(* proved operator by operator; each action then adds what it does to the  *)
(* session.                                                                *)
(***************************************************************************)
EXTENDS ArtifactWorkspace, ArtifactStoreProofs, InductionLemmas, FiniteSetTheorems

\* c's operation has left the start of the promise chain and not yet settled.
OnChain(c) ==
    /\ pc[c] \in {"initializing", "initialized", "initFailed", "discovering", "loading"}
    /\ call[c].op # "initialize"
    /\ ~(call[c].op = "listRuns" /\ pc[c] = "discovering")

\* c's acceptPendingRun lists the root; the run it will load is chosen.
Accepting(c) == pc[c] = "discovering" /\ call[c].op = "acceptPendingRun"

ControlInv ==
    /\ ControlTypeOK
    /\ pc[InitJob] \in {"idle", "discovering", "loading"}
    /\ \A c \in Callers : pc[c] \notin Resting => call[c] \in Request
    /\ \A c \in Callers : OnChain(c) => queue # <<>> /\ Head(queue) = c
    /\ \A p \in Processes : pc[p] \in {"discovering", "loading"} => job[p] \in Job
    /\ \A p \in Processes : pc[p] = "loading" => job[p].run \in Run
    /\ \A c \in Callers : Accepting(c) => job[c].run \in Run

LEMMA Disjoint ==
    /\ InitJob \notin Callers
    /\ None \notin Callers
    /\ InitJob \in Processes
    /\ Callers \subseteq Processes
    /\ \A p \in Processes : p # InitJob => p \in Callers
BY WorkspaceAssumption DEF Callers, Processes

LEMMA NewJobType ==
    ASSUME NEW t \in Targets, NEW epoch \in Nat, NEW run \in Run \cup {None}
    PROVE  NewJob(t, epoch, run) \in Job
BY StoreAssumption DEF NewJob, Job, Binding, Version, CaptureSessionBinding

\* What the six control operators do to one process, for the lemmas below.
LEMMA FinishSerializedInv ==
    ASSUME ControlInv, NEW c \in Callers, NEW result \in Settled,
           queue # <<>>, Head(queue) = c, FinishSerialized(c, result)
    PROVE  ControlInv'
<1> USE Disjoint
<1>1. ControlTypeOK'
  BY DEF ControlInv, ControlTypeOK, FinishSerialized, Settled, Resting, ProgramCounter
<1>2. \A x \in Processes : pc'[x] \notin Settled => pc'[x] = pc[x]
  BY DEF ControlInv, ControlTypeOK, FinishSerialized
<1>3. \A x \in Callers : pc'[x] \notin Settled =>
                             x # c /\ pc'[x] = pc[x] /\ call'[x] = call[x]
  BY DEF ControlInv, ControlTypeOK, FinishSerialized
<1>4. \A x \in Processes : x # c => job'[x] = job[x]
  BY DEF ControlInv, ControlTypeOK, FinishSerialized
<1>5. pc'[InitJob] = pc[InitJob]
  BY DEF ControlInv, ControlTypeOK, FinishSerialized
<1>6. \A x \in Callers : ~OnChain(x)'
  <2> SUFFICES ASSUME NEW x \in Callers, OnChain(x)' PROVE FALSE
    OBVIOUS
  <2>1. x # c /\ pc'[x] = pc[x] /\ call'[x] = call[x]
    BY <1>3 DEF OnChain, Settled
  <2>2. OnChain(x)
    BY <2>1 DEF OnChain
  <2> QED  BY <2>1, <2>2 DEF ControlInv
<1>7. \A x \in Callers : pc'[x] \notin Resting => call'[x] \in Request
  BY <1>3 DEF ControlInv, Resting
<1>8. pc'[c] \in Settled
  BY DEF ControlInv, ControlTypeOK, FinishSerialized
<1>9. \A p \in Processes : pc'[p] \in {"discovering", "loading"} => job'[p] \in Job
  BY <1>2, <1>4, <1>8 DEF ControlInv, Settled
<1>10. \A p \in Processes : pc'[p] = "loading" => job'[p].run \in Run
  BY <1>2, <1>4, <1>8 DEF ControlInv, Settled
<1>11. \A x \in Callers : Accepting(x)' => job'[x].run \in Run
  BY <1>3, <1>4 DEF Accepting, ControlInv, Settled
<1> QED  BY <1>1, <1>5, <1>6, <1>7, <1>9, <1>10, <1>11 DEF ControlInv

LEMMA FinishInv ==
    ASSUME ControlInv, NEW c \in Callers, NEW result \in Settled, Finish(c, result)
    PROVE  ControlInv'
<1> USE Disjoint
<1>1. ControlTypeOK'
  BY DEF ControlInv, ControlTypeOK, Finish, Settled, Resting, ProgramCounter
<1>2. /\ pc'[c] = result
      /\ \A x \in Processes : x # c => pc'[x] = pc[x] /\ job'[x] = job[x]
      /\ \A x \in Callers : x # c => call'[x] = call[x]
  BY DEF ControlInv, ControlTypeOK, Finish
<1>3. \A x \in Callers : OnChain(x)' => OnChain(x)
  BY <1>2 DEF OnChain, Settled
<1>4. queue' = queue
  BY DEF Finish
<1>5. \A x \in Callers : Accepting(x)' => Accepting(x) /\ x # c
  BY <1>2 DEF Accepting, Settled
<1> QED  BY <1>1, <1>2, <1>3, <1>4, <1>5 DEF ControlInv, Settled, Resting

LEMMA DiscoverInv ==
    ASSUME ControlInv, NEW c \in Callers, NEW t \in Targets, NEW run \in Run \cup {None},
           loadGeneration \in Nat, call'[c] \in Request,
           call' = [call EXCEPT ![c] = call'[c]],
           \/ call'[c].op = "listRuns"
           \/ queue # <<>> /\ Head(queue) = c,
           call'[c].op = "acceptPendingRun" => run \in Run,
           Discover(c, t, run)
    PROVE  ControlInv'
<1> USE Disjoint
<1>1. NewJob(t, loadGeneration, run) \in Job
  BY NewJobType
<1>2. ControlTypeOK'
  BY <1>1 DEF ControlInv, ControlTypeOK, Discover, Resting, ProgramCounter
<1>3. /\ pc'[c] = "discovering" /\ job'[c] \in Job
      /\ \A x \in Processes : x # c => pc'[x] = pc[x] /\ job'[x] = job[x]
      /\ \A x \in Callers : x # c => call'[x] = call[x]
      /\ queue' = queue
  BY <1>1 DEF ControlInv, ControlTypeOK, Discover
<1>5. job'[c].run = run
  BY DEF ControlInv, ControlTypeOK, Discover, NewJob
<1>6. \A x \in Callers : Accepting(x)' => job'[x].run \in Run
  BY <1>3, <1>5 DEF Accepting, ControlInv
<1>4. \A x \in Callers : OnChain(x)' => OnChain(x) \/ (x = c /\ queue # <<>> /\ Head(queue) = c)
  BY <1>3 DEF OnChain
<1> QED  BY <1>2, <1>3, <1>4, <1>6 DEF ControlInv, Resting, Settled

LEMMA StartLoadingInv ==
    ASSUME ControlInv, NEW p \in Processes, pc[p] = "discovering",
           p \in Callers => OnChain(p), NEW run \in Run, StartLoading(p, run)
    PROVE  ControlInv'
<1> USE Disjoint
<1>1. job[p] \in Job
  BY DEF ControlInv
<1>2. job'[p] \in Job /\ job'[p].run = run
  BY <1>1 DEF ControlInv, ControlTypeOK, StartLoading, Job
<1>3. /\ pc'[p] = "loading"
      /\ \A x \in Processes : x # p => pc'[x] = pc[x] /\ job'[x] = job[x]
      /\ call' = call /\ queue' = queue
  BY DEF ControlInv, ControlTypeOK, StartLoading
<1>4. ControlTypeOK'
  BY <1>2 DEF ControlInv, ControlTypeOK, StartLoading, Resting, ProgramCounter
<1>5. \A x \in Callers : OnChain(x)' => OnChain(x)
  BY <1>3 DEF OnChain
<1>6. \A x \in Callers : Accepting(x)' => Accepting(x) /\ x # p
  BY <1>3 DEF Accepting
<1> QED  BY <1>2, <1>3, <1>4, <1>5, <1>6 DEF ControlInv, Resting, Settled

LEMMA EnsureInitializedInv ==
    ASSUME ControlInv, NEW c \in Callers, NEW t \in Targets \cup {None}, NEW epoch \in Nat,
           CanInitialize(t), call'[c] \in Request,
           call' = [call EXCEPT ![c] = call'[c]],
           \/ call'[c].op = "initialize"
           \/ queue # <<>> /\ Head(queue) = c,
           EnsureInitialized(c, t, epoch)
    PROVE  ControlInv'
<1> USE Disjoint
<1>1. /\ pc'[c] = "initializing"
      /\ \A x \in Callers : x # c => pc'[x] = pc[x] /\ job'[x] = job[x] /\ call'[x] = call[x]
      /\ queue' = queue
  BY DEF ControlInv, ControlTypeOK, EnsureInitialized
<1>2. ASSUME pc[InitJob] = "idle"
      PROVE  pc'[InitJob] = "discovering" /\ job'[InitJob] \in Job
  <2>1. t \in Targets
    BY <1>2 DEF CanInitialize
  <2>2. NewJob(t, epoch, None) \in Job
    BY <2>1, NewJobType
  <2> QED  BY <1>2, <2>2 DEF ControlInv, ControlTypeOK, EnsureInitialized
<1>3. ASSUME pc[InitJob] # "idle"
      PROVE  pc'[InitJob] = pc[InitJob] /\ job' = job
  BY <1>3 DEF ControlInv, ControlTypeOK, EnsureInitialized
<1>4. pc' \in [Processes -> ProgramCounter]
  BY DEF ControlInv, ControlTypeOK, EnsureInitialized, ProgramCounter
<1>5. job' \in [Processes -> Job \cup {None}]
  <2>1. CASE pc[InitJob] = "idle"
    <3>1. NewJob(t, epoch, None) \in Job
      BY <2>1, NewJobType DEF CanInitialize
    <3> QED  BY <2>1, <3>1 DEF ControlInv, ControlTypeOK, EnsureInitialized
  <2>2. CASE pc[InitJob] # "idle"
    BY <2>2, <1>3 DEF ControlInv, ControlTypeOK
  <2> QED  BY <2>1, <2>2
<1>6. ControlTypeOK'
  BY <1>4, <1>5 DEF ControlInv, ControlTypeOK, EnsureInitialized
<1>7. \A x \in Callers : OnChain(x)' => OnChain(x) \/ (x = c /\ queue # <<>> /\ Head(queue) = c)
  BY <1>1 DEF OnChain
<1>8. pc'[InitJob] \in {"discovering", "loading"}
  BY <1>2, <1>3 DEF ControlInv
<1>9. job'[InitJob] \in Job /\ (pc'[InitJob] = "loading" => job'[InitJob].run \in Run)
  BY <1>2, <1>3 DEF ControlInv
<1>10. \A x \in Callers : pc'[x] \notin Resting => call'[x] \in Request
  BY <1>1 DEF ControlInv
<1>11. \A x \in Callers : pc'[x] \in {"discovering", "loading"} => job'[x] \in Job
  BY <1>1 DEF ControlInv
<1>12. \A x \in Callers : pc'[x] = "loading" => job'[x].run \in Run
  BY <1>1 DEF ControlInv
<1>13. \A x \in Callers : Accepting(x)' => job'[x].run \in Run
  BY <1>1 DEF Accepting, ControlInv
<1> QED
  BY <1>1, <1>6, <1>7, <1>8, <1>9, <1>10, <1>11, <1>12, <1>13 DEF ControlInv

LEMMA SettleInitializeInv ==
    ASSUME ControlInv, NEW resumed \in {"initialized", "initFailed"},
           SettleInitialize(resumed)
    PROVE  ControlInv'
<1> USE Disjoint
<1>1. /\ pc'[InitJob] = "idle" /\ queue' = queue /\ call' = call
      /\ \A x \in Callers : /\ job'[x] = job[x]
                             /\ pc'[x] = IF pc[x] = "initializing" THEN resumed ELSE pc[x]
  BY DEF ControlInv, ControlTypeOK, SettleInitialize
<1>2. ControlTypeOK'
  BY DEF ControlInv, ControlTypeOK, SettleInitialize, ProgramCounter, Resting
<1>3. \A x \in Callers : OnChain(x)' => OnChain(x)
  BY <1>1 DEF OnChain
<1>4. \A x \in Callers : Accepting(x)' => Accepting(x)
  BY <1>1 DEF Accepting
<1> QED  BY <1>1, <1>2, <1>3, <1>4 DEF ControlInv, Resting, Settled

-----------------------------------------------------------------------------
(* The session and the cache. *)

LEMMA DiscoveredRunsType ==
    ASSUME StoreTypeOK, NEW t \in Targets
    PROVE  /\ DiscoveredRuns(t) \in SUBSET Run
           /\ \A run \in DiscoveredRuns(t) : run.target = t
BY DEF StoreTypeOK, DiscoveredRuns, Contents, Run, Token, VersionToken

LEMMA UnexpiredType ==
    ASSUME SessionTypeOK
    PROVE  Unexpired \in [Targets -> CacheEntry \cup {None}]
BY DEF SessionTypeOK, Unexpired

LEMMA PutCacheEntryType ==
    ASSUME SessionTypeOK, NEW t \in Targets, NEW entry \in CacheEntry,
           PutCacheEntry(t, entry)
    PROVE  targetCache' \in [Targets -> CacheEntry \cup {None}]
BY DEF SessionTypeOK, PutCacheEntry

LEMMA SyncActiveToCacheType ==
    ASSUME SessionTypeOK, NEW t \in Targets \cup {None}, NEW id \in {CurrentRunId, None},
           NEW found \in SUBSET Run, NEW snapshot \in Loaded \cup {None},
           SyncActiveToCache(t, id, found, snapshot)
    PROVE  targetCache' \in [Targets -> CacheEntry \cup {None}]
<1>1. CASE MaxCachedTargets = 0 \/ t = None \/ snapshot = None \/ id = None
  BY <1>1 DEF SyncActiveToCache, SessionTypeOK, cacheVars
<1>2. CASE ~(MaxCachedTargets = 0 \/ t = None \/ snapshot = None \/ id = None)
  <2> DEFINE entry == [runs |-> found, selectedRunId |-> id, loaded |-> snapshot, idle |-> 0]
  <2>1. entry \in CacheEntry
    BY <1>2, WorkspaceAssumption DEF CacheEntry
  <2>2. PutCacheEntry(t, entry)
    BY <1>2 DEF SyncActiveToCache
  <2> QED  BY <1>2, <2>1, <2>2, PutCacheEntryType
<1> QED  BY <1>1, <1>2

\* What a process that has read both files commits.
SnapshotOf(p) == [run |-> job[p].run, manifest |-> job[p].manifest,
                  runResults |-> job[p].runResults]

LEMMA CommitType ==
    ASSUME SessionTypeOK, ControlInv, NEW p \in Processes, IsRead(p),
           NEW id \in {CurrentRunId, None}, pendingRun' \in Run \cup {None},
           Commit(p, id, runs)
    PROVE  SessionTypeOK'
<1>1. SnapshotOf(p) \in Loaded
  BY DEF SnapshotOf, Loaded, IsRead, ControlInv, Job
<1>2. SyncActiveToCache(dbtTarget, id, runs, SnapshotOf(p))
  BY DEF Commit, SnapshotOf
<1>3. targetCache' \in [Targets -> CacheEntry \cup {None}]
  BY <1>1, <1>2, SyncActiveToCacheType DEF SessionTypeOK
<1> QED  BY <1>1, <1>3 DEF Commit, SnapshotOf, SessionTypeOK

-----------------------------------------------------------------------------
(* Type correctness. *)

TypeInv == StoreTypeOK /\ SessionTypeOK /\ ControlInv

LEMMA InitTypeInv == Init => TypeInv
<1> SUFFICES ASSUME Init PROVE TypeInv
  OBVIOUS
<1> USE DEF Init
<1>1. StoreTypeOK
  BY StoreAssumption DEF StoreInit, StoreTypeOK, Contents, Version
<1>2. SessionTypeOK
  BY DEF SessionTypeOK
<1>3. ControlInv
  BY Disjoint DEF ControlInv, ControlTypeOK, OnChain, Accepting, Resting, Settled, ProgramCounter
<1> QED  BY <1>1, <1>2, <1>3 DEF TypeInv

LEMMA CallTypeInv ==
    ASSUME TypeInv, NEW c \in Callers, Call(c)
    PROVE  TypeInv'
<1> USE DEF TypeInv
<1>1. StoreTypeOK' /\ SessionTypeOK'
  BY DEF Call, CallSerialized, CallRefresh, CallInitialize, CallListRuns, StoreTypeOK,
         SessionTypeOK, storeVars, sessionVars, cacheVars
<1>2. PICK request \in Requests(c) :
         \/ CallSerialized(c, request)
         \/ CallRefresh(c, request)
         \/ CallInitialize(c, request)
         \/ CallListRuns(c, request)
  BY DEF Call
<1>3. request \in Request
  BY WorkspaceAssumption DEF Requests, Request, AllOps, RefreshOps
<1>4. pc[c] \in Resting
  BY DEF Call
<1> USE Disjoint
<1>5. CASE CallSerialized(c, request)
  <2>1. ControlTypeOK'
    BY <1>3, <1>5 DEF CallSerialized, ControlInv, ControlTypeOK, ProgramCounter
  <2>2. /\ pc'[c] = "queued" /\ call'[c] \in Request
        /\ \A x \in Processes : x # c => pc'[x] = pc[x]
        /\ \A x \in Callers : x # c => call'[x] = call[x]
        /\ job' = job /\ queue' = Append(queue, c)
    BY <1>3, <1>5 DEF CallSerialized, ControlInv, ControlTypeOK
  <2>3. \A x \in Callers : OnChain(x)' => OnChain(x) /\ x # c
    BY <2>2 DEF OnChain
  <2>4. queue # <<>> => queue' # <<>> /\ Head(queue') = Head(queue)
    BY <2>2 DEF ControlInv, ControlTypeOK
  <2>5. \A x \in Callers : Accepting(x)' => Accepting(x) /\ x # c
    BY <2>2 DEF Accepting
  <2> QED  BY <1>1, <2>1, <2>2, <2>3, <2>4, <2>5 DEF ControlInv
<1>6. CASE CallRefresh(c, request)
  <2>1. ControlTypeOK'
    <3>1. queue' \in Seq(Callers) /\ refreshOwner' \in Callers \cup {None}
      BY <1>6 DEF CallRefresh, ControlInv, ControlTypeOK
    <3>2. pc' \in [Processes -> ProgramCounter]
      BY <1>6 DEF CallRefresh, ControlInv, ControlTypeOK, ProgramCounter, Resting, Settled
    <3>3. call' \in [Callers -> Request \cup {None}] /\ job' = job
      BY <1>3, <1>6 DEF CallRefresh, ControlInv, ControlTypeOK
    <3> QED  BY <3>1, <3>2, <3>3 DEF ControlInv, ControlTypeOK
  <2>2. /\ pc'[c] \in {"queued", "joined", "returned"}
        /\ pc'[c] # "returned" => call'[c] \in Request
        /\ \A x \in Processes : x # c => pc'[x] = pc[x]
        /\ \A x \in Callers : x # c => call'[x] = call[x]
        /\ job' = job /\ (queue' = queue \/ queue' = Append(queue, c))
    BY <1>3, <1>6 DEF CallRefresh, ControlInv, ControlTypeOK
  <2>3. \A x \in Callers : OnChain(x)' => OnChain(x) /\ x # c
    BY <2>2 DEF OnChain
  <2>4. queue # <<>> => queue' # <<>> /\ Head(queue') = Head(queue)
    BY <2>2 DEF ControlInv, ControlTypeOK
  <2>5. \A x \in Callers : Accepting(x)' => Accepting(x) /\ x # c
    BY <2>2 DEF Accepting
  <2> QED  BY <1>1, <2>1, <2>2, <2>3, <2>4, <2>5 DEF ControlInv, Resting, Settled
<1>7. ASSUME UNCHANGED <<queue, refreshOwner, call, job>>,
             \E result \in Settled : pc' = [pc EXCEPT ![c] = result]
      PROVE  ControlInv'
  <2>1. /\ pc'[c] \in Settled
        /\ \A x \in Processes : x # c => pc'[x] = pc[x]
    BY <1>7 DEF ControlInv, ControlTypeOK
  <2>2. ControlTypeOK'
    BY <1>7 DEF ControlInv, ControlTypeOK, ProgramCounter, Resting
  <2>3. \A x \in Callers : OnChain(x)' => OnChain(x)
    BY <1>7, <2>1 DEF OnChain, Settled
  <2>4. \A x \in Callers : Accepting(x)' => Accepting(x)
    BY <1>7, <2>1 DEF Accepting, Settled
  <2> QED  BY <1>7, <2>1, <2>2, <2>3, <2>4 DEF ControlInv, Resting, Settled
<1>8. CASE CallInitialize(c, request)
  <2>1. CASE loaded # None
    BY <1>1, <1>7, <1>8, <2>1 DEF CallInitialize, Settled
  <2>2. CASE loaded = None /\ ~CanInitialize(dbtTarget)
    BY <1>1, <1>7, <1>8, <2>2 DEF CallInitialize, Settled
  <2>3. CASE loaded = None /\ CanInitialize(dbtTarget)
    <3>1. /\ EnsureInitialized(c, dbtTarget, loadGeneration)
          /\ call' = [call EXCEPT ![c] = request]
          /\ request.op = "initialize"
      BY <1>8, <2>3 DEF CallInitialize
    <3>2. call'[c] = request
      BY <3>1 DEF ControlInv, ControlTypeOK
    <3> QED
      BY <1>1, <1>3, <2>3, <3>1, <3>2, EnsureInitializedInv DEF SessionTypeOK
  <2> QED  BY <2>1, <2>2, <2>3
<1>9. CASE CallListRuns(c, request)
  <2>1. CASE runs # {} \/ dbtTarget = None
    BY <1>1, <1>7, <1>9, <2>1 DEF CallListRuns, Settled
  <2>2. CASE ~(runs # {} \/ dbtTarget = None)
    <3>1. /\ Discover(c, dbtTarget, None)
          /\ call' = [call EXCEPT ![c] = request]
          /\ request.op = "listRuns"
      BY <1>9, <2>2 DEF CallListRuns
    <3>2. call'[c] = request
      BY <3>1 DEF ControlInv, ControlTypeOK
    <3> QED
      BY <1>1, <1>3, <2>2, <3>1, <3>2, DiscoverInv DEF SessionTypeOK
  <2> QED  BY <2>1, <2>2
<1> QED  BY <1>2, <1>5, <1>6, <1>8, <1>9

\* An operation that starts is at the head of the chain and was called.
LEMMA StartsFacts ==
    ASSUME ControlInv, NEW c \in Callers, NEW op, Starts(c, op)
    PROVE  /\ queue # <<>> /\ Head(queue) = c
           /\ call[c] \in Request /\ call[c].op = op
BY DEF Starts, ControlInv, Resting, Settled

LEMMA StartTypeInv ==
    ASSUME TypeInv, NEW c \in Callers, StartOperation(c)
    PROVE  TypeInv'
<1> USE DEF TypeInv
<1>a. call = [call EXCEPT ![c] = call[c]]
  BY DEF ControlInv, ControlTypeOK
<1>b. \A result \in {"returned", "threw"} : result \in Settled
  BY DEF Settled
<1>1. CASE StartSetBlankTarget(c)
  <2>1. StoreTypeOK' /\ SessionTypeOK'
    BY <1>1 DEF StartSetBlankTarget, StoreTypeOK, SessionTypeOK, storeVars, sessionVars, cacheVars
  <2> QED
    BY <1>1, <1>b, <2>1, StartsFacts, FinishSerializedInv DEF StartSetBlankTarget
<1>2. CASE StartSetCachedTarget(c)
  <2> DEFINE t == call[c].target
             entry == Unexpired[t]
  <2>1. /\ queue # <<>> /\ Head(queue) = c /\ call[c] \in Request /\ t \in Targets
    BY <1>2, StartsFacts DEF StartSetCachedTarget, Request
  <2>2. entry \in CacheEntry
    BY <1>2, <2>1, UnexpiredType DEF StartSetCachedTarget
  <2>3. entry.loaded.run \in Run
    BY <2>2 DEF CacheEntry, Loaded
  <2>4. [Unexpired EXCEPT ![t].idle = 0] \in [Targets -> CacheEntry \cup {None}]
    <3>1. [entry EXCEPT !.idle = 0] \in CacheEntry
      BY <2>2, WorkspaceAssumption DEF CacheEntry
    <3> QED  BY <2>1, <3>1, UnexpiredType
  <2>5. StoreTypeOK' /\ SessionTypeOK'
    BY <1>2, <2>1, <2>2, <2>4
       DEF StartSetCachedTarget, StoreTypeOK, SessionTypeOK, storeVars, CacheEntry
  <2>6. Discover(c, t, entry.loaded.run) /\ UNCHANGED call
    BY <1>2 DEF StartSetCachedTarget
  <2>7. loadGeneration \in Nat
    BY DEF SessionTypeOK
  <2> QED
    BY <1>a, <2>1, <2>3, <2>5, <2>6, <2>7, DiscoverInv
<1>3. CASE StartSetNewTarget(c)
  <2> DEFINE t == call[c].target
  <2>1. /\ queue # <<>> /\ Head(queue) = c /\ call[c] \in Request /\ t \in Targets
    BY <1>3, StartsFacts DEF StartSetNewTarget, Request
  <2>2. StoreTypeOK' /\ SessionTypeOK'
    <3>1. StoreTypeOK'
      BY <1>3 DEF StartSetNewTarget, StoreTypeOK, storeVars
    <3>2. loadGeneration' \in Nat
      BY <1>3 DEF StartSetNewTarget, SessionTypeOK
    <3>3. SessionTypeOK'
      BY <1>3, <2>1, <3>2, UnexpiredType DEF StartSetNewTarget, SessionTypeOK
    <3> QED  BY <3>1, <3>3
  <2>3. EnsureInitialized(c, t, loadGeneration + 1) /\ UNCHANGED call
    BY <1>3 DEF StartSetNewTarget
  <2>4. loadGeneration + 1 \in Nat /\ CanInitialize(t)
    BY <2>1, StoreAssumption DEF SessionTypeOK, CanInitialize
  <2> QED
    BY <1>a, <2>1, <2>2, <2>3, <2>4, EnsureInitializedInv
<1>4. CASE StartUnsetTarget(c)
  <2>1. StoreTypeOK' /\ SessionTypeOK'
    <3>1. StoreTypeOK'
      BY <1>4 DEF StartUnsetTarget, StoreTypeOK, storeVars
    <3>2. SessionTypeOK'
      <4>1. loadGeneration' \in Nat
        BY <1>4 DEF StartUnsetTarget, SessionTypeOK
      <4> QED
        BY <1>4, <4>1 DEF StartUnsetTarget, SessionTypeOK, cacheVars
    <3> QED  BY <3>1, <3>2
  <2> QED
    BY <1>4, <1>b, <2>1, StartsFacts, FinishSerializedInv DEF StartUnsetTarget
<1>5. CASE StartClearCachedTargets(c)
  <2>1. StoreTypeOK' /\ SessionTypeOK'
    <3>1. StoreTypeOK'
      BY <1>5 DEF StartClearCachedTargets, StoreTypeOK, storeVars
    <3>2. SessionTypeOK'
      <4>1. loadGeneration' \in Nat
        BY <1>5 DEF StartClearCachedTargets, SessionTypeOK
      <4> QED
        BY <1>5, <4>1 DEF StartClearCachedTargets, SessionTypeOK
    <3> QED  BY <3>1, <3>2
  <2> QED
    BY <1>5, <1>b, <2>1, StartsFacts, FinishSerializedInv DEF StartClearCachedTargets
<1>6. ASSUME UNCHANGED <<storeVars, sessionVars, cacheVars>>
      PROVE  StoreTypeOK' /\ SessionTypeOK'
  BY <1>6 DEF StoreTypeOK, SessionTypeOK, storeVars, sessionVars, cacheVars
<1>7. CASE StartRefresh(c)
  <2>1. queue # <<>> /\ Head(queue) = c /\ call[c] \in Request
    BY <1>7, StartsFacts DEF StartRefresh
  <2>2. CASE FinishSerialized(c, "returned")
    BY <1>7, <1>b, <1>6, <2>1, <2>2, FinishSerializedInv DEF StartRefresh
  <2>3. CASE /\ dbtTarget # None /\ EnsureInitialized(c, dbtTarget, loadGeneration)
             /\ UNCHANGED call
    BY <1>7, <1>a, <1>6, <2>1, <2>3, EnsureInitializedInv
       DEF StartRefresh, SessionTypeOK, CanInitialize
  <2>4. CASE /\ dbtTarget # None /\ loaded # None
             /\ Discover(c, dbtTarget, loaded.run) /\ UNCHANGED call
    <3>1. loaded.run \in Run /\ dbtTarget \in Targets /\ loadGeneration \in Nat
      BY <2>4 DEF SessionTypeOK, Loaded
    <3> QED
      BY <1>7, <1>a, <1>6, <2>1, <2>4, <3>1, DiscoverInv DEF StartRefresh
  <2> QED  BY <1>7, <2>2, <2>3, <2>4 DEF StartRefresh
<1>8. CASE StartGetLoadedWorkspace(c)
  <2>1. queue # <<>> /\ Head(queue) = c /\ call[c] \in Request
    BY <1>8, StartsFacts DEF StartGetLoadedWorkspace
  <2>2. CASE \E result \in {"returned", "threw"} : FinishSerialized(c, result)
    BY <1>8, <1>b, <1>6, <2>1, <2>2, FinishSerializedInv DEF StartGetLoadedWorkspace
  <2>3. CASE /\ CanInitialize(dbtTarget) /\ EnsureInitialized(c, dbtTarget, loadGeneration)
             /\ UNCHANGED call
    BY <1>8, <1>a, <1>6, <2>1, <2>3, EnsureInitializedInv
       DEF StartGetLoadedWorkspace, SessionTypeOK
  <2> QED  BY <1>8, <2>2, <2>3 DEF StartGetLoadedWorkspace
<1>9. CASE StartSelectRun(c)
  <2>1. queue # <<>> /\ Head(queue) = c /\ call[c] \in Request /\ call[c].op = "selectRun"
    BY <1>9, StartsFacts DEF StartSelectRun
  <2>2. CASE FinishSerialized(c, "threw")
    BY <1>9, <1>b, <1>6, <2>1, <2>2, FinishSerializedInv DEF StartSelectRun
  <2>3. CASE dbtTarget # None /\ Discover(c, dbtTarget, None) /\ UNCHANGED call
    <3>1. dbtTarget \in Targets /\ loadGeneration \in Nat
      BY <2>3 DEF SessionTypeOK
    <3> QED
      BY <1>9, <1>a, <1>6, <2>1, <2>3, <3>1, DiscoverInv DEF StartSelectRun
  <2> QED  BY <1>9, <2>2, <2>3 DEF StartSelectRun
<1>10. CASE StartAcceptPendingRun(c)
  <2>1. queue # <<>> /\ Head(queue) = c /\ call[c] \in Request
    BY <1>10, StartsFacts DEF StartAcceptPendingRun
  <2>2. CASE \E result \in {"returned", "threw"} : FinishSerialized(c, result)
    BY <1>10, <1>b, <1>6, <2>1, <2>2, FinishSerializedInv DEF StartAcceptPendingRun
  <2>3. CASE /\ pendingRun # None /\ dbtTarget # None
             /\ Discover(c, dbtTarget, pendingRun) /\ UNCHANGED call
    <3>1. dbtTarget \in Targets /\ loadGeneration \in Nat /\ pendingRun \in Run
      BY <2>3 DEF SessionTypeOK
    <3> QED
      BY <1>10, <1>a, <1>6, <2>1, <2>3, <3>1, DiscoverInv DEF StartAcceptPendingRun
  <2> QED  BY <1>10, <2>2, <2>3 DEF StartAcceptPendingRun
<1> QED
  BY <1>1, <1>2, <1>3, <1>4, <1>5, <1>7, <1>8, <1>9, <1>10 DEF StartOperation

\* An operation that goes on after an await is still at the head of the chain.
LEMMA ContinuesFacts ==
    ASSUME ControlInv, NEW c \in Callers, 
           pc[c] \in {"initialized", "initFailed", "discovering", "loading"},
           call[c].op # "initialize", call[c].op # "listRuns"
    PROVE  /\ queue # <<>> /\ Head(queue) = c
           /\ call[c] \in Request /\ OnChain(c)
BY DEF ControlInv, OnChain, Resting, Settled

LEMMA ReadsTypeInv ==
    ASSUME TypeInv, NEW p \in Processes, ReadManifest(p) \/ ReadRunResults(p)
    PROVE  TypeInv'
<1> USE DEF TypeInv
<1>1. StoreTypeOK' /\ SessionTypeOK'
  BY DEF ReadManifest, ReadRunResults, StoreTypeOK, SessionTypeOK, storeVars, sessionVars,
         cacheVars
<1>2. job[p] \in Job /\ job[p].run \in Run
  BY DEF ReadManifest, ReadRunResults, ControlInv
<1>3. store[job[p].run.target] \in Contents
  BY <1>2 DEF StoreTypeOK, Run
<1>4. /\ job' \in [Processes -> Job \cup {None}]
      /\ job'[p] \in Job /\ job'[p].run = job[p].run
      /\ \A x \in Processes : x # p => job'[x] = job[x]
      /\ UNCHANGED <<queue, refreshOwner, call, pc>>
  BY <1>2, <1>3 DEF ReadManifest, ReadRunResults, ControlInv, ControlTypeOK, Job, Contents
<1>5. ControlTypeOK'
  BY <1>4 DEF ControlInv, ControlTypeOK
<1>6. \A x \in Callers : OnChain(x)' <=> OnChain(x)
  BY <1>4 DEF OnChain
<1>7. \A x \in Callers : Accepting(x)' => Accepting(x) /\ x # p
  BY <1>4 DEF Accepting, ReadManifest, ReadRunResults
<1> QED  BY <1>1, <1>2, <1>4, <1>5, <1>6, <1>7, Disjoint DEF ControlInv

LEMMA ResumeTypeInv ==
    ASSUME TypeInv, NEW c \in Callers, Resume(c)
    PROVE  TypeInv'
<1> USE DEF TypeInv
<1>1. StoreTypeOK'
  BY DEF Resume, StoreTypeOK, storeVars
<1>2. SessionTypeOK'
  <2>1. targetCache' \in [Targets -> CacheEntry \cup {None}]
    <3>1. CASE UNCHANGED cacheVars
      BY <3>1 DEF SessionTypeOK, cacheVars
    <3>2. CASE SyncActiveToCache(dbtTarget, selectedRunId, runs, loaded)
      BY <3>2, SyncActiveToCacheType DEF SessionTypeOK
    <3> QED  BY <3>1, <3>2 DEF Resume
  <2> QED  BY <2>1 DEF Resume, SessionTypeOK, sessionVars
<1>3. CASE call[c].op = "initialize"
  <2>1. \E result \in Settled : Finish(c, result)
    BY <1>3 DEF Resume, Settled
  <2> QED  BY <1>1, <1>2, <2>1, FinishInv
<1>4. CASE call[c].op # "initialize"
  <2>1. \E result \in Settled : FinishSerialized(c, result)
    BY <1>4 DEF Resume, Settled
  <2>2. queue # <<>> /\ Head(queue) = c
    BY <1>4 DEF Resume, ControlInv, OnChain
  <2> QED  BY <1>1, <1>2, <2>1, <2>2, FinishSerializedInv
<1> QED  BY <1>3, <1>4

\* A process that loads a run: what the session takes from Commit.
LEMMA ReloadTypeInv ==
    ASSUME TypeInv, NEW c \in Callers, ReloadDiscovers(c) \/ ReloadCommits(c)
    PROVE  TypeInv'
<1> USE DEF TypeInv
<1>1. StoreTypeOK'
  BY DEF ReloadDiscovers, ReloadCommits, StoreTypeOK, storeVars
<1>2. call[c].op # "initialize" /\ call[c].op # "listRuns"
  BY DEF ReloadDiscovers, ReloadCommits, Revalidates, RefreshOps
<1>3. queue # <<>> /\ Head(queue) = c /\ OnChain(c)
  BY <1>2, ContinuesFacts DEF ReloadDiscovers, ReloadCommits, IsRead
<1>4. c \in Processes
  BY Disjoint
<1>5. CASE ReloadDiscovers(c)
  <2> DEFINE found == DiscoveredRuns(job[c].target)
  <2>1. job[c] \in Job /\ pc[c] = "discovering"
    BY <1>4, <1>5 DEF ReloadDiscovers, ControlInv
  <2>2. found \in SUBSET Run
    BY <2>1, DiscoveredRunsType DEF Job
  <2>3. FinishSerialized(c, "returned") \/ \E run \in found : StartLoading(c, run)
    BY <1>5 DEF ReloadDiscovers
  <2>4. ControlInv'
    BY <1>3, <1>4, <2>1, <2>2, <2>3, FinishSerializedInv, StartLoadingInv DEF Settled
  <2>5. /\ runs' = runs \/ runs' = found
        /\ selectedRunId' \in {selectedRunId, CurrentRunId}
        /\ stale' = stale \/ stale' = TRUE
        /\ lastRefreshError' = lastRefreshError \/ lastRefreshError' = TRUE
        /\ pendingRun' = pendingRun \/ pendingRun' \in found \cup {None}
        /\ UNCHANGED <<dbtTarget, loadGeneration, loaded, targetCache>>
    BY <1>5 DEF ReloadDiscovers, sessionVars, cacheVars, RecordRefreshError
  <2>6. SessionTypeOK'
    BY <2>2, <2>5 DEF SessionTypeOK
  <2> QED  BY <1>1, <2>4, <2>6
<1>6. CASE ReloadCommits(c)
  <2>1. SessionTypeOK'
    <3>1. CASE UNCHANGED <<sessionVars, cacheVars>>
      BY <3>1 DEF SessionTypeOK, sessionVars, cacheVars
    <3>2. CASE Commit(c, selectedRunId, runs) /\ pendingRun' = None
      BY <1>4, <1>6, <3>2, CommitType DEF ReloadCommits, SessionTypeOK
    <3> QED  BY <1>6, <3>1, <3>2 DEF ReloadCommits
  <2>2. FinishSerialized(c, "returned")
    BY <1>6 DEF ReloadCommits
  <2> QED  BY <1>1, <1>3, <2>1, <2>2, FinishSerializedInv DEF Settled
<1> QED  BY <1>5, <1>6

LEMMA SelectRunTypeInv ==
    ASSUME TypeInv, NEW c \in Callers, SelectRunDiscovers(c) \/ SelectRunCommits(c)
    PROVE  TypeInv'
<1> USE DEF TypeInv
<1>1. StoreTypeOK'
  BY DEF SelectRunDiscovers, SelectRunCommits, StoreTypeOK, storeVars
<1>2. call[c].op = "selectRun"
  BY DEF SelectRunDiscovers, SelectRunCommits
<1>3. queue # <<>> /\ Head(queue) = c /\ OnChain(c)
  BY <1>2, ContinuesFacts DEF SelectRunDiscovers, SelectRunCommits, IsRead
<1>4. c \in Processes
  BY Disjoint
<1>5. CASE SelectRunDiscovers(c)
  <2> DEFINE found == DiscoveredRuns(job[c].target)
  <2>1. job[c] \in Job /\ pc[c] = "discovering"
    BY <1>4, <1>5 DEF SelectRunDiscovers, ControlInv
  <2>2. found \in SUBSET Run
    BY <2>1, DiscoveredRunsType DEF Job
  <2>3. \/ \E result \in Settled : FinishSerialized(c, result)
        \/ \E run \in found : StartLoading(c, run)
    BY <1>5 DEF SelectRunDiscovers, Settled
  <2>4. ControlInv'
    BY <1>3, <1>4, <2>1, <2>2, <2>3, FinishSerializedInv, StartLoadingInv
  <2>5. /\ runs' = runs \/ runs' = found
        /\ selectedRunId' \in {selectedRunId, CurrentRunId}
        /\ UNCHANGED <<dbtTarget, loadGeneration, loaded, stale, lastRefreshError,
                       pendingRun, targetCache>>
    BY <1>5 DEF SelectRunDiscovers, cacheVars
  <2>6. SessionTypeOK'
    BY <2>2, <2>5 DEF SessionTypeOK
  <2> QED  BY <1>1, <2>4, <2>6
<1>6. CASE SelectRunCommits(c)
  <2>1. SessionTypeOK'
    <3>1. CASE UNCHANGED <<sessionVars, cacheVars>>
      BY <3>1 DEF SessionTypeOK, sessionVars, cacheVars
    <3>2. CASE Commit(c, selectedRunId, runs) /\ UNCHANGED pendingRun
      BY <1>4, <1>6, <3>2, CommitType DEF SelectRunCommits, SessionTypeOK
    <3> QED  BY <1>6, <3>1, <3>2 DEF SelectRunCommits
  <2>2. FinishSerialized(c, "returned")
    BY <1>6 DEF SelectRunCommits
  <2> QED  BY <1>1, <1>3, <2>1, <2>2, FinishSerializedInv DEF Settled
<1> QED  BY <1>5, <1>6

LEMMA AcceptPendingRunTypeInv ==
    ASSUME TypeInv, NEW c \in Callers,
           AcceptPendingRunDiscovers(c) \/ AcceptPendingRunCommits(c)
    PROVE  TypeInv'
<1> USE DEF TypeInv
<1>1. StoreTypeOK'
  BY DEF AcceptPendingRunDiscovers, AcceptPendingRunCommits, StoreTypeOK, storeVars
<1>2. call[c].op = "acceptPendingRun"
  BY DEF AcceptPendingRunDiscovers, AcceptPendingRunCommits
<1>3. queue # <<>> /\ Head(queue) = c /\ OnChain(c)
  BY <1>2, ContinuesFacts DEF AcceptPendingRunDiscovers, AcceptPendingRunCommits, IsRead
<1>4. c \in Processes
  BY Disjoint
<1>5. CASE AcceptPendingRunDiscovers(c)
  <2>1. SessionTypeOK'
    BY <1>5 DEF AcceptPendingRunDiscovers, SessionTypeOK, sessionVars, cacheVars
  <2>2. pc[c] = "discovering" /\ job[c].run \in Run
    BY <1>5 DEF AcceptPendingRunDiscovers, Accepting, ControlInv
  <2>3. FinishSerialized(c, "returned") \/ StartLoading(c, job[c].run)
    BY <1>5 DEF AcceptPendingRunDiscovers
  <2> QED
    BY <1>1, <1>3, <1>4, <2>1, <2>2, <2>3, FinishSerializedInv, StartLoadingInv DEF Settled
<1>6. CASE AcceptPendingRunCommits(c)
  <2>1. SessionTypeOK'
    <3>1. CASE UNCHANGED <<sessionVars, cacheVars>>
      BY <3>1 DEF SessionTypeOK, sessionVars, cacheVars
    <3>2. CASE Commit(c, CurrentRunId, runs) /\ pendingRun' = None
      BY <1>4, <1>6, <3>2, CommitType DEF AcceptPendingRunCommits
    <3> QED  BY <1>6, <3>1, <3>2 DEF AcceptPendingRunCommits
  <2>2. FinishSerialized(c, "returned")
    BY <1>6 DEF AcceptPendingRunCommits
  <2> QED  BY <1>1, <1>3, <2>1, <2>2, FinishSerializedInv DEF Settled
<1> QED  BY <1>5, <1>6

LEMMA ListRunsTypeInv ==
    ASSUME TypeInv, NEW c \in Callers, ListRunsDiscovers(c)
    PROVE  TypeInv'
<1> USE DEF TypeInv
<1>1. StoreTypeOK'
  BY DEF ListRunsDiscovers, StoreTypeOK, storeVars
<1>2. ControlInv'
  BY FinishInv DEF ListRunsDiscovers, Settled
<1> DEFINE found == DiscoveredRuns(job[c].target)
<1>3. found \in SUBSET Run
  <2>1. job[c] \in Job
    BY Disjoint DEF ListRunsDiscovers, ControlInv
  <2> QED  BY <2>1, DiscoveredRunsType DEF Job
<1>4. SyncActiveToCache(dbtTarget, selectedRunId, found, loaded)
  BY DEF ListRunsDiscovers
<1>5. targetCache' \in [Targets -> CacheEntry \cup {None}]
  BY <1>3, <1>4, SyncActiveToCacheType DEF SessionTypeOK
<1>6. SessionTypeOK'
  BY <1>3, <1>5 DEF ListRunsDiscovers, SessionTypeOK
<1> QED  BY <1>1, <1>2, <1>6

LEMMA RequestFailsType == 
    ASSUME StoreTypeOK, NEW p, RequestFails(p)
    PROVE  StoreTypeOK'
BY StoreAssumption DEF StoreTypeOK, RequestFails, RequestFault, storeVars

LEMMA OperationFailsTypeInv ==
    ASSUME TypeInv, NEW c \in Callers, RequestFails(c), OperationFails(c)
    PROVE  TypeInv'
<1> USE DEF TypeInv
<1>1. StoreTypeOK'
  BY RequestFailsType
<1>2. SessionTypeOK'
  BY DEF OperationFails, ReloadFails, SelectRunFails, AcceptPendingRunFails, ListRunsFails,
         RecordRefreshError, SessionTypeOK, sessionVars, cacheVars
<1>3. CASE ListRunsFails(c)
  BY <1>1, <1>2, <1>3, FinishInv DEF ListRunsFails, Settled
<1>4. CASE ReloadFails(c) \/ SelectRunFails(c) \/ AcceptPendingRunFails(c)
  <2>1. /\ pc[c] \in {"discovering", "loading"}
        /\ call[c].op # "initialize" /\ call[c].op # "listRuns"
        /\ \E result \in Settled : FinishSerialized(c, result)
    BY <1>4 DEF ReloadFails, SelectRunFails, AcceptPendingRunFails, Revalidates, RefreshOps,
                Settled
  <2>2. queue # <<>> /\ Head(queue) = c
    BY <2>1, ContinuesFacts
  <2> QED  BY <1>1, <1>2, <2>1, <2>2, FinishSerializedInv
<1> QED  BY <1>3, <1>4 DEF OperationFails

LEMMA ContinueTypeInv ==
    ASSUME TypeInv, NEW c \in Callers, ContinueOperation(c)
    PROVE  TypeInv'
BY Disjoint, ResumeTypeInv, ReloadTypeInv, SelectRunTypeInv, AcceptPendingRunTypeInv,
   ListRunsTypeInv, ReadsTypeInv, OperationFailsTypeInv
   DEF ContinueOperation

LEMMA ContinueInitializeTypeInv ==
    ASSUME TypeInv, ContinueInitialize
    PROVE  TypeInv'
<1> USE Disjoint DEF TypeInv
<1>1. CASE InitializeDiscovers
  <2> DEFINE found == DiscoveredRuns(job[InitJob].target)
  <2>1. job[InitJob] \in Job /\ pc[InitJob] = "discovering"
    BY <1>1 DEF InitializeDiscovers, ControlInv
  <2>2. found \in SUBSET Run
    BY <2>1, DiscoveredRunsType DEF Job
  <2>3. \/ \E resumed \in {"initialized", "initFailed"} : SettleInitialize(resumed)
        \/ \E run \in found : StartLoading(InitJob, run)
    BY <1>1 DEF InitializeDiscovers
  <2>4. ControlInv'
    BY <2>1, <2>2, <2>3, SettleInitializeInv, StartLoadingInv
  <2>5. /\ runs' = runs \/ runs' = found
        /\ selectedRunId' \in {selectedRunId, CurrentRunId}
        /\ UNCHANGED <<dbtTarget, loadGeneration, loaded, stale, lastRefreshError,
                       pendingRun, targetCache, store, faults>>
    BY <1>1 DEF InitializeDiscovers, cacheVars, sessionVars, storeVars
  <2>6. SessionTypeOK'
    BY <2>2, <2>5 DEF SessionTypeOK
  <2> QED  BY <2>4, <2>5, <2>6 DEF StoreTypeOK
<1>2. CASE InitializeCommits
  <2>1. SessionTypeOK'
    <3>1. CASE UNCHANGED <<sessionVars, cacheVars>>
      BY <3>1 DEF SessionTypeOK, sessionVars, cacheVars
    <3>2. CASE Commit(InitJob, selectedRunId, runs) /\ UNCHANGED pendingRun
      BY <1>2, <3>2, CommitType DEF InitializeCommits, SessionTypeOK
    <3> QED  BY <1>2, <3>1, <3>2 DEF InitializeCommits
  <2>2. StoreTypeOK'
    BY <1>2 DEF InitializeCommits, StoreTypeOK, storeVars
  <2>3. SettleInitialize("initialized")
    BY <1>2 DEF InitializeCommits
  <2> QED  BY <2>1, <2>2, <2>3, SettleInitializeInv
<1>3. CASE ReadManifest(InitJob) \/ ReadRunResults(InitJob)
  BY <1>3, ReadsTypeInv
<1>4. CASE RequestFails(InitJob) /\ InitializeFails
  <2>1. SessionTypeOK'
    BY <1>4 DEF InitializeFails, SessionTypeOK, sessionVars, cacheVars
  <2>2. StoreTypeOK'
    BY <1>4, RequestFailsType
  <2>3. SettleInitialize("initFailed")
    BY <1>4 DEF InitializeFails
  <2> QED  BY <2>1, <2>2, <2>3, SettleInitializeInv
<1> QED  BY <1>1, <1>2, <1>3, <1>4 DEF ContinueInitialize

LEMMA ControlInvStutters ==
    ASSUME ControlInv, UNCHANGED controlVars
    PROVE  ControlInv'
<1>1. UNCHANGED <<queue, refreshOwner, call, pc, job>>
  BY DEF controlVars
<1> QED
  BY <1>1 DEF ControlInv, ControlTypeOK, OnChain, Accepting

LEMMA TickTypeInv ==
    ASSUME TypeInv, Tick
    PROVE  TypeInv'
<1> USE DEF TypeInv
<1>1. targetCache' \in [Targets -> CacheEntry \cup {None}]
  BY WorkspaceAssumption DEF Tick, SessionTypeOK, CacheEntry
<1>2. SessionTypeOK'
  BY <1>1 DEF Tick, SessionTypeOK, sessionVars
<1> QED  BY <1>2, ControlInvStutters DEF Tick, StoreTypeOK, storeVars

LEMMA StoreNextType ==
    ASSUME StoreTypeOK, StoreNext
    PROVE  StoreTypeOK'
BY StoreAssumption
   DEF StoreNext, PublishManifest, PublishRunResults, RemoveArtifacts, StoreTypeOK, Contents,
       Version

LEMMA NextTypeInv == TypeInv /\ [Next]_vars => TypeInv'
<1> SUFFICES ASSUME TypeInv, [Next]_vars PROVE TypeInv'
  OBVIOUS
<1>1. CASE Environment
  BY <1>1, StoreNextType, ControlInvStutters
     DEF Environment, TypeInv, SessionTypeOK, sessionVars, cacheVars
<1>2. CASE UNCHANGED vars
  BY <1>2, ControlInvStutters
     DEF vars, TypeInv, StoreTypeOK, SessionTypeOK, storeVars, sessionVars, cacheVars
<1> QED
  BY <1>1, <1>2, CallTypeInv, StartTypeInv, ContinueTypeInv, ContinueInitializeTypeInv,
     TickTypeInv
     DEF Next

\* Every variable keeps its declared type under every interleaving of the calls,
\* the loads, the writes to the store and the failing requests.
THEOREM TypeCorrect == Spec => []TypeOK
<1>1. TypeInv => TypeOK
  BY DEF TypeInv, TypeOK, ControlInv
<1> QED  BY <1>1, InitTypeInv, NextTypeInv, PTL DEF Spec

-----------------------------------------------------------------------------
(* The stale-load rule.  A load is for the root its binding names, and a    *)
(* commit checks the binding; so the snapshot, and what the cache keeps of  *)
(* it, belong to the key they are stored under.  Only acceptPendingRun      *)
(* loads a run it did not find under its own binding, and it never has one  *)
(* to load when versions are reloaded automatically.                        *)

JobBelongs(p) ==
    /\ pc[p] \in {"discovering", "loading"} => job[p].binding.scopeKey = job[p].target
    /\ pc[p] = "loading" => job[p].run.target = job[p].target

JobsBelong ==
    /\ \A p \in Processes : JobBelongs(p)
    /\ \A c \in Callers : ~Accepting(c)

CacheBelongs ==
    \A t \in Targets : targetCache[t] # None => targetCache[t].loaded.run.target = t

BelongInv ==
    /\ JobsBelong
    /\ LoadedBelongsToTarget
    /\ CacheBelongs
    /\ pendingRun = None

LEMMA FinishBelongs ==
    ASSUME ControlInv, JobsBelong, NEW c \in Callers, NEW result \in Settled,
           FinishSerialized(c, result) \/ Finish(c, result)
    PROVE  JobsBelong'
<1> USE Disjoint
<1>1. \A x \in Processes : pc'[x] \notin Settled => pc'[x] = pc[x] /\ job'[x] = job[x]
  BY DEF ControlInv, ControlTypeOK, FinishSerialized, Finish
<1>2. \A x \in Callers : pc'[x] \notin Settled => call'[x] = call[x]
  BY DEF ControlInv, ControlTypeOK, FinishSerialized, Finish
<1> QED  BY <1>1, <1>2 DEF JobsBelong, JobBelongs, Accepting, Settled

LEMMA DiscoverBelongs ==
    ASSUME ControlInv, JobsBelong, NEW c \in Callers, NEW t, NEW run,
           call'[c].op # "acceptPendingRun",
           call' = [call EXCEPT ![c] = call'[c]],
           Discover(c, t, run)
    PROVE  JobsBelong'
<1> USE Disjoint
<1>1. /\ pc'[c] = "discovering" /\ job'[c] = NewJob(t, loadGeneration, run)
      /\ \A x \in Processes : x # c => pc'[x] = pc[x] /\ job'[x] = job[x]
      /\ \A x \in Callers : x # c => call'[x] = call[x]
  BY DEF ControlInv, ControlTypeOK, Discover
<1>2. job'[c].binding.scopeKey = job'[c].target
  BY <1>1 DEF NewJob, CaptureSessionBinding
<1> QED  BY <1>1, <1>2 DEF JobsBelong, JobBelongs, Accepting

LEMMA StartLoadingBelongs ==
    ASSUME ControlInv, JobsBelong, NEW p \in Processes, pc[p] = "discovering",
           NEW run, run.target = job[p].target, StartLoading(p, run)
    PROVE  JobsBelong'
<1> USE Disjoint
<1>1. job[p] \in Job
  BY DEF ControlInv
<1>2. /\ pc'[p] = "loading"
      /\ job'[p].run = run /\ job'[p].target = job[p].target
      /\ job'[p].binding = job[p].binding
      /\ \A x \in Processes : x # p => pc'[x] = pc[x] /\ job'[x] = job[x]
      /\ call' = call
  BY <1>1 DEF ControlInv, ControlTypeOK, StartLoading, Job
<1> QED  BY <1>2 DEF JobsBelong, JobBelongs, Accepting

LEMMA EnsureInitializedBelongs ==
    ASSUME ControlInv, JobsBelong, NEW c \in Callers, NEW t, NEW epoch,
           call' = [call EXCEPT ![c] = call'[c]],
           EnsureInitialized(c, t, epoch)
    PROVE  JobsBelong'
<1> USE Disjoint
<1>1. /\ pc'[c] = "initializing"
      /\ \A x \in Callers : x # c => pc'[x] = pc[x] /\ job'[x] = job[x] /\ call'[x] = call[x]
  BY DEF ControlInv, ControlTypeOK, EnsureInitialized
<1>2. CASE pc[InitJob] = "idle"
  <2>1. pc'[InitJob] = "discovering" /\ job'[InitJob] = NewJob(t, epoch, None)
    BY <1>2 DEF ControlInv, ControlTypeOK, EnsureInitialized
  <2>2. job'[InitJob].binding.scopeKey = job'[InitJob].target
    BY <2>1 DEF NewJob, CaptureSessionBinding
  <2> QED  BY <1>1, <2>1, <2>2 DEF JobsBelong, JobBelongs, Accepting
<1>3. CASE pc[InitJob] # "idle"
  <2>1. pc'[InitJob] = pc[InitJob] /\ job' = job
    BY <1>3 DEF ControlInv, ControlTypeOK, EnsureInitialized
  <2> QED  BY <1>1, <2>1 DEF JobsBelong, JobBelongs, Accepting
<1> QED  BY <1>2, <1>3

LEMMA SettleInitializeBelongs ==
    ASSUME ControlInv, JobsBelong, NEW resumed \in {"initialized", "initFailed"},
           SettleInitialize(resumed)
    PROVE  JobsBelong'
<1> USE Disjoint
<1>1. /\ pc'[InitJob] = "idle" /\ call' = call
      /\ \A x \in Callers : /\ job'[x] = job[x]
                             /\ pc'[x] = IF pc[x] = "initializing" THEN resumed ELSE pc[x]
  BY DEF ControlInv, ControlTypeOK, SettleInitialize
<1> QED  BY <1>1 DEF JobsBelong, JobBelongs, Accepting

LEMMA SyncActiveToCacheBelongs ==
    ASSUME SessionTypeOK, CacheBelongs, NEW t \in Targets \cup {None}, NEW id, NEW found,
           NEW snapshot, snapshot # None => snapshot.run.target = t,
           SyncActiveToCache(t, id, found, snapshot)
    PROVE  CacheBelongs'
<1>1. CASE MaxCachedTargets = 0 \/ t = None \/ snapshot = None \/ id = None
  BY <1>1 DEF SyncActiveToCache, CacheBelongs, cacheVars
<1>2. CASE ~(MaxCachedTargets = 0 \/ t = None \/ snapshot = None \/ id = None)
  BY <1>2 DEF SyncActiveToCache, PutCacheEntry, CacheBelongs, SessionTypeOK
<1> QED  BY <1>1, <1>2

\* A commit whose binding is the one in force.
LEMMA CommitBelongs ==
    ASSUME TypeInv, BelongInv, NEW p \in Processes, IsRead(p), BindingStillActive(p),
           NEW id, Commit(p, id, runs)
    PROVE  LoadedBelongsToTarget' /\ CacheBelongs'
<1>1. SnapshotOf(p).run.target = dbtTarget
  BY DEF SnapshotOf, BindingStillActive, IsSessionBindingCurrent, BelongInv, JobsBelong,
         JobBelongs, IsRead
<1>2. /\ SyncActiveToCache(dbtTarget, id, runs, SnapshotOf(p))
      /\ loaded' = SnapshotOf(p) /\ dbtTarget' = dbtTarget
  BY DEF Commit, SnapshotOf
<1>3. CacheBelongs'
  BY <1>1, <1>2, SyncActiveToCacheBelongs DEF TypeInv, SessionTypeOK, BelongInv
<1> QED  BY <1>1, <1>2, <1>3 DEF LoadedBelongsToTarget

LEMMA CallBelongs ==
    ASSUME TypeInv, BelongInv, NEW c \in Callers, Call(c)
    PROVE  BelongInv'
<1> USE DEF TypeInv, BelongInv
<1>1. LoadedBelongsToTarget' /\ CacheBelongs' /\ pendingRun' = None
  BY DEF Call, CallSerialized, CallRefresh, CallInitialize, CallListRuns, sessionVars,
         cacheVars, LoadedBelongsToTarget, CacheBelongs
<1>2. PICK request \in Requests(c) :
         \/ CallSerialized(c, request)
         \/ CallRefresh(c, request)
         \/ CallInitialize(c, request)
         \/ CallListRuns(c, request)
  BY DEF Call
<1> USE Disjoint
<1>3. ASSUME job' = job,
             \A x \in Processes : x # c => pc'[x] = pc[x],
             pc'[c] \notin {"discovering", "loading"},
             \A x \in Callers : x # c => call'[x] = call[x]
      PROVE  JobsBelong'
  BY <1>3 DEF JobsBelong, JobBelongs, Accepting
<1>4. CASE CallSerialized(c, request) \/ CallRefresh(c, request)
  BY <1>1, <1>3, <1>4 DEF CallSerialized, CallRefresh, ControlInv, ControlTypeOK
<1>5. CASE CallInitialize(c, request)
  <2>1. CASE UNCHANGED <<call, job>> /\ \E result \in Settled : pc' = [pc EXCEPT ![c] = result]
    BY <1>1, <1>3, <2>1 DEF ControlInv, ControlTypeOK, Settled
  <2>2. CASE /\ EnsureInitialized(c, dbtTarget, loadGeneration)
             /\ call' = [call EXCEPT ![c] = request]
    <3>1. call'[c] = request
      BY <2>2 DEF ControlInv, ControlTypeOK
    <3> QED  BY <1>1, <2>2, <3>1, EnsureInitializedBelongs
  <2> QED  BY <1>5, <2>1, <2>2 DEF CallInitialize, Settled
<1>6. CASE CallListRuns(c, request)
  <2>1. CASE UNCHANGED <<call, job>> /\ \E result \in Settled : pc' = [pc EXCEPT ![c] = result]
    BY <1>1, <1>3, <2>1 DEF ControlInv, ControlTypeOK, Settled
  <2>2. CASE /\ Discover(c, dbtTarget, None)
             /\ call' = [call EXCEPT ![c] = request]
    <3>1. call'[c] = request /\ request.op # "acceptPendingRun"
      BY <1>6, <2>2 DEF CallListRuns, ControlInv, ControlTypeOK
    <3> QED  BY <1>1, <2>2, <3>1, DiscoverBelongs
  <2> QED  BY <1>6, <2>1, <2>2 DEF CallListRuns, Settled
<1> QED  BY <1>2, <1>4, <1>5, <1>6

LEMMA StartBelongs ==
    ASSUME TypeInv, BelongInv, NEW c \in Callers, StartOperation(c)
    PROVE  BelongInv'
<1> USE Disjoint DEF TypeInv, BelongInv
<1>a. call = [call EXCEPT ![c] = call[c]]
  BY DEF ControlInv, ControlTypeOK
<1>b. \A t \in Targets : /\ Unexpired[t] # None => Unexpired[t] = targetCache[t]
  BY DEF Unexpired
<1>1. CASE StartSetCachedTarget(c)
  <2> DEFINE t == call[c].target
  <2>1. t \in Targets /\ call[c].op = "setTarget"
    BY <1>1, StartsFacts DEF StartSetCachedTarget, Request
  <2>2. Unexpired[t] = targetCache[t] /\ targetCache[t].loaded.run.target = t
    BY <1>1, <1>b, <2>1 DEF StartSetCachedTarget, CacheBelongs
  <2>3. LoadedBelongsToTarget'
    BY <1>1, <2>2 DEF StartSetCachedTarget, LoadedBelongsToTarget
  <2>4. targetCache' = [Unexpired EXCEPT ![t].idle = 0]
    BY <1>1 DEF StartSetCachedTarget
  <2>5. targetCache'[t] = [targetCache[t] EXCEPT !.idle = 0]
    BY <2>1, <2>2, <2>4 DEF Unexpired
  <2>6. Unexpired[t] \in CacheEntry
    BY <1>1, <2>1, UnexpiredType DEF StartSetCachedTarget
  <2>7. targetCache'[t].loaded = targetCache[t].loaded
    BY <2>2, <2>5, <2>6 DEF CacheEntry
  <2>8. \A u \in Targets : u # t => targetCache'[u] = Unexpired[u]
    BY <2>4 DEF Unexpired
  <2>9. CacheBelongs'
    BY <1>b, <2>2, <2>7, <2>8 DEF CacheBelongs
  <2>10. JobsBelong'
    <3>1. Discover(c, t, Unexpired[t].loaded.run) /\ UNCHANGED call
      BY <1>1 DEF StartSetCachedTarget
    <3> QED  BY <1>a, <2>1, <3>1, DiscoverBelongs
  <2> QED  BY <1>1, <2>3, <2>9, <2>10 DEF StartSetCachedTarget
<1>2. CASE StartSetNewTarget(c)
  <2>1. LoadedBelongsToTarget' /\ pendingRun' = None
    BY <1>2 DEF StartSetNewTarget, LoadedBelongsToTarget
  <2>2. CacheBelongs'
    BY <1>2, <1>b DEF StartSetNewTarget, CacheBelongs
  <2>3. JobsBelong'
    BY <1>2, <1>a, EnsureInitializedBelongs DEF StartSetNewTarget
  <2> QED  BY <2>1, <2>2, <2>3
<1>3. CASE StartSetBlankTarget(c)
  BY <1>3, FinishBelongs
     DEF StartSetBlankTarget, LoadedBelongsToTarget, CacheBelongs, sessionVars, cacheVars,
         Settled
<1>4. CASE StartUnsetTarget(c)
  BY <1>4, FinishBelongs
     DEF StartUnsetTarget, LoadedBelongsToTarget, CacheBelongs, cacheVars, Settled
<1>5. CASE StartClearCachedTargets(c)
  BY <1>5, FinishBelongs
     DEF StartClearCachedTargets, LoadedBelongsToTarget, CacheBelongs, Settled
<1>6. ASSUME UNCHANGED <<sessionVars, cacheVars>>
      PROVE  LoadedBelongsToTarget' /\ CacheBelongs' /\ pendingRun' = None
  BY <1>6 DEF LoadedBelongsToTarget, CacheBelongs, sessionVars, cacheVars
<1>7. CASE StartRefresh(c)
  <2>1. call[c].op # "acceptPendingRun"
    BY <1>7, StartsFacts DEF StartRefresh, RefreshOps
  <2> QED
    BY <1>7, <1>a, <1>6, <2>1, FinishBelongs, EnsureInitializedBelongs, DiscoverBelongs
       DEF StartRefresh, Settled
<1>8. CASE StartGetLoadedWorkspace(c)
  BY <1>8, <1>a, <1>6, FinishBelongs, EnsureInitializedBelongs
     DEF StartGetLoadedWorkspace, Settled
<1>9. CASE StartSelectRun(c)
  <2>1. call[c].op # "acceptPendingRun"
    BY <1>9, StartsFacts DEF StartSelectRun
  <2> QED
    BY <1>9, <1>a, <1>6, <2>1, FinishBelongs, DiscoverBelongs DEF StartSelectRun, Settled
<1>10. CASE StartAcceptPendingRun(c)
  BY <1>10, <1>6, FinishBelongs DEF StartAcceptPendingRun, Settled
<1> QED
  BY <1>1, <1>2, <1>3, <1>4, <1>5, <1>7, <1>8, <1>9, <1>10 DEF StartOperation

LEMMA ContinueBelongs ==
    ASSUME AutoReloadOnPoll, TypeInv, BelongInv, NEW c \in Callers, ContinueOperation(c)
    PROVE  BelongInv'
<1> USE Disjoint DEF TypeInv, BelongInv
<1> DEFINE found == DiscoveredRuns(job[c].target)
<1>a. pc[c] = "discovering" => \A run \in found : run.target = job[c].target
  <2>1. pc[c] = "discovering" => job[c].target \in Targets
    BY DEF ControlInv, Job
  <2> QED  BY <2>1, DiscoveredRunsType
<1>b. ASSUME UNCHANGED <<sessionVars, cacheVars>>
      PROVE  LoadedBelongsToTarget' /\ CacheBelongs' /\ pendingRun' = None
  BY <1>b DEF LoadedBelongsToTarget, CacheBelongs, sessionVars, cacheVars
<1>c. loaded # None => loaded.run.target = dbtTarget
  BY DEF LoadedBelongsToTarget
<1>1. CASE Resume(c)
  <2>1. JobsBelong'
    BY <1>1, FinishBelongs DEF Resume, Settled
  <2>2. UNCHANGED sessionVars
    BY <1>1 DEF Resume
  <2>3. CacheBelongs'
    <3>1. CASE UNCHANGED cacheVars
      BY <3>1 DEF CacheBelongs, cacheVars
    <3>2. CASE SyncActiveToCache(dbtTarget, selectedRunId, runs, loaded)
      BY <1>c, <3>2, SyncActiveToCacheBelongs DEF SessionTypeOK
    <3> QED  BY <1>1, <3>1, <3>2 DEF Resume
  <2> QED  BY <2>1, <2>2, <2>3 DEF LoadedBelongsToTarget, sessionVars
<1>2. CASE ReloadDiscovers(c)
  <2>1. /\ pc[c] = "discovering"
        /\ FinishSerialized(c, "returned") \/ \E run \in found : StartLoading(c, run)
        /\ UNCHANGED <<dbtTarget, loaded, targetCache>>
        /\ pendingRun' = None
    BY <1>2 DEF ReloadDiscovers, sessionVars, cacheVars
  <2>2. JobsBelong'
    BY <1>a, <2>1, FinishBelongs, StartLoadingBelongs DEF Settled
  <2> QED  BY <2>1, <2>2 DEF LoadedBelongsToTarget, CacheBelongs
<1>3. CASE ReloadCommits(c)
  BY <1>3, <1>b, FinishBelongs, CommitBelongs DEF ReloadCommits, Settled
<1>4. CASE SelectRunDiscovers(c)
  <2>1. /\ pc[c] = "discovering"
        /\ \/ \E result \in Settled : FinishSerialized(c, result)
           \/ \E run \in found : StartLoading(c, run)
        /\ UNCHANGED <<dbtTarget, loaded, targetCache, pendingRun>>
    BY <1>4 DEF SelectRunDiscovers, cacheVars, Settled
  <2>2. JobsBelong'
    BY <1>a, <2>1, FinishBelongs, StartLoadingBelongs
  <2> QED  BY <2>1, <2>2 DEF LoadedBelongsToTarget, CacheBelongs
<1>5. CASE SelectRunCommits(c)
  BY <1>5, <1>b, FinishBelongs, CommitBelongs DEF SelectRunCommits, Settled
<1>6. CASE AcceptPendingRunDiscovers(c)
  BY <1>6 DEF AcceptPendingRunDiscovers, JobsBelong, Accepting
<1>7. CASE AcceptPendingRunCommits(c)
  BY <1>7, <1>b, FinishBelongs, CommitBelongs DEF AcceptPendingRunCommits, Settled
<1>8. CASE ListRunsDiscovers(c)
  <2>1. JobsBelong'
    BY <1>8, FinishBelongs DEF ListRunsDiscovers, Settled
  <2>2. CacheBelongs'
    BY <1>8, <1>c, SyncActiveToCacheBelongs DEF ListRunsDiscovers, SessionTypeOK
  <2> QED  BY <1>8, <2>1, <2>2 DEF ListRunsDiscovers, LoadedBelongsToTarget
<1>9. CASE ReadManifest(c) \/ ReadRunResults(c)
  <2>1. job[c] \in Job /\ c \in Processes
    BY <1>9 DEF ReadManifest, ReadRunResults, ControlInv
  <2>2. /\ job'[c].run = job[c].run /\ job'[c].target = job[c].target
        /\ job'[c].binding = job[c].binding
        /\ \A x \in Processes : x # c => job'[x] = job[x]
        /\ UNCHANGED <<pc, call>>
    BY <1>9, <2>1 DEF ReadManifest, ReadRunResults, ControlInv, ControlTypeOK, Job
  <2>3. JobsBelong'
    BY <2>2 DEF JobsBelong, JobBelongs, Accepting
  <2> QED  BY <1>9, <1>b, <2>3 DEF ReadManifest, ReadRunResults
<1>10. CASE OperationFails(c)
  <2>1. \E result \in Settled : FinishSerialized(c, result) \/ Finish(c, result)
    BY <1>10 DEF OperationFails, ReloadFails, SelectRunFails, AcceptPendingRunFails,
                 ListRunsFails, Settled
  <2>2. UNCHANGED <<dbtTarget, loaded, pendingRun, targetCache>>
    BY <1>10 DEF OperationFails, ReloadFails, SelectRunFails, AcceptPendingRunFails,
                 ListRunsFails, sessionVars, cacheVars
  <2>3. JobsBelong'
    BY <2>1, FinishBelongs
  <2> QED  BY <2>2, <2>3 DEF LoadedBelongsToTarget, CacheBelongs
<1> QED
  BY <1>1, <1>2, <1>3, <1>4, <1>5, <1>6, <1>7, <1>8, <1>9, <1>10 DEF ContinueOperation

LEMMA ContinueInitializeBelongs ==
    ASSUME TypeInv, BelongInv, ContinueInitialize
    PROVE  BelongInv'
<1> USE Disjoint DEF TypeInv, BelongInv
<1>b. ASSUME UNCHANGED <<sessionVars, cacheVars>>
      PROVE  LoadedBelongsToTarget' /\ CacheBelongs' /\ pendingRun' = None
  BY <1>b DEF LoadedBelongsToTarget, CacheBelongs, sessionVars, cacheVars
<1>1. CASE InitializeDiscovers
  <2> DEFINE found == DiscoveredRuns(job[InitJob].target)
  <2>1. /\ pc[InitJob] = "discovering"
        /\ \/ \E resumed \in {"initialized", "initFailed"} : SettleInitialize(resumed)
           \/ \E run \in found : StartLoading(InitJob, run)
        /\ UNCHANGED <<dbtTarget, loaded, targetCache, pendingRun>>
    BY <1>1 DEF InitializeDiscovers, sessionVars, cacheVars
  <2>2. \A run \in found : run.target = job[InitJob].target
    BY <2>1, DiscoveredRunsType DEF ControlInv, Job
  <2>3. JobsBelong'
    BY <2>1, <2>2, SettleInitializeBelongs, StartLoadingBelongs
  <2> QED  BY <2>1, <2>3 DEF LoadedBelongsToTarget, CacheBelongs
<1>2. CASE InitializeCommits
  BY <1>2, <1>b, SettleInitializeBelongs, CommitBelongs DEF InitializeCommits
<1>3. CASE ReadManifest(InitJob) \/ ReadRunResults(InitJob)
  <2>1. job[InitJob] \in Job
    BY <1>3 DEF ReadManifest, ReadRunResults, ControlInv
  <2>2. /\ job'[InitJob].run = job[InitJob].run /\ job'[InitJob].target = job[InitJob].target
        /\ job'[InitJob].binding = job[InitJob].binding
        /\ \A x \in Callers : job'[x] = job[x]
        /\ UNCHANGED <<pc, call>>
    BY <1>3, <2>1 DEF ReadManifest, ReadRunResults, ControlInv, ControlTypeOK, Job
  <2>3. JobsBelong'
    BY <2>2 DEF JobsBelong, JobBelongs, Accepting
  <2> QED  BY <1>3, <1>b, <2>3 DEF ReadManifest, ReadRunResults
<1>4. CASE InitializeFails
  BY <1>4, <1>b, SettleInitializeBelongs DEF InitializeFails
<1> QED  BY <1>1, <1>2, <1>3, <1>4 DEF ContinueInitialize

LEMMA NextBelongs ==
    ASSUME AutoReloadOnPoll
    PROVE  TypeInv /\ BelongInv /\ [Next]_vars => BelongInv'
<1> SUFFICES ASSUME TypeInv, BelongInv, [Next]_vars PROVE BelongInv'
  OBVIOUS
<1>1. ASSUME UNCHANGED controlVars
      PROVE  JobsBelong'
  <2>1. UNCHANGED <<call, pc, job>>
    BY <1>1 DEF controlVars
  <2> QED  BY <2>1 DEF BelongInv, JobsBelong, JobBelongs, Accepting
<1>2. CASE Tick
  <2>1. \A t \in Targets : targetCache[t] # None => targetCache[t] \in CacheEntry
    BY DEF TypeInv, SessionTypeOK
  <2>2. CacheBelongs'
    BY <1>2, <2>1 DEF Tick, BelongInv, CacheBelongs, CacheEntry
  <2> QED
    BY <1>1, <1>2, <2>2 DEF Tick, BelongInv, LoadedBelongsToTarget, sessionVars
<1>3. CASE Environment \/ UNCHANGED vars
  BY <1>1, <1>3
     DEF Environment, vars, BelongInv, LoadedBelongsToTarget, CacheBelongs, sessionVars,
         cacheVars
<1> QED
  BY <1>2, <1>3, CallBelongs, StartBelongs, ContinueBelongs, ContinueInitializeBelongs
     DEF Next

\* The stale-load rule for any number of callers, roots, dbt invocations and
\* faults: however calls, loads and switches of the root interleave, the
\* snapshot in use was loaded for the bound root, as long as new versions are
\* reloaded automatically, which is how the MCP server runs the workspace.
THEOREM LoadedBelongs ==
    ASSUME AutoReloadOnPoll
    PROVE  Spec => []LoadedBelongsToTarget
<1>1. Init => BelongInv
  BY Disjoint
     DEF Init, BelongInv, JobsBelong, JobBelongs, Accepting, LoadedBelongsToTarget,
         CacheBelongs
<1>2. BelongInv => LoadedBelongsToTarget
  BY DEF BelongInv
<1> QED  BY <1>1, <1>2, NextBelongs, InitTypeInv, NextTypeInv, PTL DEF Spec


-----------------------------------------------------------------------------
(***************************************************************************)
(* Theorems about what ArtifactWorkspace keeps of a root:                  *)
(*   - the order of the cache's keys is the order of last access, and      *)
(*     nothing expired is served;                                          *)
(*   - the runs the status lists, and those a cached entry restores, are   *)
(*     those of its root.  Every operation but listRuns replaces the runs  *)
(*     under a binding it has just checked, so they are those of the bound *)
(*     root when syncActiveToCache stores them under its key.  listRuns    *)
(*     does not check, which is why those theorems leave it out of the     *)
(*     operations called;                                                  *)
(*   - every token kept of a root (of a snapshot, a job or a pending run)  *)
(*     was listed there, and what is read of a root is never older than    *)
(*     the token it is read for, so that an unchanged token means an       *)
(*     unchanged pair of files.                                            *)
(***************************************************************************)

\* kept is what a filter by keys leaves of the first n members of order: the members
\* in keys, each of them where order has it, in the order of order.
IsKept(kept, order, keys, n) ==
    /\ \A i \in 1 .. Len(kept) : kept[i] \in keys /\ \E a \in 1 .. n : kept[i] = order[a]
    /\ \A a \in 1 .. n : order[a] \in keys => \E i \in 1 .. Len(kept) : kept[i] = order[a]
    /\ \A i, k \in 1 .. Len(kept) :
          i < k => \E a, b \in 1 .. n : a < b /\ kept[i] = order[a] /\ kept[k] = order[b]
    /\ Len(kept) <= n
    /\ (\E a \in 1 .. n : order[a] \notin keys) => Len(kept) < n

\* f[n] is what the filter by keys leaves of the first n members of order.
Filters(f, order, keys) ==
    /\ Kept(order, keys) = f[Len(order)]
    /\ f[0] = <<>>
    /\ \A n \in 1 .. Len(order) :
          f[n] = IF order[n] \in keys THEN Append(f[n - 1], order[n]) ELSE f[n - 1]

LEMMA KeptRecursion ==
    ASSUME NEW order \in Seq(Targets), NEW keys
    PROVE  \E f \in [0 .. Len(order) -> Seq(Targets)] : Filters(f, order, keys)
<1> DEFINE N == Len(order)
           S == Seq(Targets)
           Put(n, s) == IF order[n] \in keys THEN Append(s, order[n]) ELSE s
           step == [n \in 1 .. N |-> [s \in S |-> Put(n, s)]]
           Upto(f, n) == IF n = 0 THEN <<>>
                         ELSE IF order[n] \in keys THEN Append(f[n - 1], order[n])
                         ELSE f[n - 1]
           Is(f) == f = [n \in 0 .. N |-> Upto(f, n)]
           Recurs(f) == f[0] = <<>> /\ \A n \in 1 .. N : f[n] = Put(n, f[n - 1])
<1>1. N \in Nat /\ <<>> \in S
  OBVIOUS
<1>2. \A n \in 1 .. N : order[n] \in Targets
  OBVIOUS
<1>3. \A n \in 1 .. N, s \in S : Put(n, s) \in S
  BY <1>2
<1>4. Kept(order, keys) = (CHOOSE g : Is(g))[N]
  BY DEF Kept
<1>5. \A g : Is(g) => Recurs(g)
  <2> SUFFICES ASSUME NEW g, Is(g) PROVE Recurs(g)
    OBVIOUS
  <2>1. \A n \in 0 .. N : g[n] = Upto(g, n)
    BY Zenon
  <2>2. 0 \in 0 .. N /\ \A n \in 1 .. N : n # 0 /\ n \in 0 .. N
    BY <1>1
  <2> HIDE DEF N
  <2> QED  BY <2>1, <2>2
<1>6. \A g : g = [n \in 0 .. N |-> g[n]] /\ Recurs(g) => Is(g)
  <2> SUFFICES ASSUME NEW g, Recurs(g) PROVE [n \in 0 .. N |-> g[n]] = [n \in 0 .. N |-> Upto(g, n)]
    BY Zenon
  <2>1. \A n \in 0 .. N : n = 0 \/ (n # 0 /\ n \in 1 .. N)
    BY <1>1
  <2>2. \A n \in 0 .. N : g[n] = Upto(g, n)
    <3> HIDE DEF N
    <3> QED  BY <2>1
  <2> HIDE DEF N, Upto
  <2> QED  BY <2>2
<1> HIDE DEF N, S, Is
<1>7. PICK f \in [0 .. N -> S] : Recurs(f)
  <2>1. step \in [1 .. N -> [S -> S]]
    <3> HIDE DEF Put
    <3> QED  BY <1>3
  <2>2. \A n \in 1 .. N, s \in S : step[n][s] = Put(n, s)
    <3> HIDE DEF Put
    <3> QED  BY <1>3
  <2> HIDE DEF step, Put
  <2> DEFINE first == <<>>
  <2>3. first \in S
    BY <1>1
  <2> HIDE DEF first
  <2>5. PICK f \in [0 .. N -> S] :
           f[0] = first /\ \A n \in 1 .. N : f[n] = step[n][f[n - 1]]
    <3>1. N \in Nat
      BY <1>1
    <3> QED  BY <2>1, <2>3, <3>1, Iteration
  <2>4. \A n \in 1 .. N : f[n - 1] \in S
    BY <1>1
  <2> QED  BY <2>2, <2>4, <2>5 DEF first
<1>8. Is(f)
  <2>1. f = [n \in 0 .. N |-> f[n]]
    OBVIOUS
  <2> HIDE DEF Recurs
  <2> QED  BY <1>6, <1>7, <2>1
<1> DEFINE g == CHOOSE h : Is(h)
<1>9. Is(g)
  BY <1>8
<1> HIDE DEF g
<1>10. Recurs(g)
  <2> HIDE DEF Recurs
  <2> QED  BY <1>5, <1>9
<1> HIDE DEF Put
<1>11. \A n \in 0 .. N : g[n] = f[n]
  <2> DEFINE same == {n \in 0 .. N : g[n] = f[n]}
  <2>1. 0 \in same
    BY <1>1, <1>7, <1>10
  <2>2. \A n \in 1 .. N : n - 1 \in same => n \in same
    BY <1>1, <1>7, <1>10
  <2> HIDE DEF same
  <2>3. 0 .. N \subseteq same
    BY <1>1, <2>1, <2>2, BoundedInduction
  <2> QED  BY <2>3 DEF same
<1>12. Kept(order, keys) = f[N]
  BY <1>1, <1>4, <1>11 DEF g
<1> QED  BY <1>7, <1>12 DEF N, S, Put, Filters

LEMMA KeptFacts ==
    ASSUME NEW order \in Seq(Targets), NEW keys
    PROVE  /\ Kept(order, keys) \in Seq(Targets)
           /\ IsKept(Kept(order, keys), order, keys, Len(order))
<1>1. PICK f \in [0 .. Len(order) -> Seq(Targets)] : Filters(f, order, keys)
  BY KeptRecursion
<1> DEFINE good == {n \in 0 .. Len(order) : IsKept(f[n], order, keys, n)}
<1>2. 0 \in good
  BY <1>1 DEF IsKept, Filters
<1>3. ASSUME NEW n \in 1 .. Len(order), n - 1 \in good PROVE n \in good
  <2> DEFINE s == f[n - 1]
             m == Len(s)
  <2>1. /\ n \in Nat /\ n - 1 \in Nat /\ n - 1 \in 0 .. Len(order) /\ s \in Seq(Targets)
        /\ m \in Nat /\ order[n] \in Targets
        /\ IsKept(s, order, keys, n - 1)
    BY <1>3
  <2> HIDE DEF s
  <2>2. CASE order[n] \in keys
    <3>1. f[n] = Append(s, order[n])
      BY <1>1, <2>2 DEF s, Filters
    <3>2. /\ Len(f[n]) = m + 1 /\ f[n][m + 1] = order[n]
          /\ \A i \in 1 .. m : f[n][i] = s[i]
      BY <2>1, <3>1
    <3>3. \A i \in 1 .. Len(f[n]) : f[n][i] \in keys /\ \E a \in 1 .. n : f[n][i] = order[a]
      <4> SUFFICES ASSUME NEW i \in 1 .. Len(f[n])
                   PROVE  f[n][i] \in keys /\ \E a \in 1 .. n : f[n][i] = order[a]
        OBVIOUS
      <4>1. CASE i = m + 1
        BY <2>1, <2>2, <3>2, <4>1
      <4>2. CASE i # m + 1
        <5>1. i \in 1 .. m /\ f[n][i] = s[i]
          BY <2>1, <3>2, <4>2
        <5>2. s[i] \in keys /\ \E a \in 1 .. n - 1 : s[i] = order[a]
          BY <2>1, <5>1 DEF IsKept
        <5> QED  BY <5>1, <5>2
      <4> QED  BY <4>1, <4>2
    <3>4. \A a \in 1 .. n : order[a] \in keys => \E i \in 1 .. Len(f[n]) : f[n][i] = order[a]
      <4> SUFFICES ASSUME NEW a \in 1 .. n, order[a] \in keys
                   PROVE  \E i \in 1 .. Len(f[n]) : f[n][i] = order[a]
        OBVIOUS
      <4>1. CASE a = n
        BY <2>1, <3>2, <4>1
      <4>2. CASE a # n
        <5>1. a \in 1 .. n - 1
          BY <4>2
        <5>2. PICK i \in 1 .. m : s[i] = order[a]
          BY <2>1, <5>1 DEF IsKept
        <5> QED  BY <2>1, <3>2, <5>2
      <4> QED  BY <4>1, <4>2
    <3>5. ASSUME NEW i \in 1 .. Len(f[n]), NEW k \in 1 .. Len(f[n]), i < k
          PROVE  \E a, b \in 1 .. n : a < b /\ f[n][i] = order[a] /\ f[n][k] = order[b]
      <4>1. i \in 1 .. m
        BY <2>1, <3>2, <3>5
      <4>2. CASE k = m + 1
        <5>1. PICK a \in 1 .. n - 1 : s[i] = order[a]
          BY <2>1, <4>1 DEF IsKept
        <5>2. a < n /\ a \in 1 .. n /\ n \in 1 .. n /\ f[n][i] = order[a] /\ f[n][k] = order[n]
          BY <2>1, <3>2, <4>1, <4>2, <5>1
        <5> QED  BY <5>2
      <4>3. CASE k # m + 1
        <5>1. k \in 1 .. m
          BY <2>1, <3>2, <4>3
        <5>2. PICK a \in 1 .. n - 1, b \in 1 .. n - 1 : a < b /\ s[i] = order[a] /\ s[k] = order[b]
          BY <2>1, <3>5, <4>1, <5>1 DEF IsKept
        <5> QED  BY <3>2, <4>1, <5>1, <5>2
      <4> QED  BY <4>2, <4>3
    <3>6. Len(f[n]) <= n
      BY <2>1, <3>2 DEF IsKept
    <3>7. (\E a \in 1 .. n : order[a] \notin keys) => Len(f[n]) < n
      <4> SUFFICES ASSUME NEW a \in 1 .. n, order[a] \notin keys PROVE Len(f[n]) < n
        OBVIOUS
      <4>1. a \in 1 .. n - 1
        BY <2>2
      <4> QED  BY <2>1, <3>2, <4>1 DEF IsKept
    <3> QED  BY <3>3, <3>4, <3>5, <3>6, <3>7 DEF IsKept
  <2>3. CASE order[n] \notin keys
    <3> HIDE DEF m
    <3>1. f[n] = s
      BY <1>1, <2>3 DEF s, Filters
    <3>2. \A a \in 1 .. n - 1 : a \in 1 .. n
      OBVIOUS
    <3>3. \A a \in 1 .. n : a = n \/ a \in 1 .. n - 1
      OBVIOUS
    <3>4. \A i \in 1 .. Len(f[n]) : f[n][i] \in keys /\ \E a \in 1 .. n : f[n][i] = order[a]
      BY <2>1, <3>1, <3>2 DEF IsKept
    <3>5. \A a \in 1 .. n : order[a] \in keys => \E i \in 1 .. Len(f[n]) : f[n][i] = order[a]
      BY <2>1, <2>3, <3>1, <3>3 DEF IsKept
    <3>6. \A i, k \in 1 .. Len(f[n]) :
             i < k => \E a, b \in 1 .. n : a < b /\ f[n][i] = order[a] /\ f[n][k] = order[b]
      BY <2>1, <3>1, <3>2 DEF IsKept
    <3>7. Len(f[n]) < n
      BY <2>1, <3>1 DEF IsKept
    <3>8. Len(f[n]) <= n
      BY <2>1, <3>1, <3>7
    <3>9. IsKept(f[n], order, keys, n)
      BY <3>4, <3>5, <3>6, <3>7, <3>8 DEF IsKept
    <3> QED  BY <3>9
  <2> QED  BY <2>2, <2>3
<1>4. 0 .. Len(order) \subseteq good
  <2>1. Len(order) \in Nat
    OBVIOUS
  <2> HIDE DEF good
  <2> QED  BY <1>2, <1>3, <2>1, BoundedInduction
<1>5. Len(order) \in good
  <2>1. Len(order) \in 0 .. Len(order)
    OBVIOUS
  <2> QED  BY <1>4, <2>1
<1> QED  BY <1>1, <1>5 DEF Filters
-----------------------------------------------------------------------------
(* The order of the cache's keys. *)

\* order holds each cached root once, the one longest unused first.
InOrder(order, cache) ==
    /\ order \in Seq(Targets)
    /\ \A i \in 1 .. Len(order) : cache[order[i]] # None
    /\ \A t \in Targets : cache[t] # None => \E i \in 1 .. Len(order) : order[i] = t
    /\ \A i, k \in 1 .. Len(order) :
          i < k => order[i] # order[k] /\ cache[order[i]].idle >= cache[order[k]].idle

LruInv == InOrder(lru, targetCache) /\ Len(lru) <= MaxCachedTargets

\* The roots outside keys are dropped from the cache and from its order.
LEMMA KeptInOrder ==
    ASSUME NEW order, NEW cache, InOrder(order, cache), NEW keys, NEW left,
           \A t \in Targets : left[t] # None <=> t \in keys /\ cache[t] # None,
           \A t \in Targets : left[t] # None => left[t] = cache[t]
    PROVE  /\ InOrder(Kept(order, keys), left)
           /\ Len(Kept(order, keys)) <= Len(order)
           /\ \A t \in Targets : cache[t] # None /\ t \notin keys =>
                                     Len(Kept(order, keys)) < Len(order)
<1> DEFINE kept == Kept(order, keys)
           n == Len(order)
<1>1. order \in Seq(Targets) /\ n \in Nat /\ \A a \in 1 .. n : order[a] \in Targets
  BY DEF InOrder
<1>2. kept \in Seq(Targets) /\ IsKept(kept, order, keys, n)
  BY <1>1, KeptFacts
<1> HIDE DEF kept
<1>3. \A i \in 1 .. Len(kept) : kept[i] \in Targets /\ left[kept[i]] # None
  BY <1>1, <1>2 DEF IsKept, InOrder
<1>4. \A t \in Targets : left[t] # None => \E i \in 1 .. Len(kept) : kept[i] = t
  <2> SUFFICES ASSUME NEW t \in Targets, left[t] # None
               PROVE  \E i \in 1 .. Len(kept) : kept[i] = t
    OBVIOUS
  <2>1. PICK a \in 1 .. n : order[a] = t
    BY DEF InOrder
  <2> QED  BY <1>2, <2>1 DEF IsKept
<1>5. ASSUME NEW i \in 1 .. Len(kept), NEW k \in 1 .. Len(kept), i < k
      PROVE  kept[i] # kept[k] /\ left[kept[i]].idle >= left[kept[k]].idle
  <2>1. PICK a \in 1 .. n, b \in 1 .. n : a < b /\ kept[i] = order[a] /\ kept[k] = order[b]
    BY <1>2, <1>5 DEF IsKept
  <2>2. order[a] # order[b] /\ cache[order[a]].idle >= cache[order[b]].idle
    BY <2>1 DEF InOrder
  <2>3. left[kept[i]] = cache[kept[i]] /\ left[kept[k]] = cache[kept[k]]
    BY <1>3
  <2> QED  BY <2>1, <2>2, <2>3
<1>6. \A t \in Targets : cache[t] # None /\ t \notin keys => Len(kept) < n
  <2> SUFFICES ASSUME NEW t \in Targets, cache[t] # None, t \notin keys PROVE Len(kept) < n
    OBVIOUS
  <2>1. PICK a \in 1 .. n : order[a] = t
    BY DEF InOrder
  <2> QED  BY <1>2, <2>1 DEF IsKept
<1>7. Len(kept) <= n
  BY <1>2 DEF IsKept
<1> QED  BY <1>2, <1>3, <1>4, <1>5, <1>6, <1>7 DEF InOrder, kept

\* A root that is not cached is put at the end, as just used.
LEMMA AppendInOrder ==
    ASSUME NEW order, NEW cache, InOrder(order, cache), NEW t \in Targets, cache[t] = None,
           NEW grown, grown[t] # None, grown[t].idle = 0,
           \A u \in Targets \ {t} : grown[u] = cache[u],
           \A u \in Targets : cache[u] # None => cache[u].idle \in Nat
    PROVE  InOrder(Append(order, t), grown) /\ Len(Append(order, t)) = Len(order) + 1
<1> DEFINE longer == Append(order, t)
           n == Len(order)
<1>1. /\ order \in Seq(Targets) /\ n \in Nat /\ longer \in Seq(Targets)
      /\ Len(longer) = n + 1 /\ longer[n + 1] = t
      /\ \A i \in 1 .. n : longer[i] = order[i] /\ order[i] \in Targets
  BY DEF InOrder
<1>2. \A i \in 1 .. n : cache[order[i]] # None /\ order[i] # t /\ grown[order[i]] = cache[order[i]]
  BY <1>1 DEF InOrder
<1> HIDE DEF longer
<1>3. \A i \in 1 .. Len(longer) : grown[longer[i]] # None
  <2>1. \A i \in 1 .. n + 1 : i = n + 1 \/ i \in 1 .. n
    BY <1>1
  <2> QED  BY <1>1, <1>2, <2>1
<1>4. \A u \in Targets : grown[u] # None => \E i \in 1 .. Len(longer) : longer[i] = u
  <2> SUFFICES ASSUME NEW u \in Targets, grown[u] # None
               PROVE  \E i \in 1 .. Len(longer) : longer[i] = u
    OBVIOUS
  <2>1. CASE u = t
    <3>1. n + 1 \in 1 .. Len(longer)
      BY <1>1
    <3> QED  BY <1>1, <2>1, <3>1
  <2>2. CASE u # t
    <3>1. PICK i \in 1 .. n : order[i] = u
      BY <2>2 DEF InOrder
    <3> QED  BY <1>1, <3>1
  <2> QED  BY <2>1, <2>2
<1>5. ASSUME NEW i \in 1 .. Len(longer), NEW k \in 1 .. Len(longer), i < k
      PROVE  longer[i] # longer[k] /\ grown[longer[i]].idle >= grown[longer[k]].idle
  <2>1. i \in 1 .. n /\ longer[i] = order[i] /\ grown[longer[i]] = cache[order[i]]
    BY <1>1, <1>2, <1>5
  <2>2. CASE k = n + 1
    <3>1. longer[k] = t /\ grown[longer[k]].idle = 0 /\ grown[longer[i]].idle \in Nat
      BY <1>1, <1>2, <2>1, <2>2
    <3> QED  BY <1>2, <2>1, <3>1
  <2>3. CASE k # n + 1
    <3>1. k \in 1 .. n /\ longer[k] = order[k] /\ grown[longer[k]] = cache[order[k]]
      BY <1>1, <1>2, <2>3
    <3> QED  BY <1>5, <2>1, <3>1 DEF InOrder
  <2> QED  BY <2>2, <2>3
<1> QED  BY <1>1, <1>3, <1>4, <1>5 DEF InOrder, longer

\* The root longest unused is dropped.
LEMMA TailInOrder ==
    ASSUME NEW order, NEW cache, InOrder(order, cache), order # <<>>, NEW left,
           left[Head(order)] = None,
           \A u \in Targets \ {Head(order)} : left[u] = cache[u]
    PROVE  InOrder(Tail(order), left) /\ Len(Tail(order)) = Len(order) - 1
<1> DEFINE rest == Tail(order)
           n == Len(order)
<1>1. /\ order \in Seq(Targets) /\ n \in Nat /\ n > 0 /\ rest \in Seq(Targets)
      /\ Len(rest) = n - 1 /\ Head(order) = order[1]
      /\ \A i \in 1 .. n - 1 : rest[i] = order[i + 1] /\ i + 1 \in 1 .. n
      /\ 1 \in 1 .. n
  BY DEF InOrder
<1> HIDE DEF rest
<1>2. \A i \in 1 .. Len(rest) : /\ rest[i] # Head(order) /\ rest[i] \in Targets
                               /\ left[rest[i]] = cache[rest[i]]
  <2> SUFFICES ASSUME NEW i \in 1 .. Len(rest)
               PROVE  rest[i] # Head(order) /\ rest[i] \in Targets
    OBVIOUS
  <2>1. i + 1 \in 1 .. n /\ 1 < i + 1 /\ rest[i] = order[i + 1]
    BY <1>1
  <2> QED  BY <1>1, <2>1 DEF InOrder
<1>3. \A i \in 1 .. Len(rest) : left[rest[i]] # None
  BY <1>1, <1>2 DEF InOrder
<1>4. \A u \in Targets : left[u] # None => \E i \in 1 .. Len(rest) : rest[i] = u
  <2> SUFFICES ASSUME NEW u \in Targets, left[u] # None
               PROVE  \E i \in 1 .. Len(rest) : rest[i] = u
    OBVIOUS
  <2>1. u # Head(order) /\ cache[u] # None
    OBVIOUS
  <2>2. PICK k \in 1 .. n : order[k] = u
    BY <2>1 DEF InOrder
  <2>3. k # 1 /\ k - 1 \in 1 .. Len(rest) /\ rest[k - 1] = order[(k - 1) + 1]
    BY <1>1, <2>1, <2>2
  <2> QED  BY <2>2, <2>3
<1>5. ASSUME NEW i \in 1 .. Len(rest), NEW k \in 1 .. Len(rest), i < k
      PROVE  rest[i] # rest[k] /\ left[rest[i]].idle >= left[rest[k]].idle
  <2>1. /\ i + 1 \in 1 .. n /\ k + 1 \in 1 .. n /\ i + 1 < k + 1
        /\ rest[i] = order[i + 1] /\ rest[k] = order[k + 1]
    BY <1>1, <1>5
  <2> QED  BY <1>2, <2>1 DEF InOrder
<1> QED  BY <1>1, <1>3, <1>4, <1>5 DEF InOrder, rest

LEMMA TouchedInOrder ==
    ASSUME NEW order, NEW cache, InOrder(order, cache), NEW t \in Targets,
           NEW touched, touched[t] # None, touched[t].idle = 0,
           \A u \in Targets \ {t} : touched[u] = cache[u],
           \A u \in Targets : cache[u] # None => cache[u].idle \in Nat
    PROVE  /\ InOrder(Touched(order, t), touched)
           /\ Len(Touched(order, t)) <= Len(order) + 1
           /\ cache[t] # None => Len(Touched(order, t)) <= Len(order)
           /\ \E m \in Nat : /\ Len(Touched(order, t)) = m + 1
                             /\ Touched(order, t)[m + 1] = t
<1> DEFINE left == [u \in Targets |-> IF u = t THEN None ELSE cache[u]]
           keys == Targets \ {t}
           kept == Kept(order, keys)
<1>1. /\ \A u \in Targets : left[u] # None <=> u \in keys /\ cache[u] # None
      /\ t \notin keys
      /\ \A u \in Targets : left[u] # None => left[u] = cache[u]
      /\ left[t] = None
      /\ \A u \in Targets \ {t} : touched[u] = left[u]
      /\ \A u \in Targets : left[u] # None => left[u].idle \in Nat
  OBVIOUS
<1> HIDE DEF left, keys
<1>2. /\ InOrder(kept, left) /\ Len(kept) <= Len(order)
      /\ cache[t] # None => Len(kept) < Len(order)
  <2>1. \A u \in Targets : left[u] # None <=> u \in keys /\ cache[u] # None
    BY <1>1
  <2>2. \A u \in Targets : left[u] # None => left[u] = cache[u]
    BY <1>1
  <2>3. /\ InOrder(Kept(order, keys), left)
        /\ Len(Kept(order, keys)) <= Len(order)
        /\ \A u \in Targets : cache[u] # None /\ u \notin keys =>
                                  Len(Kept(order, keys)) < Len(order)
    BY <2>1, <2>2, KeptInOrder
  <2> QED  BY <1>1, <2>3
<1> HIDE DEF kept
<1>3. InOrder(Append(kept, t), touched) /\ Len(Append(kept, t)) = Len(kept) + 1
  BY <1>1, <1>2, AppendInOrder
<1>4. Touched(order, t) = Append(kept, t)
  BY DEF Touched, kept, keys
<1>5. /\ Len(kept) \in Nat /\ Len(order) \in Nat
      /\ Append(kept, t)[Len(kept) + 1] = t
  BY <1>2 DEF InOrder
<1> QED  BY <1>2, <1>3, <1>4, <1>5

-----------------------------------------------------------------------------
(* What steps do to the order. *)

LEMMA EntryFacts ==
    ASSUME NEW cache \in [Targets -> CacheEntry \cup {None}]
    PROVE  \A t \in Targets : cache[t] # None => cache[t] \in CacheEntry /\ cache[t].idle \in Nat
BY WorkspaceAssumption DEF CacheEntry

LEMMA PutLru ==
    ASSUME SessionTypeOK, LruInv, MaxCachedTargets # 0, NEW t \in Targets,
           NEW entry \in CacheEntry, entry.idle = 0, PutCacheEntry(t, entry)
    PROVE  LruInv' /\ targetCache'[t] = entry
<1> DEFINE touched == [targetCache EXCEPT ![t] = entry]
           order == Touched(lru, t)
<1>1. /\ entry # None /\ MaxCachedTargets \in Nat
      /\ \A u \in Targets : targetCache[u] # None => targetCache[u].idle \in Nat
  BY WorkspaceAssumption, NoneIsNoSnapshot, EntryFacts DEF SessionTypeOK
<1>2. touched[t] = entry /\ \A u \in Targets \ {t} : touched[u] = targetCache[u]
  BY DEF SessionTypeOK
<1>3. \A u \in Targets : targetCache'[u] = IF Len(order) > MaxCachedTargets /\ u = Head(order)
                                          THEN None ELSE touched[u]
  BY <1>2 DEF PutCacheEntry
<1>4. lru' = IF Len(order) > MaxCachedTargets THEN Tail(order) ELSE order
  BY DEF PutCacheEntry
<1> HIDE DEF touched
<1>5. InOrder(lru, targetCache) /\ Len(lru) <= MaxCachedTargets /\ Len(lru) \in Nat
  BY DEF LruInv, InOrder
<1>6. /\ InOrder(order, touched) /\ Len(order) <= Len(lru) + 1
      /\ \E m \in Nat : Len(order) = m + 1 /\ order[m + 1] = t
  BY <1>1, <1>2, <1>5, TouchedInOrder
<1> HIDE DEF order
<1>7. CASE Len(order) <= MaxCachedTargets
  <2>1. lru' = order /\ \A u \in Targets : targetCache'[u] = touched[u]
    BY <1>1, <1>3, <1>4, <1>6, <1>7
  <2>2. \A i \in 1 .. Len(order) : order[i] \in Targets
    BY <1>6 DEF InOrder
  <2>3. LruInv'
    BY <1>6, <1>7, <2>1, <2>2 DEF LruInv, InOrder
  <2> QED  BY <1>2, <2>1, <2>3
<1>8. CASE ~(Len(order) <= MaxCachedTargets)
  <2>1. /\ lru' = Tail(order) /\ order # <<>> /\ Head(order) \in Targets
        /\ order \in Seq(Targets) /\ Len(order) = MaxCachedTargets + 1
    BY <1>1, <1>4, <1>5, <1>6, <1>8 DEF InOrder
  <2>2. /\ targetCache'[Head(order)] = None
        /\ \A u \in Targets \ {Head(order)} : targetCache'[u] = touched[u]
    BY <1>1, <1>3, <1>8, <2>1
  <2>3. InOrder(Tail(order), targetCache') /\ Len(Tail(order)) = Len(order) - 1
    BY <1>6, <2>1, <2>2, TailInOrder
  <2>4. Head(order) # t
    <3>1. Head(order) = order[1] /\ order[Len(order)] = t /\ 1 < Len(order)
          /\ 1 \in 1 .. Len(order) /\ Len(order) \in 1 .. Len(order)
      BY <1>1, <1>6, <2>1
    <3> QED  BY <1>6, <3>1 DEF InOrder
  <2> QED  BY <1>1, <1>2, <2>1, <2>2, <2>3, <2>4 DEF LruInv
<1> QED  BY <1>7, <1>8

LEMMA SyncLru ==
    ASSUME SessionTypeOK, LruInv, NEW t \in Targets \cup {None},
           NEW id \in {CurrentRunId, None}, NEW found \in SUBSET Run,
           NEW snapshot \in Loaded \cup {None}, SyncActiveToCache(t, id, found, snapshot)
    PROVE  /\ LruInv'
           /\ MaxCachedTargets # 0 /\ t # None /\ snapshot # None /\ id # None =>
                 targetCache'[t] # None /\ targetCache'[t].loaded = snapshot
<1>1. CASE MaxCachedTargets = 0 \/ t = None \/ snapshot = None \/ id = None
  BY <1>1 DEF SyncActiveToCache, cacheVars, LruInv
<1>2. CASE ~(MaxCachedTargets = 0 \/ t = None \/ snapshot = None \/ id = None)
  <2> DEFINE entry == [runs |-> found, selectedRunId |-> id, loaded |-> snapshot, idle |-> 0]
  <2>1. entry \in CacheEntry /\ entry.idle = 0 /\ entry.loaded = snapshot /\ entry # None
    BY <1>2, WorkspaceAssumption, NoneIsNoSnapshot DEF CacheEntry
  <2>2. PutCacheEntry(t, entry)
    BY <1>2 DEF SyncActiveToCache
  <2> HIDE DEF entry
  <2> QED  BY <1>2, <2>1, <2>2, PutLru
<1> QED  BY <1>1, <1>2

LEMMA CommitLru ==
    ASSUME TypeInv, LruInv, NEW p \in Processes, IsRead(p),
           NEW id \in {CurrentRunId, selectedRunId}, Commit(p, id, runs)
    PROVE  LruInv'
<1>1. SyncActiveToCache(dbtTarget, id, runs, SnapshotOf(p))
  BY DEF Commit, SnapshotOf
<1>2. SnapshotOf(p) \in Loaded
  BY DEF SnapshotOf, IsRead, TypeInv, ControlInv, Job, Loaded
<1> QED  BY <1>1, <1>2, SyncLru DEF TypeInv, SessionTypeOK

\* Of the expired entries nothing is left.
LEMMA ExpireLru ==
    ASSUME SessionTypeOK, LruInv
    PROVE  /\ InOrder(KeysOf(Unexpired, lru), Unexpired)
           /\ Len(KeysOf(Unexpired, lru)) <= Len(lru)
<1> DEFINE keys == {t \in Targets : Unexpired[t] # None}
<1>1. /\ \A t \in Targets : Unexpired[t] # None <=> t \in keys /\ targetCache[t] # None
      /\ \A t \in Targets : Unexpired[t] # None => Unexpired[t] = targetCache[t]
  BY DEF Unexpired
<1>2. KeysOf(Unexpired, lru) = Kept(lru, keys)
  BY DEF KeysOf
<1>3. InOrder(lru, targetCache)
  BY DEF LruInv
<1> HIDE DEF keys
<1> QED  BY <1>1, <1>2, <1>3, KeptInOrder

LEMMA StartLru ==
    ASSUME TypeInv, LruInv, NEW c \in Callers, StartOperation(c)
    PROVE  LruInv'
<1> USE DEF TypeInv
<1>1. CASE StartSetCachedTarget(c)
  <2> DEFINE t == call[c].target
             order == KeysOf(Unexpired, lru)
  <2>1. t \in Targets /\ Unexpired[t] # None
    BY <1>1, StartsFacts DEF StartSetCachedTarget, Request
  <2>2. Unexpired \in [Targets -> CacheEntry \cup {None}]
    BY UnexpiredType
  <2>3. targetCache' = [Unexpired EXCEPT ![t] = [Unexpired[t] EXCEPT !.idle = 0]]
        /\ lru' = Touched(order, t)
    BY <1>1 DEF StartSetCachedTarget
  <2>4. /\ Unexpired[t] \in CacheEntry
        /\ \A u \in Targets : Unexpired[u] # None => Unexpired[u].idle \in Nat
    BY <2>1, <2>2, EntryFacts
  <2>5. [Unexpired[t] EXCEPT !.idle = 0] \in CacheEntry /\ [Unexpired[t] EXCEPT !.idle = 0].idle = 0
    BY <2>4, WorkspaceAssumption DEF CacheEntry
  <2>6. /\ targetCache'[t] # None /\ targetCache'[t].idle = 0
        /\ \A u \in Targets \ {t} : targetCache'[u] = Unexpired[u]
    BY <2>1, <2>2, <2>3, <2>5, NoneIsNoSnapshot
  <2>7. InOrder(order, Unexpired) /\ Len(order) <= Len(lru)
    BY ExpireLru
  <2> HIDE DEF order, t
  <2>8. InOrder(lru', targetCache') /\ Len(lru') <= Len(order)
    BY <2>1, <2>3, <2>4, <2>6, <2>7, TouchedInOrder
  <2>9. Len(order) \in Nat /\ Len(lru) \in Nat /\ Len(lru') \in Nat
        /\ MaxCachedTargets \in Nat
    BY <2>7, <2>8, WorkspaceAssumption DEF InOrder, LruInv
  <2> QED  BY <2>7, <2>8, <2>9 DEF LruInv
<1>2. CASE StartSetNewTarget(c)
  <2>1. /\ InOrder(lru', targetCache') /\ Len(lru') <= Len(lru)
    BY <1>2, ExpireLru DEF StartSetNewTarget
  <2>2. Len(lru) \in Nat /\ Len(lru') \in Nat /\ MaxCachedTargets \in Nat
    BY <2>1, WorkspaceAssumption DEF InOrder, LruInv
  <2> QED  BY <2>1, <2>2 DEF LruInv
<1>3. CASE StartClearCachedTargets(c)
  BY <1>3, WorkspaceAssumption DEF StartClearCachedTargets, LruInv, InOrder
<1>4. CASE UNCHANGED cacheVars
  BY <1>4 DEF cacheVars, LruInv
<1> QED
  BY <1>1, <1>2, <1>3, <1>4
     DEF StartOperation, StartSetBlankTarget, StartUnsetTarget, StartRefresh,
         StartGetLoadedWorkspace, StartSelectRun, StartAcceptPendingRun

LEMMA ContinueLru ==
    ASSUME TypeInv, LruInv, NEW c \in Callers, ContinueOperation(c)
    PROVE  LruInv'
<1> USE Disjoint DEF TypeInv
<1>1. CASE UNCHANGED cacheVars
  BY <1>1 DEF cacheVars, LruInv
<1>2. CASE Resume(c)
  BY <1>1, <1>2, SyncLru DEF Resume, SessionTypeOK
<1>3. CASE ReloadCommits(c) \/ SelectRunCommits(c) \/ AcceptPendingRunCommits(c)
  <2>1. /\ IsRead(c)
        /\ \/ UNCHANGED cacheVars
           \/ \E id \in {CurrentRunId, selectedRunId} : Commit(c, id, runs)
    BY <1>3 DEF ReloadCommits, SelectRunCommits, AcceptPendingRunCommits
  <2> QED  BY <1>1, <2>1, CommitLru
<1>4. CASE ListRunsDiscovers(c)
  <2>1. job[c] \in Job
    BY <1>4 DEF ListRunsDiscovers, ControlInv
  <2>2. DiscoveredRuns(job[c].target) \in SUBSET Run
    BY <2>1, DiscoveredRunsType DEF Job
  <2> QED  BY <1>4, <2>2, SyncLru DEF ListRunsDiscovers, SessionTypeOK
<1> QED
  BY <1>1, <1>2, <1>3, <1>4
     DEF ContinueOperation, ReloadDiscovers, SelectRunDiscovers, AcceptPendingRunDiscovers,
         ReadManifest, ReadRunResults, OperationFails, ReloadFails, SelectRunFails,
         AcceptPendingRunFails, ListRunsFails

LEMMA NextLru == TypeInv /\ LruInv /\ [Next]_vars => LruInv'
<1> SUFFICES ASSUME TypeInv, LruInv, [Next]_vars PROVE LruInv'
  OBVIOUS
<1>1. CASE UNCHANGED cacheVars
  BY <1>1 DEF cacheVars, LruInv
<1>2. CASE Tick
  <2>1. \A t \in Targets : targetCache[t] # None => targetCache[t] \in CacheEntry
                                                   /\ targetCache[t].idle \in Nat
    BY EntryFacts DEF TypeInv, SessionTypeOK
  <2>2. \A t \in Targets :
           targetCache[t] # None =>
               targetCache'[t] = [targetCache[t] EXCEPT
                                    !.idle = IF @ > CacheTtl THEN @ ELSE @ + 1]
    BY <1>2 DEF Tick
  <2>3. \A t \in Targets :
           targetCache[t] # None =>
               targetCache'[t].idle = IF targetCache[t].idle > CacheTtl THEN targetCache[t].idle
                                      ELSE targetCache[t].idle + 1
    BY <2>1, <2>2 DEF CacheEntry
  <2>4. SessionTypeOK'
    BY <1>2, TickTypeInv DEF TypeInv
  <2>5. \A t \in Targets : targetCache[t] = None <=> targetCache'[t] = None
    <3>1. \A t \in Targets : targetCache[t] # None => targetCache'[t] \in CacheEntry
      <4> SUFFICES ASSUME NEW t \in Targets, targetCache[t] # None
                   PROVE  targetCache'[t] \in CacheEntry
        OBVIOUS
      <4> DEFINE e == targetCache[t]
      <4>1. e \in CacheEntry
        BY <2>1
      <4>2. targetCache'[t] = [e EXCEPT !.idle = IF e.idle > CacheTtl THEN e.idle ELSE e.idle + 1]
        BY <2>2
      <4> HIDE DEF e
      <4>3. (IF e.idle > CacheTtl THEN e.idle ELSE e.idle + 1) \in 0 .. CacheTtl + 1
        BY <4>1, WorkspaceAssumption DEF CacheEntry
      <4> QED  BY <4>1, <4>2, <4>3 DEF CacheEntry
    <3>2. \A t \in Targets : targetCache[t] = None => targetCache'[t] = None
      BY <1>2 DEF Tick
    <3> QED  BY <3>1, <3>2, NoneIsNoSnapshot
  <2>6. lru' = lru /\ lru \in Seq(Targets) /\ Len(lru) \in Nat
        /\ \A i \in 1 .. Len(lru) : lru[i] \in Targets
    BY <1>2 DEF Tick, LruInv, InOrder
  <2>7. ASSUME NEW i \in 1 .. Len(lru), NEW k \in 1 .. Len(lru), i < k
        PROVE  lru[i] # lru[k] /\ targetCache'[lru[i]].idle >= targetCache'[lru[k]].idle
    <3>1. /\ lru[i] # lru[k] /\ targetCache[lru[i]].idle >= targetCache[lru[k]].idle
          /\ targetCache[lru[i]] # None /\ targetCache[lru[k]] # None
      BY <2>7 DEF LruInv, InOrder
    <3> QED  BY <2>1, <2>3, <2>6, <3>1, WorkspaceAssumption
  <2> QED  BY <2>5, <2>6, <2>7 DEF LruInv, InOrder
<1>3. CASE ContinueInitialize
  <2>1. CASE InitializeCommits
    BY <1>1, <2>1, CommitLru, Disjoint DEF InitializeCommits
  <2> QED
    BY <1>1, <1>3, <2>1
       DEF ContinueInitialize, InitializeDiscovers, InitializeFails, ReadManifest,
           ReadRunResults
<1> QED
  BY <1>1, <1>2, <1>3, StartLru, ContinueLru DEF Next, Call, Environment, vars

\* The Map of cached roots never holds more than maxCachedTargets keys, whatever
\* calls, loads and expiries add, touch and drop, and its insertion order is the
\* order of last access, so that the key putCacheEntry deletes is the one that
\* was not used for longest.
THEOREM CacheIsLRUAlways == Spec => []CacheIsLRU
<1>1. LruInv => CacheIsLRU
  <2> SUFFICES ASSUME LruInv PROVE CacheIsLRU
    OBVIOUS
  <2>1. {lru[i] : i \in 1 .. Len(lru)} = {t \in Targets : targetCache[t] # None}
    BY DEF LruInv, InOrder
  <2> QED  BY <2>1 DEF LruInv, InOrder, CacheIsLRU
<1>2. Init => LruInv
  BY WorkspaceAssumption DEF Init, LruInv, InOrder
<1> QED  BY <1>1, <1>2, InitTypeInv, NextTypeInv, NextLru, PTL DEF Spec

\* An entry that outlived cacheTtlMs is never served: only applyCachedTarget
\* binds a root together with a snapshot, and it looks up what evictExpired left.
THEOREM NoExpiredHitEver == Spec => NoExpiredHit
<1>1. TypeInv /\ [Next]_vars =>
         [\A t \in Targets : (dbtTarget # t /\ dbtTarget' = t /\ loaded' # None)
             => ~Expired(targetCache[t])]_vars
  <2> SUFFICES ASSUME TypeInv, Next, NEW t \in Targets,
                      dbtTarget # t, dbtTarget' = t, loaded' # None
               PROVE  ~Expired(targetCache[t])
    BY Zenon
  <2>1. PICK c \in Callers : StartSetCachedTarget(c) \/ StartSetNewTarget(c) \/ StartUnsetTarget(c)
    <3>1. ASSUME NEW c \in Callers, StartOperation(c), dbtTarget' # dbtTarget
          PROVE  StartSetCachedTarget(c) \/ StartSetNewTarget(c) \/ StartUnsetTarget(c)
      BY <3>1
         DEF StartOperation, StartSetBlankTarget, StartClearCachedTargets, StartRefresh,
             StartGetLoadedWorkspace, StartSelectRun, StartAcceptPendingRun, sessionVars
    <3>2. ASSUME NEW c \in Callers, Call(c) \/ ContinueOperation(c) PROVE dbtTarget' = dbtTarget
      <4>1. CASE Call(c)
        BY <4>1 DEF Call, CallSerialized, CallRefresh, CallInitialize, CallListRuns, sessionVars
      <4>2. CASE ContinueOperation(c)
        BY <4>2
           DEF ContinueOperation, Resume, ReloadDiscovers, ReloadCommits, SelectRunDiscovers,
               SelectRunCommits, AcceptPendingRunDiscovers, AcceptPendingRunCommits,
               ListRunsDiscovers, ReadManifest, ReadRunResults, OperationFails, ReloadFails,
               SelectRunFails, AcceptPendingRunFails, ListRunsFails, Commit, sessionVars
      <4> QED  BY <3>2, <4>1, <4>2
    <3>3. ContinueInitialize => dbtTarget' = dbtTarget
      BY DEF ContinueInitialize, InitializeDiscovers, InitializeCommits, InitializeFails,
             ReadManifest, ReadRunResults, Commit, sessionVars
    <3>4. Tick \/ Environment => dbtTarget' = dbtTarget
      BY DEF Tick, Environment, sessionVars
    <3> QED  BY <3>1, <3>2, <3>3, <3>4 DEF Next
  <2>2. StartSetCachedTarget(c) /\ call[c].target = t
    BY <2>1 DEF StartSetCachedTarget, StartSetNewTarget, StartUnsetTarget
  <2> QED  BY <2>2 DEF StartSetCachedTarget, Unexpired
<1> QED  BY <1>1, InitTypeInv, NextTypeInv, PTL DEF Spec, NoExpiredHit

-----------------------------------------------------------------------------
(* The runs kept of a root. *)

NoListing == \A c \in Callers : call[c] # None => call[c].op # "listRuns"

EntriesBelong ==
    \A t \in Targets :
        targetCache[t] # None => \A run \in targetCache[t].runs : run.target = t

KeyInv == NoListing /\ RunsBelongToTarget /\ EntriesBelong

-----------------------------------------------------------------------------
(* What steps do to the runs and the entries. *)

LEMMA SyncKeepsEntries ==
    ASSUME SessionTypeOK, EntriesBelong, RunsBelongToTarget, NEW id, NEW snapshot,
           SyncActiveToCache(dbtTarget, id, runs, snapshot)
    PROVE  EntriesBelong'
<1>1. CASE MaxCachedTargets = 0 \/ dbtTarget = None \/ snapshot = None \/ id = None
  BY <1>1 DEF SyncActiveToCache, EntriesBelong, cacheVars
<1>2. CASE ~(MaxCachedTargets = 0 \/ dbtTarget = None \/ snapshot = None \/ id = None)
  BY <1>2
     DEF SyncActiveToCache, PutCacheEntry, EntriesBelong, RunsBelongToTarget, SessionTypeOK
<1> QED  BY <1>1, <1>2

\* Runs found under a binding that is still in force are those of the root bound.
LEMMA DiscoveredBelong ==
    ASSUME TypeInv, JobsBelong, NEW p \in Processes, pc[p] = "discovering",
           BindingStillActive(p)
    PROVE  \A run \in DiscoveredRuns(job[p].target) : run.target = dbtTarget
<1>1. job[p].target \in Targets
  BY DEF TypeInv, ControlInv, Job
<1>2. job[p].target = dbtTarget
  BY DEF JobsBelong, JobBelongs, BindingStillActive, IsSessionBindingCurrent
<1> QED  BY <1>1, <1>2, DiscoveredRunsType DEF TypeInv

LEMMA CommitKeepsEntries ==
    ASSUME TypeInv, KeyInv, NEW p, NEW id, Commit(p, id, runs)
    PROVE  RunsBelongToTarget' /\ EntriesBelong'
<1>1. /\ SyncActiveToCache(dbtTarget, id, runs, SnapshotOf(p))
      /\ UNCHANGED <<dbtTarget, runs>>
  BY DEF Commit, SnapshotOf
<1>2. EntriesBelong'
  BY <1>1, SyncKeepsEntries DEF TypeInv, KeyInv
<1> QED  BY <1>1, <1>2 DEF KeyInv, RunsBelongToTarget

\* A step that leaves the session's root, runs and cache alone.
LEMMA KeepsKeys ==
    ASSUME KeyInv, UNCHANGED <<dbtTarget, runs, targetCache>>
    PROVE  RunsBelongToTarget' /\ EntriesBelong'
BY DEF KeyInv, RunsBelongToTarget, EntriesBelong

\* Only a call puts a request under way.
LEMMA CallsOnlyEnd ==
    ASSUME ControlInv, NoListing, NEW c \in Callers,
           \/ \E result \in Settled : FinishSerialized(c, result) \/ Finish(c, result)
           \/ UNCHANGED call
    PROVE  NoListing'
<1>1. CASE \E result \in Settled : FinishSerialized(c, result) \/ Finish(c, result)
  <2>1. \A x \in Callers : call'[x] = call[x] \/ call'[x] = None
    BY <1>1 DEF FinishSerialized, Finish, ControlInv, ControlTypeOK
  <2> QED  BY <2>1 DEF NoListing
<1>2. CASE UNCHANGED call
  BY <1>2 DEF NoListing
<1> QED  BY <1>1, <1>2

-----------------------------------------------------------------------------
(* The steps. *)

LEMMA CallKeys ==
    ASSUME TypeInv, KeyInv, "listRuns" \notin Operations, NEW c \in Callers, Call(c)
    PROVE  KeyInv'
<1> USE DEF TypeInv
<1>1. UNCHANGED <<dbtTarget, runs, targetCache>>
  BY DEF Call, CallSerialized, CallRefresh, CallInitialize, CallListRuns, sessionVars,
         cacheVars
<1>2. PICK request \in Requests(c) :
         \/ CallSerialized(c, request)
         \/ CallRefresh(c, request)
         \/ CallInitialize(c, request)
         \/ CallListRuns(c, request)
  BY DEF Call
<1>3. request.op # "listRuns"
  BY DEF Requests
<1>4. UNCHANGED call \/ call' = [call EXCEPT ![c] = request]
  BY <1>2 DEF CallSerialized, CallRefresh, CallInitialize, CallListRuns
<1>5. NoListing'
  BY <1>3, <1>4 DEF ControlInv, ControlTypeOK, KeyInv, NoListing
<1> QED  BY <1>1, <1>5, KeepsKeys DEF KeyInv

LEMMA StartKeys ==
    ASSUME TypeInv, KeyInv, NEW c \in Callers, StartOperation(c)
    PROVE  KeyInv'
<1> USE DEF TypeInv
<1>1. NoListing'
  <2>1. \/ \E result \in Settled : FinishSerialized(c, result) \/ Finish(c, result)
        \/ UNCHANGED call
    BY DEF StartOperation, StartSetBlankTarget, StartSetCachedTarget, StartSetNewTarget,
           StartUnsetTarget, StartClearCachedTargets, StartRefresh,
           StartGetLoadedWorkspace, StartSelectRun, StartAcceptPendingRun, Settled
  <2> QED  BY <2>1, CallsOnlyEnd DEF KeyInv
<1>2. RunsBelongToTarget' /\ EntriesBelong'
  <2>a. \A t \in Targets : Unexpired[t] # None => Unexpired[t] = targetCache[t]
    BY DEF Unexpired
  <2>1. CASE StartSetCachedTarget(c)
    <3> DEFINE t == call[c].target
    <3>1. t \in Targets
      BY <2>1, StartsFacts DEF StartSetCachedTarget, Request
    <3>2. Unexpired[t] \in CacheEntry /\ Unexpired[t] = targetCache[t]
      BY <2>1, <2>a, <3>1, UnexpiredType DEF StartSetCachedTarget
    <3>3. \A run \in Unexpired[t].runs : run.target = t
      BY <3>1, <3>2, <2>1 DEF KeyInv, EntriesBelong, StartSetCachedTarget
    <3>4. dbtTarget' = t /\ runs' = Unexpired[t].runs
          /\ targetCache' = [Unexpired EXCEPT ![t].idle = 0]
      BY <2>1 DEF StartSetCachedTarget
    <3>5. Unexpired \in [Targets -> CacheEntry \cup {None}]
      BY UnexpiredType
    <3>6. targetCache'[t].runs = Unexpired[t].runs
      BY <3>1, <3>2, <3>4, <3>5 DEF CacheEntry
    <3>7. \A u \in Targets : u # t => targetCache'[u] = Unexpired[u]
      BY <3>4, <3>5
    <3>8. EntriesBelong'
      BY <2>a, <3>3, <3>6, <3>7 DEF KeyInv, EntriesBelong
    <3> QED  BY <3>3, <3>4, <3>8 DEF RunsBelongToTarget
  <2>2. CASE StartSetNewTarget(c)
    <3>1. EntriesBelong'
      BY <2>2, <2>a DEF StartSetNewTarget, KeyInv, EntriesBelong
    <3> QED  BY <2>2, <3>1 DEF StartSetNewTarget, RunsBelongToTarget
  <2>3. CASE StartUnsetTarget(c)
    BY <2>3 DEF StartUnsetTarget, cacheVars, KeyInv, RunsBelongToTarget, EntriesBelong
  <2>4. CASE StartClearCachedTargets(c)
    BY <2>4 DEF StartClearCachedTargets, RunsBelongToTarget, EntriesBelong
  <2>5. CASE \/ StartSetBlankTarget(c) \/ StartRefresh(c) \/ StartGetLoadedWorkspace(c)
             \/ StartSelectRun(c) \/ StartAcceptPendingRun(c)
    <3>1. UNCHANGED <<dbtTarget, runs, targetCache>>
      BY <2>5 DEF StartSetBlankTarget, StartRefresh, StartGetLoadedWorkspace,
                  StartSelectRun, StartAcceptPendingRun, sessionVars, cacheVars
    <3> QED  BY <3>1, KeepsKeys
  <2> QED  BY <2>1, <2>2, <2>3, <2>4, <2>5 DEF StartOperation
<1> QED  BY <1>1, <1>2 DEF KeyInv

LEMMA ContinueKeys ==
    ASSUME TypeInv, JobsBelong, KeyInv, NEW c \in Callers, ContinueOperation(c)
    PROVE  KeyInv'
<1> USE Disjoint DEF TypeInv
<1>1. NoListing'
  <2>1. \/ \E result \in Settled : FinishSerialized(c, result) \/ Finish(c, result)
        \/ UNCHANGED call
    <3>1. CASE Resume(c)
      BY <3>1 DEF Resume, Settled
    <3>2. CASE ReloadDiscovers(c) \/ SelectRunDiscovers(c) \/ AcceptPendingRunDiscovers(c)
      BY <3>2 DEF ReloadDiscovers, SelectRunDiscovers, AcceptPendingRunDiscovers,
                  StartLoading, Settled
    <3>3. CASE \/ ReloadCommits(c) \/ SelectRunCommits(c) \/ AcceptPendingRunCommits(c)
               \/ ListRunsDiscovers(c)
      BY <3>3 DEF ReloadCommits, SelectRunCommits, AcceptPendingRunCommits,
                  ListRunsDiscovers, Settled
    <3>4. CASE ReadManifest(c) \/ ReadRunResults(c)
      BY <3>4 DEF ReadManifest, ReadRunResults
    <3>5. CASE OperationFails(c)
      BY <3>5 DEF OperationFails, ReloadFails, SelectRunFails, AcceptPendingRunFails,
                  ListRunsFails, Settled
    <3> QED  BY <3>1, <3>2, <3>3, <3>4, <3>5 DEF ContinueOperation
  <2> QED  BY <2>1, CallsOnlyEnd DEF KeyInv
<1>2. RunsBelongToTarget' /\ EntriesBelong'
  <2>1. CASE Resume(c)
    <3>1. UNCHANGED <<dbtTarget, runs>>
      BY <2>1 DEF Resume, sessionVars
    <3>2. CASE UNCHANGED cacheVars
      BY <3>1, <3>2, KeepsKeys DEF cacheVars
    <3>3. CASE SyncActiveToCache(dbtTarget, selectedRunId, runs, loaded)
      BY <3>1, <3>3, SyncKeepsEntries DEF KeyInv, RunsBelongToTarget
    <3> QED  BY <2>1, <3>2, <3>3 DEF Resume
  <2>2. CASE ReloadDiscovers(c) \/ SelectRunDiscovers(c)
    <3>1. /\ pc[c] = "discovering"
          /\ UNCHANGED <<dbtTarget, targetCache>>
          /\ \/ runs' = runs
             \/ BindingStillActive(c) /\ runs' = DiscoveredRuns(job[c].target)
      BY <2>2 DEF ReloadDiscovers, SelectRunDiscovers, sessionVars, cacheVars
    <3>2. RunsBelongToTarget'
      BY <3>1, DiscoveredBelong DEF KeyInv, RunsBelongToTarget
    <3> QED  BY <3>1, <3>2 DEF KeyInv, EntriesBelong
  <2>3. CASE ReloadCommits(c) \/ SelectRunCommits(c) \/ AcceptPendingRunCommits(c)
    <3>1. \/ UNCHANGED <<sessionVars, cacheVars>>
          \/ \E id : Commit(c, id, runs)
      BY <2>3 DEF ReloadCommits, SelectRunCommits, AcceptPendingRunCommits
    <3> QED  BY <3>1, CommitKeepsEntries, KeepsKeys DEF sessionVars, cacheVars
  <2>4. CASE ListRunsDiscovers(c)
    <3>1. call[c] \in Request /\ call[c].op = "listRuns"
      BY <2>4 DEF ListRunsDiscovers, ControlInv, Resting, Settled
    <3>2. call[c] # None
      BY <3>1, NoneIsNoRequest
    <3> QED  BY <3>1, <3>2 DEF KeyInv, NoListing
  <2>5. CASE \/ AcceptPendingRunDiscovers(c) \/ ReadManifest(c) \/ ReadRunResults(c)
             \/ OperationFails(c)
    <3>1. UNCHANGED <<dbtTarget, runs, targetCache>>
      BY <2>5 DEF AcceptPendingRunDiscovers, ReadManifest, ReadRunResults, OperationFails,
                  ReloadFails, SelectRunFails, AcceptPendingRunFails, ListRunsFails,
                  sessionVars, cacheVars
    <3> QED  BY <3>1, KeepsKeys
  <2> QED  BY <2>1, <2>2, <2>3, <2>4, <2>5 DEF ContinueOperation
<1> QED  BY <1>1, <1>2 DEF KeyInv

LEMMA InitializeKeys ==
    ASSUME TypeInv, JobsBelong, KeyInv, ContinueInitialize
    PROVE  KeyInv'
<1> USE Disjoint DEF TypeInv
<1>1. UNCHANGED call
  BY DEF ContinueInitialize, InitializeDiscovers, InitializeCommits, InitializeFails,
         ReadManifest, ReadRunResults, SettleInitialize, StartLoading
<1>2. NoListing'
  BY <1>1 DEF KeyInv, NoListing
<1>3. CASE InitializeDiscovers
  <2>1. /\ pc[InitJob] = "discovering"
        /\ UNCHANGED <<dbtTarget, targetCache>>
        /\ \/ runs' = runs
           \/ BindingStillActive(InitJob) /\ runs' = DiscoveredRuns(job[InitJob].target)
    BY <1>3 DEF InitializeDiscovers, sessionVars, cacheVars
  <2>2. RunsBelongToTarget'
    BY <2>1, DiscoveredBelong DEF KeyInv, RunsBelongToTarget
  <2> QED  BY <1>2, <2>1, <2>2 DEF KeyInv, EntriesBelong
<1>4. CASE InitializeCommits
  <2>1. UNCHANGED <<sessionVars, cacheVars>> \/ Commit(InitJob, selectedRunId, runs)
    BY <1>4 DEF InitializeCommits
  <2> QED  BY <1>2, <2>1, CommitKeepsEntries, KeepsKeys DEF KeyInv, sessionVars, cacheVars
<1>5. CASE ReadManifest(InitJob) \/ ReadRunResults(InitJob) \/ InitializeFails
  <2>1. UNCHANGED <<dbtTarget, runs, targetCache>>
    BY <1>5 DEF ReadManifest, ReadRunResults, InitializeFails, sessionVars, cacheVars
  <2> QED  BY <1>2, <2>1, KeepsKeys DEF KeyInv
<1> QED  BY <1>3, <1>4, <1>5 DEF ContinueInitialize

LEMMA NextKeys ==
    ASSUME "listRuns" \notin Operations
    PROVE  TypeInv /\ JobsBelong /\ KeyInv /\ [Next]_vars => KeyInv'
<1> SUFFICES ASSUME TypeInv, JobsBelong, KeyInv, [Next]_vars PROVE KeyInv'
  OBVIOUS
<1>1. CASE Tick
  <2>1. \A t \in Targets : targetCache[t] # None => targetCache[t] \in CacheEntry
    BY DEF TypeInv, SessionTypeOK
  <2>2. EntriesBelong'
    BY <1>1, <2>1 DEF Tick, KeyInv, EntriesBelong, CacheEntry
  <2> QED
    BY <1>1, <2>2
       DEF Tick, KeyInv, NoListing, RunsBelongToTarget, sessionVars, controlVars
<1>2. CASE Environment \/ UNCHANGED vars
  <2>1. UNCHANGED <<dbtTarget, runs, targetCache, call>>
    BY <1>2 DEF Environment, vars, sessionVars, cacheVars, controlVars
  <2> QED  BY <2>1, KeepsKeys DEF KeyInv, NoListing
<1> QED
  BY <1>1, <1>2, CallKeys, StartKeys, ContinueKeys, InitializeKeys DEF Next

LEMMA InitKeys == Init => BelongInv /\ KeyInv
BY Disjoint
   DEF Init, BelongInv, JobsBelong, JobBelongs, Accepting, LoadedBelongsToTarget,
       CacheBelongs, KeyInv, NoListing, RunsBelongToTarget, EntriesBelong

\* The runs that the status reports are those of the bound root, for any number
\* of callers, roots, invocations and faults: every discovery that is committed
\* was made under the binding in force (listRuns, which nothing in the
\* repository calls, commits without looking).
THEOREM RunsBelong ==
    ASSUME AutoReloadOnPoll, "listRuns" \notin Operations
    PROVE  Spec => []RunsBelongToTarget
<1>1. KeyInv => RunsBelongToTarget
  BY DEF KeyInv
<1>2. BelongInv => JobsBelong
  BY DEF BelongInv
<1> QED
  BY <1>1, <1>2, InitKeys, NextKeys, NextBelongs, InitTypeInv, NextTypeInv, PTL DEF Spec

\* A cached entry is restored under the key it was loaded and discovered for:
\* whatever is bound, evicted or expired in between, applyCachedTarget cannot
\* serve one root's snapshot or runs as another's.
THEOREM CacheBelongsTheorem ==
    ASSUME AutoReloadOnPoll, "listRuns" \notin Operations
    PROVE  Spec => []CacheBelongsToKey
<1>1. KeyInv /\ BelongInv => CacheBelongsToKey
  BY DEF KeyInv, BelongInv, EntriesBelong, CacheBelongs, CacheBelongsToKey
<1>2. BelongInv => JobsBelong
  BY DEF BelongInv
<1> QED
  BY <1>1, <1>2, InitKeys, NextKeys, NextBelongs, InitTypeInv, NextTypeInv, PTL DEF Spec

-----------------------------------------------------------------------------
(* What the snapshots hold. *)

\* A snapshot: its token was listed, and its bytes are those of the token or of
\* later invocations, which have been in the root.
SnapshotSeen(s) ==
    /\ Listed(s.run)
    /\ NotNewer(s.run.target, s.manifest, s.runResults)
    /\ NotOlder(s.manifest, s.runResults, s.run)

JobSeen(p) ==
    /\ pc[p] = "discovering" =>
          /\ job[p].manifest = 0 /\ job[p].runResults = 0
          /\ job[p].run # None => Listed(job[p].run)
    /\ pc[p] = "loading" =>
          /\ Listed(job[p].run)
          /\ NotNewer(job[p].run.target, job[p].manifest, job[p].runResults)
          /\ ReadFor(job[p].manifest, job[p].run.token.manifest)
          /\ ReadFor(job[p].runResults, job[p].run.token.runResults)

JobsSeen == \A p \in Processes : JobSeen(p)

CacheSeen == \A t \in Targets : targetCache[t] # None => SnapshotSeen(targetCache[t].loaded)
PendingSeen == pendingRun # None => Listed(pendingRun)
LoadedSeen == loaded # None => SnapshotSeen(loaded)

ExactInv == StoreInv /\ JobsSeen /\ CacheSeen /\ PendingSeen /\ LoadedSeen

-----------------------------------------------------------------------------
(* Steps that leave the store alone. *)

LEMMA SameStore ==
    ASSUME store' = store
    PROVE  /\ StoreInv => StoreInv'
           /\ \A run : Listed(run) => Listed(run)'
           /\ \A s : SnapshotSeen(s) => SnapshotSeen(s)'
           /\ \A t, m, r : NotNewer(t, m, r) => NotNewer(t, m, r)'
BY DEF StoreInv, Listed, SnapshotSeen, NotNewer

\* Who starts nothing keeps its job.
LEMMA KeptJobs ==
    ASSUME JobsSeen, store' = store,
           \A q \in Processes : pc'[q] \in {"discovering", "loading"} =>
                                    pc'[q] = pc[q] /\ job'[q] = job[q]
    PROVE  JobsSeen'
<1> SUFFICES ASSUME NEW q \in Processes, pc'[q] \in {"discovering", "loading"}
             PROVE  JobSeen(q)'
  BY DEF JobsSeen, JobSeen
<1>1. pc'[q] = pc[q] /\ job'[q] = job[q] /\ JobSeen(q)
  BY DEF JobsSeen
<1> QED  BY <1>1, SameStore DEF JobSeen

LEMMA FinishSeen ==
    ASSUME ControlTypeOK, JobsSeen, store' = store, NEW c \in Callers, NEW result \in Settled,
           FinishSerialized(c, result) \/ Finish(c, result)
    PROVE  JobsSeen'
<1>1. \A q \in Processes : pc'[q] \in {"discovering", "loading"} =>
                               pc'[q] = pc[q] /\ job'[q] = job[q]
  BY Disjoint DEF ControlTypeOK, FinishSerialized, Finish, Settled
<1> QED  BY <1>1, KeptJobs

LEMMA SettleInitializeSeen ==
    ASSUME ControlTypeOK, JobsSeen, store' = store,
           NEW resumed \in {"initialized", "initFailed"}, SettleInitialize(resumed)
    PROVE  JobsSeen'
<1>1. \A q \in Processes : pc'[q] \in {"discovering", "loading"} =>
                               pc'[q] = pc[q] /\ job'[q] = job[q]
  BY DEF ControlTypeOK, SettleInitialize
<1> QED  BY <1>1, KeptJobs

\* p starts to list a root, the others keep their jobs.
LEMMA NewJobSeen ==
    ASSUME JobsSeen, store' = store, NEW p \in Processes, NEW t, NEW epoch, NEW run,
           run # None => Listed(run),
           pc'[p] = "discovering", job'[p] = NewJob(t, epoch, run),
           \A q \in Processes \ {p} : pc'[q] \in {"discovering", "loading"} =>
                                          pc'[q] = pc[q] /\ job'[q] = job[q]
    PROVE  JobsSeen'
<1> SUFFICES ASSUME NEW q \in Processes, pc'[q] \in {"discovering", "loading"}
             PROVE  JobSeen(q)'
  BY DEF JobsSeen, JobSeen
<1>1. CASE q = p
  <2>1. job'[q].manifest = 0 /\ job'[q].runResults = 0 /\ job'[q].run = run
    BY <1>1 DEF NewJob
  <2> QED  BY <1>1, <2>1, SameStore DEF JobSeen
<1>2. CASE q # p
  <2>1. pc'[q] = pc[q] /\ job'[q] = job[q] /\ JobSeen(q)
    BY <1>2 DEF JobsSeen
  <2> QED  BY <2>1, SameStore DEF JobSeen
<1> QED  BY <1>1, <1>2

LEMMA DiscoverSeen ==
    ASSUME ControlTypeOK, JobsSeen, store' = store, NEW c \in Callers, NEW t, NEW run,
           run # None => Listed(run), Discover(c, t, run)
    PROVE  JobsSeen'
<1> DEFINE new == NewJob(t, loadGeneration, run)
<1>1. pc' = [pc EXCEPT ![c] = "discovering"] /\ job' = [job EXCEPT ![c] = new]
  BY DEF Discover
<1> HIDE DEF new
<1>2. /\ pc'[c] = "discovering" /\ job'[c] = new
      /\ \A q \in Processes \ {c} : pc'[q] = pc[q] /\ job'[q] = job[q]
  BY <1>1, Disjoint DEF ControlTypeOK
<1> QED  BY <1>2, NewJobSeen, Disjoint DEF new

LEMMA EnsureInitializedSeen ==
    ASSUME ControlTypeOK, JobsSeen, store' = store, NEW c \in Callers, NEW t, NEW epoch,
           EnsureInitialized(c, t, epoch)
    PROVE  JobsSeen'
<1> DEFINE new == NewJob(t, epoch, None)
<1>1. CASE pc[InitJob] = "idle"
  <2>1. /\ pc' = [pc EXCEPT ![c] = "initializing", ![InitJob] = "discovering"]
        /\ job' = [job EXCEPT ![InitJob] = new]
    BY <1>1 DEF EnsureInitialized
  <2> HIDE DEF new
  <2>2. /\ pc'[InitJob] = "discovering" /\ job'[InitJob] = new
        /\ \A q \in Processes \ {InitJob} : pc'[q] \in {"discovering", "loading"} =>
                                                pc'[q] = pc[q] /\ job'[q] = job[q]
    BY <2>1, Disjoint DEF ControlTypeOK
  <2> QED  BY <2>2, NewJobSeen, Disjoint DEF new
<1>2. CASE pc[InitJob] # "idle"
  <2>1. pc' = [pc EXCEPT ![c] = "initializing"] /\ job' = job
    BY <1>2 DEF EnsureInitialized
  <2>2. \A q \in Processes : pc'[q] \in {"discovering", "loading"} =>
                                 pc'[q] = pc[q] /\ job'[q] = job[q]
    BY <2>1 DEF ControlTypeOK
  <2> QED  BY <2>2, KeptJobs
<1> QED  BY <1>1, <1>2

\* p starts to read a run that was listed.
LEMMA StartLoadingSeen ==
    ASSUME TypeInv, JobsSeen, store' = store, NEW p \in Processes, pc[p] = "discovering",
           NEW run, Listed(run), StartLoading(p, run)
    PROVE  JobsSeen'
<1>1. JobSeen(p) /\ job[p] \in Job /\ run.target \in Targets
  BY DEF JobsSeen, TypeInv, ControlInv, Listed, Run
<1>2. /\ \A q \in Processes \ {p} : pc'[q] = pc[q] /\ job'[q] = job[q]
      /\ pc'[p] = "loading" /\ job'[p] = [job[p] EXCEPT !.run = run]
  BY DEF StartLoading, TypeInv, ControlInv, ControlTypeOK
<1>3. job'[p].run = run /\ job'[p].manifest = 0 /\ job'[p].runResults = 0
  BY <1>1, <1>2 DEF JobSeen, Job
<1>4. NotNewer(run.target, 0, 0)
  <2>1. /\ store[run.target].manifest \in Nat /\ store[run.target].runResults \in Nat
        /\ store[run.target].lastRun \in Nat
    BY <1>1, StoreAssumption DEF TypeInv, StoreTypeOK, Contents, Version
  <2> QED  BY <2>1 DEF NotNewer, Seen
<1>5. JobSeen(p)'
  BY <1>2, <1>3, <1>4, SameStore DEF JobSeen, ReadFor
<1>6. \A q \in Processes \ {p} : JobSeen(q)'
  BY <1>2, SameStore DEF JobsSeen, JobSeen
<1> QED  BY <1>5, <1>6 DEF JobsSeen

\* The cache takes over what is in use.
LEMMA SyncSeen ==
    ASSUME CacheSeen, store' = store, NEW t, NEW id, NEW found, NEW s,
           s # None => SnapshotSeen(s), SyncActiveToCache(t, id, found, s)
    PROVE  CacheSeen'
<1>1. CASE MaxCachedTargets = 0 \/ t = None \/ s = None \/ id = None
  BY <1>1, SameStore DEF SyncActiveToCache, CacheSeen, cacheVars
<1>2. CASE ~(MaxCachedTargets = 0 \/ t = None \/ s = None \/ id = None)
  <2> DEFINE entry == [runs |-> found, selectedRunId |-> id, loaded |-> s, idle |-> 0]
  <2>1. PutCacheEntry(t, entry) /\ entry.loaded = s
    BY <1>2 DEF SyncActiveToCache
  <2> HIDE DEF entry
  <2>2. \A u \in Targets : \/ targetCache'[u] = None
                           \/ targetCache'[u] = entry
                           \/ targetCache'[u] = targetCache[u]
    BY <2>1 DEF PutCacheEntry
  <2>3. \A u \in Targets : targetCache'[u] # None => SnapshotSeen(targetCache'[u].loaded)
    BY <1>2, <2>1, <2>2 DEF CacheSeen
  <2> QED  BY <2>3, SameStore DEF CacheSeen, SnapshotSeen, Listed, NotNewer
<1> QED  BY <1>1, <1>2

LEMMA CommitSeen ==
    ASSUME TypeInv, ExactInv, store' = store, NEW p \in Processes, IsRead(p), NEW id,
           Commit(p, id, runs)
    PROVE  LoadedSeen' /\ CacheSeen'
<1>1. /\ loaded' = SnapshotOf(p)
      /\ SyncActiveToCache(dbtTarget, id, runs, SnapshotOf(p))
  BY DEF Commit, SnapshotOf
<1>2. JobSeen(p) /\ job[p] \in Job
  BY DEF ExactInv, JobsSeen, IsRead, TypeInv, ControlInv
<1>3. SnapshotSeen(SnapshotOf(p))
  BY <1>2 DEF SnapshotOf, SnapshotSeen, JobSeen, IsRead, ReadFor, NotOlder
<1>4. CacheSeen'
  BY <1>1, <1>3, SyncSeen DEF ExactInv
<1>5. SnapshotSeen(loaded')
  BY <1>1, <1>3
<1> QED  BY <1>4, <1>5 DEF LoadedSeen, SnapshotSeen, Listed, NotNewer

\* A step that changes nothing that is kept of a root.
LEMMA KeepsSeen ==
    ASSUME ExactInv, store' = store, JobsSeen', UNCHANGED <<loaded, pendingRun, targetCache>>
    PROVE  ExactInv'
BY SameStore DEF ExactInv, CacheSeen, PendingSeen, LoadedSeen, SnapshotSeen, Listed, NotNewer

-----------------------------------------------------------------------------
(* The steps of the session. *)

LEMMA CallSeen ==
    ASSUME TypeInv, ExactInv, NEW c \in Callers, Call(c)
    PROVE  ExactInv'
<1> USE Disjoint DEF TypeInv, ControlInv
<1>1. store' = store /\ UNCHANGED <<loaded, pendingRun, targetCache>>
  BY DEF Call, CallSerialized, CallRefresh, CallInitialize, CallListRuns, storeVars,
         sessionVars, cacheVars
<1>2. PICK request \in Requests(c) :
         \/ CallSerialized(c, request)
         \/ CallRefresh(c, request)
         \/ CallInitialize(c, request)
         \/ CallListRuns(c, request)
  BY DEF Call
<1>3. CASE UNCHANGED job /\ \E stage \in ProgramCounter \ {"discovering", "loading"} :
                               pc' = [pc EXCEPT ![c] = stage]
  <2>1. \A q \in Processes : pc'[q] \in {"discovering", "loading"} =>
                                 pc'[q] = pc[q] /\ job'[q] = job[q]
    BY <1>3 DEF ControlTypeOK
  <2> QED  BY <1>1, <2>1, KeptJobs, KeepsSeen DEF ExactInv
<1>4. CASE \E t, epoch : EnsureInitialized(c, t, epoch)
  BY <1>1, <1>4, EnsureInitializedSeen, KeepsSeen DEF ExactInv
<1>5. CASE \E t : Discover(c, t, None)
  BY <1>1, <1>5, DiscoverSeen, KeepsSeen DEF ExactInv
<1>6. CASE CallSerialized(c, request)
  BY <1>3, <1>6 DEF CallSerialized, ProgramCounter
<1>7. CASE CallRefresh(c, request)
  BY <1>3, <1>7 DEF CallRefresh, ProgramCounter, Resting, Settled
<1>8. CASE CallInitialize(c, request)
  BY <1>3, <1>4, <1>8 DEF CallInitialize, ProgramCounter, Resting, Settled
<1>9. CASE CallListRuns(c, request)
  <2>1. CASE runs # {} \/ dbtTarget = None
    BY <1>3, <1>9, <2>1 DEF CallListRuns, ProgramCounter, Resting, Settled
  <2>2. CASE ~(runs # {} \/ dbtTarget = None)
    BY <1>5, <1>9, <2>2 DEF CallListRuns
  <2> QED  BY <2>1, <2>2
<1> QED  BY <1>2, <1>6, <1>7, <1>8, <1>9

LEMMA StartSeen ==
    ASSUME TypeInv, ExactInv, NEW c \in Callers, StartOperation(c)
    PROVE  ExactInv'
<1> USE Disjoint DEF TypeInv, ControlInv
<1>1. store' = store /\ pendingRun' = pendingRun
  BY DEF StartOperation, StartSetBlankTarget, StartSetCachedTarget, StartSetNewTarget,
         StartUnsetTarget, StartClearCachedTargets, StartRefresh, StartGetLoadedWorkspace,
         StartSelectRun, StartAcceptPendingRun, storeVars, sessionVars
<1>2. JobsSeen'
  <2>1. CASE \E result \in Settled : FinishSerialized(c, result)
    BY <1>1, <2>1, FinishSeen DEF ExactInv
  <2>2. CASE \E t, epoch : EnsureInitialized(c, t, epoch)
    BY <1>1, <2>2, EnsureInitializedSeen DEF ExactInv
  <2>3. CASE \E t, run : Discover(c, t, run) /\ (run # None => Listed(run))
    BY <1>1, <2>3, DiscoverSeen DEF ExactInv
  <2>4. CASE StartSetCachedTarget(c)
    <3> DEFINE t == call[c].target
    <3>1. t \in Targets /\ Unexpired[t] # None
      BY <2>4, StartsFacts DEF StartSetCachedTarget, Request
    <3>2. targetCache[t] # None /\ Unexpired[t] = targetCache[t]
      BY <3>1 DEF Unexpired
    <3>3. Listed(Unexpired[t].loaded.run)
      BY <3>1, <3>2 DEF ExactInv, CacheSeen, SnapshotSeen
    <3> QED  BY <2>3, <2>4, <3>3 DEF StartSetCachedTarget
  <2>5. CASE StartSetNewTarget(c)
    BY <2>2, <2>5 DEF StartSetNewTarget
  <2>6. CASE StartSetBlankTarget(c) \/ StartUnsetTarget(c) \/ StartClearCachedTargets(c)
    BY <2>1, <2>6 DEF StartSetBlankTarget, StartUnsetTarget, StartClearCachedTargets, Settled
  <2>7. CASE StartRefresh(c)
    <3>1. loaded # None => Listed(loaded.run)
      BY DEF ExactInv, LoadedSeen, SnapshotSeen
    <3> QED  BY <2>1, <2>2, <2>3, <2>7, <3>1 DEF StartRefresh, Settled
  <2>8. CASE StartGetLoadedWorkspace(c)
    BY <2>1, <2>2, <2>8 DEF StartGetLoadedWorkspace, Settled
  <2>9. CASE StartSelectRun(c)
    BY <2>1, <2>3, <2>9 DEF StartSelectRun, Settled
  <2>10. CASE StartAcceptPendingRun(c)
    <3>1. pendingRun # None => Listed(pendingRun)
      BY DEF ExactInv, PendingSeen
    <3> QED  BY <2>1, <2>3, <2>10, <3>1 DEF StartAcceptPendingRun, Settled
  <2> QED
    BY <2>4, <2>5, <2>6, <2>7, <2>8, <2>9, <2>10 DEF StartOperation
<1>3. \A t \in Targets : targetCache'[t] # None =>
         targetCache[t] # None /\ targetCache'[t].loaded = targetCache[t].loaded
  <2>1. \A t \in Targets : Unexpired[t] # None =>
           targetCache[t] # None /\ Unexpired[t] = targetCache[t]
    BY DEF Unexpired
  <2>2. CASE StartSetCachedTarget(c)
    <3> DEFINE t == call[c].target
    <3>1. t \in Targets /\ Unexpired[t] # None
      BY <2>2, StartsFacts DEF StartSetCachedTarget, Request
    <3>2. Unexpired \in [Targets -> CacheEntry \cup {None}]
      BY UnexpiredType
    <3>3. targetCache' = [Unexpired EXCEPT ![t] = [Unexpired[t] EXCEPT !.idle = 0]]
      BY <2>2 DEF StartSetCachedTarget
    <3>4. [Unexpired[t] EXCEPT !.idle = 0].loaded = Unexpired[t].loaded
      BY <3>1, <3>2 DEF CacheEntry
    <3>5. targetCache'[t].loaded = Unexpired[t].loaded
      BY <3>1, <3>2, <3>3, <3>4
    <3>6. \A u \in Targets : u # t => targetCache'[u] = Unexpired[u]
      BY <3>2, <3>3
    <3> QED  BY <2>1, <3>1, <3>5, <3>6
  <2>3. CASE StartSetNewTarget(c)
    BY <2>1, <2>3 DEF StartSetNewTarget
  <2>4. CASE StartClearCachedTargets(c)
    BY <2>4 DEF StartClearCachedTargets
  <2>5. CASE UNCHANGED targetCache
    BY <2>5
  <2> QED
    BY <2>2, <2>3, <2>4, <2>5
       DEF StartOperation, StartSetBlankTarget, StartUnsetTarget, StartRefresh,
           StartGetLoadedWorkspace, StartSelectRun, StartAcceptPendingRun, cacheVars
<1>4. CacheSeen'
  <2>1. \A t \in Targets : targetCache'[t] # None => SnapshotSeen(targetCache'[t].loaded)
    BY <1>3 DEF ExactInv, CacheSeen
  <2> QED  BY <1>1, <2>1 DEF CacheSeen, SnapshotSeen, Listed, NotNewer
<1>5. LoadedSeen'
  <2>1. loaded' # None => SnapshotSeen(loaded')
    <3>1. CASE StartSetCachedTarget(c)
      <4> DEFINE t == call[c].target
      <4>1. t \in Targets /\ Unexpired[t] # None
        BY <3>1, StartsFacts DEF StartSetCachedTarget, Request
      <4>2. targetCache[t] # None /\ Unexpired[t] = targetCache[t]
        BY <4>1 DEF Unexpired
      <4>3. loaded' = Unexpired[t].loaded
        BY <3>1 DEF StartSetCachedTarget
      <4> QED  BY <4>1, <4>2, <4>3 DEF ExactInv, CacheSeen
    <3>2. CASE loaded' \in {loaded, None}
      BY <3>2 DEF ExactInv, LoadedSeen
    <3> QED
      BY <3>1, <3>2
         DEF StartOperation, StartSetBlankTarget, StartSetNewTarget, StartUnsetTarget,
             StartClearCachedTargets, StartRefresh, StartGetLoadedWorkspace,
             StartSelectRun, StartAcceptPendingRun, sessionVars
  <2> QED  BY <1>1, <2>1 DEF LoadedSeen, SnapshotSeen, Listed, NotNewer
<1>6. StoreInv' /\ PendingSeen'
  BY <1>1, SameStore DEF ExactInv, PendingSeen
<1> QED  BY <1>2, <1>4, <1>5, <1>6 DEF ExactInv

\* A process that discovers lists runs of its root.
LEMMA FoundListed ==
    ASSUME TypeInv, ExactInv, NEW p \in Processes, pc[p] = "discovering"
    PROVE  \A run \in DiscoveredRuns(job[p].target) : Listed(run)
<1>1. job[p].target \in Targets
  BY DEF TypeInv, ControlInv, Job
<1> QED  BY <1>1, DiscoveredAreListed DEF TypeInv, ExactInv

LEMMA ReadSeen ==
    ASSUME TypeInv, ExactInv, NEW p \in Processes, ReadManifest(p) \/ ReadRunResults(p)
    PROVE  ExactInv'
<1>1. /\ pc[p] = "loading" /\ store' = store /\ pc' = pc
      /\ UNCHANGED <<loaded, pendingRun, targetCache>>
  BY DEF ReadManifest, ReadRunResults, storeVars, sessionVars, cacheVars
<1>2. /\ JobSeen(p) /\ job[p] \in Job /\ job[p].run \in Run /\ Listed(job[p].run)
      /\ job[p].run.target \in Targets
  BY <1>1 DEF ExactInv, JobsSeen, JobSeen, TypeInv, ControlInv, Run
<1> DEFINE t == job[p].run.target
<1>3. /\ Seen(store[t].manifest, store[t].manifest, store[t].lastRun)
      /\ Seen(store[t].runResults, store[t].runResults, store[t].lastRun)
  BY <1>2, ReadIsSeen DEF TypeInv, ExactInv
<1>4. /\ ReadFor(store[t].manifest, job[p].run.token.manifest)
      /\ ReadFor(store[t].runResults, job[p].run.token.runResults)
  BY <1>2, ReadIsNotOlder DEF ReadFor, TypeInv, ExactInv
<1>5. /\ \A q \in Processes \ {p} : job'[q] = job[q]
      /\ job'[p].run = job[p].run
      /\ \/ job'[p].manifest = store[t].manifest /\ job'[p].runResults = job[p].runResults
         \/ job'[p].runResults = store[t].runResults /\ job'[p].manifest = job[p].manifest
  BY <1>2 DEF ReadManifest, ReadRunResults, TypeInv, ControlInv, ControlTypeOK, Job
<1>6. /\ NotNewer(t, job'[p].manifest, job'[p].runResults)
      /\ ReadFor(job'[p].manifest, job[p].run.token.manifest)
      /\ ReadFor(job'[p].runResults, job[p].run.token.runResults)
  BY <1>1, <1>2, <1>3, <1>4, <1>5 DEF JobSeen, NotNewer
<1>7. JobSeen(p)'
  BY <1>1, <1>2, <1>5, <1>6 DEF JobSeen, Listed, NotNewer
<1>8. \A q \in Processes \ {p} : JobSeen(q)'
  BY <1>1, <1>5, SameStore DEF ExactInv, JobsSeen, JobSeen
<1> QED  BY <1>1, <1>7, <1>8, KeepsSeen DEF JobsSeen

LEMMA ContinueSeen ==
    ASSUME TypeInv, ExactInv, NEW c \in Callers, ContinueOperation(c)
    PROVE  ExactInv'
<1> USE Disjoint DEF TypeInv, ControlInv
<1>1. CASE Resume(c)
  <2>1. store' = store /\ UNCHANGED <<loaded, pendingRun>>
    BY <1>1 DEF Resume, storeVars, sessionVars
  <2>2. \E result \in Settled : FinishSerialized(c, result) \/ Finish(c, result)
    BY <1>1 DEF Resume, Settled
  <2>3. JobsSeen'
    BY <2>1, <2>2, FinishSeen DEF ExactInv
  <2>4. CASE UNCHANGED cacheVars
    BY <2>1, <2>3, <2>4, KeepsSeen DEF cacheVars
  <2>5. CASE SyncActiveToCache(dbtTarget, selectedRunId, runs, loaded)
    <3>1. CacheSeen'
      BY <2>1, <2>5, SyncSeen DEF ExactInv, LoadedSeen
    <3> QED
      BY <2>1, <2>3, <3>1, SameStore DEF ExactInv, PendingSeen, LoadedSeen
  <2> QED  BY <1>1, <2>4, <2>5 DEF Resume
<1>2. CASE ReloadDiscovers(c) \/ SelectRunDiscovers(c) \/ AcceptPendingRunDiscovers(c)
  <2>1. /\ pc[c] = "discovering" /\ store' = store /\ UNCHANGED <<loaded, targetCache>>
        /\ \/ pendingRun' \in {pendingRun, None}
           \/ pendingRun' \in DiscoveredRuns(job[c].target)
    BY <1>2 DEF ReloadDiscovers, SelectRunDiscovers, AcceptPendingRunDiscovers, storeVars,
                sessionVars, cacheVars
  <2>2. \/ \E result \in Settled : FinishSerialized(c, result)
        \/ \E run \in DiscoveredRuns(job[c].target) : StartLoading(c, run)
        \/ Accepting(c) /\ StartLoading(c, job[c].run)
    BY <1>2
       DEF ReloadDiscovers, SelectRunDiscovers, AcceptPendingRunDiscovers, Settled, Accepting
  <2>3. \A run \in DiscoveredRuns(job[c].target) : Listed(run)
    BY <2>1, FoundListed
  <2>4. Accepting(c) => Listed(job[c].run)
    <3>1. Accepting(c) => job[c].run # None
      BY NoneIsNoRun
    <3> QED  BY <2>1, <3>1 DEF ExactInv, JobsSeen, JobSeen
  <2>5. JobsSeen'
    BY <2>1, <2>2, <2>3, <2>4, FinishSeen, StartLoadingSeen DEF ExactInv
  <2>6. PendingSeen'
    BY <2>1, <2>3, SameStore DEF ExactInv, PendingSeen
  <2> QED  BY <2>1, <2>5, <2>6, SameStore DEF ExactInv, CacheSeen, LoadedSeen
<1>3. CASE ReloadCommits(c) \/ SelectRunCommits(c) \/ AcceptPendingRunCommits(c)
  <2>1. /\ store' = store /\ IsRead(c) /\ pendingRun' \in {pendingRun, None}
        /\ \E result \in Settled : FinishSerialized(c, result)
        /\ UNCHANGED <<sessionVars, cacheVars>> \/ \E id : Commit(c, id, runs)
    BY <1>3 DEF ReloadCommits, SelectRunCommits, AcceptPendingRunCommits, storeVars,
                sessionVars, Settled
  <2>2. JobsSeen'
    BY <2>1, FinishSeen DEF ExactInv
  <2>3. PendingSeen'
    BY <2>1, SameStore DEF ExactInv, PendingSeen
  <2>4. CASE UNCHANGED <<sessionVars, cacheVars>>
    BY <2>1, <2>2, <2>4, KeepsSeen DEF sessionVars, cacheVars
  <2>5. CASE \E id : Commit(c, id, runs)
    BY <2>1, <2>2, <2>3, <2>5, CommitSeen, SameStore DEF ExactInv
  <2> QED  BY <2>1, <2>4, <2>5
<1>4. CASE ListRunsDiscovers(c)
  <2>1. /\ store' = store /\ Finish(c, "returned") /\ UNCHANGED <<loaded, pendingRun>>
        /\ \E found : SyncActiveToCache(dbtTarget, selectedRunId, found, loaded)
    BY <1>4 DEF ListRunsDiscovers, storeVars
  <2>2. JobsSeen'
    BY <2>1, FinishSeen DEF ExactInv, Settled
  <2>3. CacheSeen'
    BY <2>1, SyncSeen DEF ExactInv, LoadedSeen
  <2> QED  BY <2>1, <2>2, <2>3, SameStore DEF ExactInv, PendingSeen, LoadedSeen
<1>5. CASE ReadManifest(c) \/ ReadRunResults(c)
  BY <1>5, ReadSeen
<1>6. CASE RequestFails(c) /\ OperationFails(c)
  <2>1. store' = store /\ UNCHANGED <<loaded, pendingRun, targetCache>>
    BY <1>6 DEF RequestFails, RequestFault, storeVars, OperationFails, ReloadFails,
                SelectRunFails, AcceptPendingRunFails, ListRunsFails, sessionVars, cacheVars
  <2>2. \E result \in Settled : FinishSerialized(c, result) \/ Finish(c, result)
    BY <1>6 DEF OperationFails, ReloadFails, SelectRunFails, AcceptPendingRunFails,
                ListRunsFails, Settled
  <2> QED  BY <2>1, <2>2, FinishSeen, KeepsSeen DEF ExactInv
<1> QED  BY <1>1, <1>2, <1>3, <1>4, <1>5, <1>6 DEF ContinueOperation

LEMMA InitializeSeen ==
    ASSUME TypeInv, ExactInv, ContinueInitialize
    PROVE  ExactInv'
<1> USE Disjoint DEF TypeInv, ControlInv
<1>1. CASE InitializeDiscovers
  <2>1. /\ pc[InitJob] = "discovering" /\ store' = store
        /\ UNCHANGED <<loaded, pendingRun, targetCache>>
        /\ \/ \E resumed \in {"initialized", "initFailed"} : SettleInitialize(resumed)
           \/ \E run \in DiscoveredRuns(job[InitJob].target) : StartLoading(InitJob, run)
    BY <1>1 DEF InitializeDiscovers, storeVars, sessionVars, cacheVars
  <2>2. JobsSeen'
    BY <2>1, FoundListed, SettleInitializeSeen, StartLoadingSeen DEF ExactInv
  <2> QED  BY <2>1, <2>2, KeepsSeen
<1>2. CASE InitializeCommits
  <2>1. /\ store' = store /\ IsRead(InitJob) /\ pendingRun' = pendingRun
        /\ SettleInitialize("initialized")
        /\ UNCHANGED <<sessionVars, cacheVars>> \/ Commit(InitJob, selectedRunId, runs)
    BY <1>2 DEF InitializeCommits, storeVars, sessionVars
  <2>2. JobsSeen'
    BY <2>1, SettleInitializeSeen DEF ExactInv
  <2>3. CASE UNCHANGED <<sessionVars, cacheVars>>
    BY <2>1, <2>2, <2>3, KeepsSeen DEF sessionVars, cacheVars
  <2>4. CASE Commit(InitJob, selectedRunId, runs)
    BY <2>1, <2>2, <2>4, CommitSeen, SameStore DEF ExactInv, PendingSeen
  <2> QED  BY <2>1, <2>3, <2>4
<1>3. CASE ReadManifest(InitJob) \/ ReadRunResults(InitJob)
  BY <1>3, ReadSeen
<1>4. CASE RequestFails(InitJob) /\ InitializeFails
  <2>1. store' = store /\ UNCHANGED <<loaded, pendingRun, targetCache>>
    BY <1>4 DEF RequestFails, RequestFault, storeVars, InitializeFails, sessionVars, cacheVars
  <2>2. SettleInitialize("initFailed")
    BY <1>4 DEF InitializeFails
  <2> QED  BY <2>1, <2>2, SettleInitializeSeen, KeepsSeen DEF ExactInv
<1> QED  BY <1>1, <1>2, <1>3, <1>4 DEF ContinueInitialize

\* The store changes under what is kept: what was seen stays seen.
LEMMA EnvironmentSeen ==
    ASSUME TypeInv, ExactInv, Environment
    PROVE  ExactInv'
<1> USE DEF TypeInv, ControlInv
<1>1. /\ StoreTypeOK /\ StoreInv /\ StoreKept
      /\ UNCHANGED <<loaded, pendingRun, targetCache, pc, job>>
  BY DEF ExactInv, Environment, StoreKept, sessionVars, cacheVars, controlVars
<1>2. \A run : Listed(run) => Listed(run)'
  BY <1>1, ListedStays
<1>3. \A u \in Targets, m \in Version, r \in Version :
         NotNewer(u, m, r) => /\ Seen(m, store'[u].manifest, store'[u].lastRun)
                              /\ Seen(r, store'[u].runResults, store'[u].lastRun)
  BY <1>1, SeenStays DEF NotNewer
<1>4. \A s \in Loaded : SnapshotSeen(s) => SnapshotSeen(s)'
  <2> SUFFICES ASSUME NEW s \in Loaded, SnapshotSeen(s) PROVE SnapshotSeen(s)'
    OBVIOUS
  <2>1. s.run.target \in Targets /\ s.manifest \in Version /\ s.runResults \in Version
    BY DEF Loaded, Run
  <2> QED  BY <1>2, <1>3, <2>1 DEF SnapshotSeen, NotNewer
<1>5. CacheSeen'
  <2> SUFFICES ASSUME NEW t \in Targets, targetCache[t] # None
               PROVE  SnapshotSeen(targetCache[t].loaded)'
    BY <1>1 DEF CacheSeen
  <2>1. targetCache[t].loaded \in Loaded /\ SnapshotSeen(targetCache[t].loaded)
    BY DEF SessionTypeOK, CacheEntry, ExactInv, CacheSeen
  <2> DEFINE s == targetCache[t].loaded
  <2>2. s \in Loaded /\ SnapshotSeen(s)
    BY <2>1
  <2>3. Listed(s.run)' /\ NotNewer(s.run.target, s.manifest, s.runResults)'
        /\ NotOlder(s.manifest, s.runResults, s.run)
    <3>1. s.run.target \in Targets /\ s.manifest \in Version /\ s.runResults \in Version
      BY <2>2 DEF Loaded, Run
    <3>2. s' = s
      BY <1>1
    <3> HIDE DEF s
    <3> QED  BY <1>2, <1>3, <2>2, <3>1, <3>2 DEF SnapshotSeen, NotNewer
  <2> QED  BY <1>1, <2>3 DEF SnapshotSeen, NotOlder
<1>6. LoadedSeen'
  <2> SUFFICES ASSUME loaded # None PROVE SnapshotSeen(loaded)'
    BY <1>1 DEF LoadedSeen
  <2>1. loaded \in Loaded /\ SnapshotSeen(loaded) /\ loaded' = loaded
    BY <1>1 DEF SessionTypeOK, ExactInv, LoadedSeen
  <2>2. loaded.run.target \in Targets /\ loaded.manifest \in Version
        /\ loaded.runResults \in Version
    BY <2>1 DEF Loaded, Run
  <2> QED  BY <1>2, <1>3, <2>1, <2>2 DEF SnapshotSeen, NotNewer, NotOlder
<1>7. JobsSeen'
  <2> SUFFICES ASSUME NEW p \in Processes, pc[p] \in {"discovering", "loading"}
               PROVE  JobSeen(p)'
    BY <1>1 DEF JobsSeen, JobSeen
  <2>1. JobSeen(p) /\ job[p] \in Job /\ pc'[p] = pc[p] /\ job'[p] = job[p]
    BY <1>1 DEF ExactInv, JobsSeen
  <2>2. CASE pc[p] = "discovering"
    BY <1>2, <2>1, <2>2 DEF JobSeen
  <2>3. CASE pc[p] = "loading"
    <3>1. job[p].run.target \in Targets /\ job[p].manifest \in Version
          /\ job[p].runResults \in Version
      BY <2>1, <2>3 DEF Job, Run
    <3> QED  BY <1>2, <1>3, <2>1, <2>3, <3>1 DEF JobSeen, NotNewer
  <2> QED  BY <2>2, <2>3
<1>8. StoreInv' /\ PendingSeen'
  BY <1>1, <1>2, StoreKeepsInv DEF ExactInv, PendingSeen
<1> QED  BY <1>5, <1>6, <1>7, <1>8 DEF ExactInv

LEMMA NextSeen == TypeInv /\ ExactInv /\ [Next]_vars => ExactInv'
<1> SUFFICES ASSUME TypeInv, ExactInv, [Next]_vars PROVE ExactInv'
  OBVIOUS
<1>1. CASE Tick
  <2>1. store' = store /\ UNCHANGED <<loaded, pendingRun, pc, job>>
    BY <1>1 DEF Tick, storeVars, sessionVars, controlVars
  <2>2. \A t \in Targets : targetCache'[t] # None =>
           targetCache[t] # None /\ targetCache'[t].loaded = targetCache[t].loaded
    <3>1. \A t \in Targets : targetCache[t] # None => targetCache[t] \in CacheEntry
      BY DEF TypeInv, SessionTypeOK
    <3> QED  BY <1>1, <3>1 DEF Tick, CacheEntry
  <2>3. CacheSeen'
    <3>1. \A t \in Targets : targetCache'[t] # None => SnapshotSeen(targetCache'[t].loaded)
      BY <2>2 DEF ExactInv, CacheSeen
    <3> QED  BY <2>1, <3>1 DEF CacheSeen, SnapshotSeen, Listed, NotNewer
  <2>4. JobsSeen'
    BY <2>1, KeptJobs DEF ExactInv
  <2> QED  BY <2>1, <2>3, <2>4, SameStore DEF ExactInv, PendingSeen, LoadedSeen
<1>2. CASE UNCHANGED vars
  <2>1. store' = store /\ UNCHANGED <<loaded, pendingRun, targetCache, pc, job>>
    BY <1>2 DEF vars, storeVars, sessionVars, cacheVars, controlVars
  <2> QED  BY <2>1, KeptJobs, KeepsSeen DEF ExactInv
<1> QED
  BY <1>1, <1>2, CallSeen, StartSeen, ContinueSeen, InitializeSeen, EnvironmentSeen DEF Next

LEMMA InitSeen == Init => ExactInv
<1> SUFFICES ASSUME Init PROVE ExactInv
  OBVIOUS
<1>1. StoreInv
  BY StoreInitInv DEF Init
<1> QED
  BY <1>1
     DEF Init, ExactInv, JobsSeen, JobSeen, CacheSeen, PendingSeen, LoadedSeen

-----------------------------------------------------------------------------
\* While a root still lists the token of a snapshot, in use or in the cache, the
\* snapshot is exactly the pair of files the token names, whatever was rewritten
\* or removed while it was being read: reloadSelectedRunIfVersionChanged may
\* skip the load.
THEOREM UnchangedTokenMeansExactAlways == Spec => []UnchangedTokenMeansExact
<1>1. TypeInv /\ ExactInv => UnchangedTokenMeansExact
  <2> SUFFICES ASSUME TypeInv, ExactInv,
                      NEW s \in {loaded} \cup {targetCache[t].loaded :
                                     t \in {u \in Targets : targetCache[u] # None}},
                      s # None, s.run \in DiscoveredRuns(s.run.target)
               PROVE  s.run.token = [manifest |-> s.manifest, runResults |-> s.runResults]
    BY DEF UnchangedTokenMeansExact
  <2>1. s \in Loaded /\ SnapshotSeen(s)
    <3>1. CASE s = loaded
      BY <3>1 DEF TypeInv, SessionTypeOK, ExactInv, LoadedSeen
    <3>2. ASSUME NEW t \in Targets, targetCache[t] # None, s = targetCache[t].loaded
          PROVE  s \in Loaded /\ SnapshotSeen(s)
      BY <3>2 DEF TypeInv, SessionTypeOK, CacheEntry, ExactInv, CacheSeen
    <3> QED  BY <3>1, <3>2
  <2>2. s.manifest \in Version /\ s.runResults \in Version /\ s.run \in Run
    BY <2>1 DEF Loaded
  <2>3. VersionToken(store[s.run.target]) = s.run.token
    BY <2>2 DEF DiscoveredRuns, Run
  <2>4. s.manifest = s.run.token.manifest /\ s.runResults = s.run.token.runResults
    BY <2>1, <2>2, <2>3, UnchangedIsExact DEF SnapshotSeen, TypeInv
  <2>5. s.run.token = VersionToken(store[s.run.target])
    BY <2>3
  <2> QED  BY <2>4, <2>5 DEF VersionToken
<1> QED  BY <1>1, InitTypeInv, NextTypeInv, InitSeen, NextSeen, PTL DEF Spec

-----------------------------------------------------------------------------
(***************************************************************************)
(* What ArtifactWorkspace promises its users: it implements *)
(* ArtifactSession, its status never hides that the snapshot is outdated,  *)
(* and a refresh leaves a snapshot.                                        *)
(*                                                                         *)
(* A commit replaces the snapshot in use, so the refinement rests on who   *)
(* may commit what.  Whoever revalidates a snapshot (a refresh, or a       *)
(* setTarget to a cached root) holds the promise chain from the moment it  *)
(* read that snapshot, and nothing else that changes the binding can run.  *)
(* The job behind initializePromise is not on the chain; it may commit     *)
(* only while its binding is in force, and then nothing is loaded or       *)
(* cached for its root.  selectRun is neither: it loads with a snapshot in *)
(* use that it does not compare with, so a job behind initializePromise    *)
(* may replace its newer run by an older one.  Nothing in the repository   *)
(* calls it, and the theorems leave it out.                                *)
(***************************************************************************)

InFlight(p) == pc[p] \in {"discovering", "loading"}
Reloading(c) == InFlight(c) /\ Revalidates(c)

\* What c compares with is still bound and in use, and what it loads is not older.
ReloadIsCurrent(c) ==
    Reloading(c) =>
        /\ BindingStillActive(c)
        /\ loaded # None
        /\ pc[c] = "discovering" => job[c].run = loaded.run
        /\ pc[c] = "loading" =>
              /\ selectedRunId = CurrentRunId
              /\ Session!NotOlder(job[c].run.token, loaded.run.token)

ReloadInv == \A c \in Callers : ReloadIsCurrent(c)

OnlyReloadsLoad ==
    \A c \in Callers :
        /\ call[c] # None => call[c].op # "selectRun"
        /\ pc[c] = "loading" => Revalidates(c)

\* While the binding of initializePromise is in force, nothing is kept of its root.
InitInv ==
    InFlight(InitJob) =>
        /\ job[InitJob].binding.epoch <= loadGeneration
        /\ job[InitJob].binding.epoch = loadGeneration =>
              /\ targetCache[job[InitJob].target] = None
              /\ dbtTarget = job[InitJob].target => loaded = None
              /\ pc[InitJob] = "loading" => selectedRunId = CurrentRunId

\* A root is bound with what is cached of it.
NothingCached == loaded = None /\ dbtTarget # None => targetCache[dbtTarget] = None

RefineInv == ReloadInv /\ OnlyReloadsLoad /\ InitInv /\ NothingCached

-----------------------------------------------------------------------------
(* What steps do to the work in flight. *)

\* p goes on with what it was doing, or no longer does it.
SameWork(p) ==
    InFlight(p)' =>
        /\ pc'[p] = pc[p]
        /\ job'[p].run = job[p].run
        /\ job'[p].target = job[p].target
        /\ job'[p].binding = job[p].binding
        /\ p # InitJob => call'[p] = call[p]

CallsEnd == \A x \in Callers : call'[x] \in {call[x], None}

LEMMA FinishWork ==
    ASSUME ControlInv, NEW c \in Callers, NEW result \in Settled,
           FinishSerialized(c, result) \/ Finish(c, result)
    PROVE  (\A p \in Processes : SameWork(p)) /\ CallsEnd /\ pc'[c] = result
<1> USE Disjoint DEF ControlInv, ControlTypeOK
<1>1. \A x \in Processes : pc'[x] \notin Settled => pc'[x] = pc[x] /\ job'[x] = job[x]
  BY DEF FinishSerialized, Finish
<1>2. \A x \in Callers : pc'[x] \notin Settled => call'[x] = call[x]
  BY DEF FinishSerialized, Finish
<1>3. CallsEnd
  BY DEF FinishSerialized, Finish, CallsEnd
<1>4. pc'[c] = result
  BY DEF FinishSerialized, Finish
<1> QED  BY <1>1, <1>2, <1>3, <1>4 DEF SameWork, InFlight, Settled

LEMMA SettleInitializeWork ==
    ASSUME ControlInv, NEW resumed \in {"initialized", "initFailed"},
           SettleInitialize(resumed)
    PROVE  (\A p \in Processes : SameWork(p)) /\ CallsEnd /\ ~InFlight(InitJob)'
<1> USE Disjoint DEF ControlInv, ControlTypeOK
<1>1. \A x \in Callers : InFlight(x)' => pc'[x] = pc[x] /\ job'[x] = job[x]
  BY DEF SettleInitialize, InFlight
<1>2. ~InFlight(InitJob)' /\ call' = call
  BY DEF SettleInitialize, InFlight
<1> QED  BY <1>1, <1>2 DEF SameWork, CallsEnd

LEMMA DiscoverWork ==
    ASSUME ControlInv, NEW c \in Callers, NEW t, NEW run, Discover(c, t, run),
           \A x \in Callers \ {c} : call'[x] = call[x]
    PROVE  /\ \A p \in Processes \ {c} : SameWork(p)
           /\ pc'[c] = "discovering" /\ job'[c] = NewJob(t, loadGeneration, run)
BY Disjoint DEF ControlInv, ControlTypeOK, Discover, SameWork

LEMMA EnsureInitializedWork ==
    ASSUME ControlInv, NEW c \in Callers, NEW t, NEW epoch, EnsureInitialized(c, t, epoch),
           \A x \in Callers \ {c} : call'[x] = call[x]
    PROVE  /\ \A p \in Callers : SameWork(p)
           /\ \/ SameWork(InitJob)
              \/ pc'[InitJob] = "discovering" /\ job'[InitJob] = NewJob(t, epoch, None)
           /\ pc'[c] = "initializing"
<1> USE Disjoint DEF ControlInv, ControlTypeOK
<1>1. /\ pc'[c] = "initializing"
      /\ \A x \in Callers : x # c => pc'[x] = pc[x] /\ job'[x] = job[x] /\ call'[x] = call[x]
  BY DEF EnsureInitialized
<1>2. CASE pc[InitJob] = "idle"
  <2>1. pc'[InitJob] = "discovering" /\ job'[InitJob] = NewJob(t, epoch, None)
    BY <1>2 DEF EnsureInitialized
  <2> QED  BY <1>1, <2>1 DEF SameWork, InFlight
<1>3. CASE pc[InitJob] # "idle"
  <2>1. pc'[InitJob] = pc[InitJob] /\ job' = job
    BY <1>3 DEF EnsureInitialized
  <2> QED  BY <1>1, <2>1 DEF SameWork, InFlight
<1> QED  BY <1>2, <1>3

LEMMA StartLoadingWork ==
    ASSUME ControlInv, NEW p \in Processes, pc[p] = "discovering", NEW run,
           StartLoading(p, run)
    PROVE  /\ \A q \in Processes \ {p} : SameWork(q)
           /\ pc'[p] = "loading" /\ job'[p].run = run /\ call' = call
           /\ job'[p].target = job[p].target /\ job'[p].binding = job[p].binding
<1>1. job[p] \in Job
  BY DEF ControlInv
<1> QED  BY <1>1, Disjoint DEF ControlInv, ControlTypeOK, StartLoading, Job, SameWork

LEMMA ReadWork ==
    ASSUME ControlInv, NEW p \in Processes, ReadManifest(p) \/ ReadRunResults(p)
    PROVE  (\A q \in Processes : SameWork(q)) /\ call' = call
<1>1. job[p] \in Job
  BY DEF ControlInv, ReadManifest, ReadRunResults
<1>2. /\ job'[p].run = job[p].run /\ job'[p].target = job[p].target
      /\ job'[p].binding = job[p].binding
      /\ \A x \in Processes : x # p => job'[x] = job[x]
      /\ UNCHANGED <<pc, call>>
  BY <1>1, Disjoint DEF ReadManifest, ReadRunResults, ControlInv, ControlTypeOK, Job
<1> QED  BY <1>2 DEF SameWork

LEMMA UnchangedWork ==
    ASSUME UNCHANGED controlVars
    PROVE  (\A p \in Processes : SameWork(p)) /\ CallsEnd
BY DEF controlVars, SameWork, CallsEnd

\* The binding and the snapshot stay, and no root is cached but the bound one with
\* its snapshot.
Quiet ==
    /\ UNCHANGED <<dbtTarget, loadGeneration, loaded>>
    /\ selectedRunId' \in {selectedRunId, CurrentRunId}
    /\ \A t \in Targets :
          targetCache[t] = None /\ targetCache'[t] # None => t = dbtTarget /\ loaded # None

LEMMA QuietReload ==
    ASSUME ControlInv, Quiet, NEW c \in Callers, ReloadIsCurrent(c), SameWork(c)
    PROVE  ReloadIsCurrent(c)'
<1> SUFFICES ASSUME Reloading(c)' PROVE ReloadIsCurrent(c)'
  BY DEF ReloadIsCurrent
<1>1. /\ pc'[c] = pc[c] /\ job'[c].run = job[c].run /\ job'[c].target = job[c].target
      /\ job'[c].binding = job[c].binding /\ call'[c] = call[c]
  BY Disjoint DEF Reloading, SameWork
<1>2. Reloading(c)
  BY <1>1 DEF Reloading, InFlight, Revalidates
<1> QED
  BY <1>1, <1>2
     DEF ReloadIsCurrent, Quiet, BindingStillActive, IsSessionBindingCurrent

LEMMA QuietInit ==
    ASSUME TypeInv, Quiet, InitInv, SameWork(InitJob)
    PROVE  InitInv'
<1> SUFFICES ASSUME InFlight(InitJob)' PROVE InitInv'
  BY DEF InitInv
<1>1. /\ pc'[InitJob] = pc[InitJob] /\ job'[InitJob].target = job[InitJob].target
      /\ job'[InitJob].binding = job[InitJob].binding
  BY DEF SameWork
<1>2. InFlight(InitJob)
  BY <1>1 DEF InFlight
<1>3. job[InitJob].target \in Targets
  BY <1>2, Disjoint DEF InFlight, TypeInv, ControlInv, Job
<1> QED  BY <1>1, <1>2, <1>3 DEF InitInv, Quiet

LEMMA QuietCache ==
    ASSUME TypeInv, Quiet, NothingCached
    PROVE  NothingCached'
BY DEF TypeInv, SessionTypeOK, Quiet, NothingCached

LEMMA QuietSync ==
    ASSUME SessionTypeOK, NEW id, NEW found, SyncActiveToCache(dbtTarget, id, found, loaded)
    PROVE  \A t \in Targets :
              targetCache[t] = None /\ targetCache'[t] # None => t = dbtTarget /\ loaded # None
<1>1. CASE UNCHANGED cacheVars
  BY <1>1 DEF cacheVars
<1>2. CASE ~(UNCHANGED cacheVars)
  BY <1>2 DEF SyncActiveToCache, PutCacheEntry
<1> QED  BY <1>1, <1>2

LEMMA LoadsStay ==
    ASSUME ControlInv, OnlyReloadsLoad, CallsEnd, \A p \in Processes : SameWork(p)
    PROVE  OnlyReloadsLoad'
<1> SUFFICES ASSUME NEW c \in Callers
             PROVE  /\ call'[c] # None => call'[c].op # "selectRun"
                    /\ pc'[c] = "loading" => Revalidates(c)'
  BY DEF OnlyReloadsLoad
<1> QED  BY Disjoint DEF CallsEnd, SameWork, InFlight, OnlyReloadsLoad, Revalidates

\* The step of a process that leaves all others with their work.
LEMMA QuietRefine ==
    ASSUME TypeInv, RefineInv, Quiet, CallsEnd, \A p \in Processes : SameWork(p)
    PROVE  RefineInv'
<1> USE DEF TypeInv, RefineInv
<1>1. ReloadInv'
  BY QuietReload, Disjoint DEF ReloadInv
<1> QED  BY <1>1, QuietInit, QuietCache, LoadsStay, Disjoint

\* Who starts, or goes on, at the head of the chain is alone on it.
LEMMA AloneOnChain ==
    ASSUME ControlInv, NEW c \in Callers, Head(queue) = c, NEW x \in Callers, Reloading(x)
    PROVE  x = c
<1>1. OnChain(x)
  BY DEF Reloading, InFlight, Revalidates, OnChain, RefreshOps
<1> QED  BY <1>1 DEF ControlInv

-----------------------------------------------------------------------------
(* The steps. *)

LEMMA CallRefine ==
    ASSUME TypeInv, RefineInv, "selectRun" \notin Operations, NEW c \in Callers, Call(c)
    PROVE  RefineInv'
<1> USE Disjoint DEF TypeInv, RefineInv
<1>1. UNCHANGED <<dbtTarget, loadGeneration, selectedRunId, loaded, targetCache>>
  BY DEF Call, CallSerialized, CallRefresh, CallInitialize, CallListRuns, sessionVars,
         cacheVars
<1>2. Quiet
  BY <1>1 DEF Quiet
<1>3. PICK request \in Requests(c) :
         \/ CallSerialized(c, request)
         \/ CallRefresh(c, request)
         \/ CallInitialize(c, request)
         \/ CallListRuns(c, request)
  BY DEF Call
<1>4. request.op # "selectRun"
  BY <1>3 DEF Requests
<1>5. UNCHANGED call \/ call' = [call EXCEPT ![c] = request]
  BY <1>3 DEF CallSerialized, CallRefresh, CallInitialize, CallListRuns
<1>6. /\ \A x \in Callers \ {c} : call'[x] = call[x]
      /\ call'[c] # None => call'[c].op # "selectRun"
  BY <1>4, <1>5 DEF ControlInv, ControlTypeOK, OnlyReloadsLoad
<1>7. CASE \E t : Discover(c, t, None) /\ request.op = "listRuns"
                  /\ call' = [call EXCEPT ![c] = request]
  <2>1. /\ \A p \in Processes \ {c} : SameWork(p)
        /\ pc'[c] = "discovering" /\ call'[c].op = "listRuns"
    BY <1>6, <1>7, DiscoverWork DEF ControlInv, ControlTypeOK
  <2>2. ReloadInv'
    <3>1. \A x \in Callers \ {c} : ReloadIsCurrent(x)'
      BY <1>2, <2>1, QuietReload DEF ReloadInv
    <3>2. ReloadIsCurrent(c)'
      BY <2>1 DEF ReloadIsCurrent, Reloading, Revalidates, RefreshOps
    <3> QED  BY <3>1, <3>2 DEF ReloadInv
  <2>3. OnlyReloadsLoad'
    BY <1>6, <2>1 DEF OnlyReloadsLoad, SameWork, InFlight, Revalidates
  <2> QED  BY <1>2, <2>1, <2>2, <2>3, QuietInit, QuietCache
<1>8. CASE request.op = "initialize" /\ loaded = None
           /\ EnsureInitialized(c, dbtTarget, loadGeneration)
           /\ (pc[InitJob] # "idle" \/ dbtTarget # None)
  <2>1. /\ \A p \in Callers : SameWork(p)
        /\ \/ SameWork(InitJob)
           \/ /\ pc'[InitJob] = "discovering"
              /\ job'[InitJob] = NewJob(dbtTarget, loadGeneration, None)
              /\ dbtTarget # None
    BY <1>6, <1>8, EnsureInitializedWork DEF EnsureInitialized, SameWork, InFlight, ControlInv, ControlTypeOK
  <2>2. ReloadInv'
    BY <1>2, <2>1, QuietReload DEF ReloadInv
  <2>3. OnlyReloadsLoad'
    BY <1>6, <2>1 DEF OnlyReloadsLoad, SameWork, InFlight, Revalidates
  <2>4. InitInv'
    <3>1. CASE SameWork(InitJob)
      BY <1>2, <3>1, QuietInit
    <3>2. CASE /\ pc'[InitJob] = "discovering"
               /\ job'[InitJob] = NewJob(dbtTarget, loadGeneration, None)
               /\ dbtTarget # None
      <4>1. /\ job'[InitJob].target = dbtTarget
            /\ job'[InitJob].binding.epoch = loadGeneration
        BY <3>2 DEF NewJob, CaptureSessionBinding
      <4> QED  BY <1>1, <1>8, <3>2, <4>1 DEF InitInv, NothingCached, SessionTypeOK
    <3> QED  BY <2>1, <3>1, <3>2
  <2> QED  BY <1>2, <2>2, <2>3, <2>4, QuietCache
<1>9. CASE UNCHANGED job /\ \E stage \in ProgramCounter \ {"discovering", "loading"} :
                               pc' = [pc EXCEPT ![c] = stage]
  <2>1. \A p \in Processes : SameWork(p)
    BY <1>6, <1>9 DEF SameWork, InFlight, ControlInv, ControlTypeOK
  <2>2. ReloadInv'
    BY <1>2, <2>1, QuietReload DEF ReloadInv
  <2>3. OnlyReloadsLoad'
    BY <1>6, <1>9, <2>1
       DEF OnlyReloadsLoad, SameWork, InFlight, Revalidates, ControlInv, ControlTypeOK
  <2> QED  BY <1>2, <2>1, <2>2, <2>3, QuietInit, QuietCache
<1>10. CASE CallSerialized(c, request)
  BY <1>9, <1>10 DEF CallSerialized, ProgramCounter
<1>11. CASE CallRefresh(c, request)
  BY <1>9, <1>11 DEF CallRefresh, ProgramCounter, Resting, Settled
<1>12. CASE CallInitialize(c, request)
  BY <1>8, <1>9, <1>12 DEF CallInitialize, CanInitialize, ProgramCounter, Resting, Settled
<1>13. CASE CallListRuns(c, request)
  <2>1. CASE runs # {} \/ dbtTarget = None
    BY <1>9, <1>13, <2>1 DEF CallListRuns, ProgramCounter, Resting, Settled
  <2>2. CASE ~(runs # {} \/ dbtTarget = None)
    BY <1>7, <1>13, <2>2 DEF CallListRuns
  <2> QED  BY <2>1, <2>2
<1> QED  BY <1>3, <1>10, <1>11, <1>12, <1>13

\* Before an operation starts nobody reloads, and after it at most c does.
LEMMA StartsAlone ==
    ASSUME ControlInv, NEW c \in Callers, NEW op, Starts(c, op)
    PROVE  \A x \in Callers : ~Reloading(x)
<1> SUFFICES ASSUME NEW x \in Callers, Reloading(x) PROVE FALSE
  OBVIOUS
<1>1. x = c
  BY AloneOnChain DEF Starts
<1> QED  BY <1>1 DEF Starts, Reloading, InFlight

\* The binding operations: a cached root is bound with its snapshot, any other
\* binding is of a new generation and has no snapshot.
Rebinds(c) ==
    /\ \A x \in Callers : ~Reloading(x)
    /\ \/ /\ loadGeneration' = loadGeneration /\ loaded' # None
          /\ selectedRunId' = CurrentRunId
          /\ targetCache[dbtTarget'] # None
       \/ loadGeneration' = loadGeneration + 1 /\ loaded' = None
    /\ dbtTarget' # None /\ loaded' = None => targetCache'[dbtTarget'] = None
    /\ \A t \in Targets : targetCache[t] = None => targetCache'[t] = None

LEMMA RebindInit ==
    ASSUME TypeInv, InitInv, NEW c \in Callers, Rebinds(c), SameWork(InitJob)
    PROVE  InitInv'
<1> SUFFICES ASSUME InFlight(InitJob)' PROVE InitInv'
  BY DEF InitInv
<1>1. /\ pc'[InitJob] = pc[InitJob] /\ job'[InitJob].target = job[InitJob].target
      /\ job'[InitJob].binding = job[InitJob].binding
  BY DEF SameWork
<1>2. InFlight(InitJob)
  BY <1>1 DEF InFlight
<1>3. /\ job[InitJob].target \in Targets /\ job[InitJob].binding.epoch \in Nat
      /\ loadGeneration \in Nat
  BY <1>2, Disjoint DEF InFlight, TypeInv, ControlInv, SessionTypeOK, Job, Binding
<1>4. CASE loadGeneration' = loadGeneration + 1
  BY <1>1, <1>2, <1>3, <1>4 DEF InitInv
<1>5. CASE /\ loadGeneration' = loadGeneration /\ selectedRunId' = CurrentRunId
           /\ targetCache[dbtTarget'] # None
  BY <1>1, <1>2, <1>3, <1>5 DEF InitInv, Rebinds
<1> QED  BY <1>4, <1>5 DEF Rebinds

LEMMA RebindReload ==
    ASSUME ControlInv, NEW c \in Callers, Rebinds(c), NEW x \in Callers, SameWork(x)
    PROVE  ~Reloading(x)'
<1> SUFFICES ASSUME Reloading(x)' PROVE FALSE
  OBVIOUS
<1>1. pc'[x] = pc[x] /\ call'[x] = call[x]
  BY Disjoint DEF Reloading, SameWork
<1> QED  BY <1>1 DEF Reloading, InFlight, Revalidates, Rebinds

LEMMA StartRefine ==
    ASSUME TypeInv, LruInv, BelongInv, RefineInv, NEW c \in Callers, StartOperation(c)
    PROVE  RefineInv'
<1> USE Disjoint DEF TypeInv, RefineInv
<1>1. \A x \in Callers : ~Reloading(x)
  BY StartsAlone
     DEF StartOperation, StartSetBlankTarget, StartSetCachedTarget, StartSetNewTarget,
         StartUnsetTarget, StartClearCachedTargets, StartRefresh, StartGetLoadedWorkspace,
         StartSelectRun, StartAcceptPendingRun
<1>2. \A t \in Targets : targetCache[t] = None => Unexpired[t] = None
  BY DEF Unexpired
<1>3. MaxCachedTargets = 0 => \A t \in Targets : targetCache[t] = None
  <2> SUFFICES ASSUME MaxCachedTargets = 0, NEW t \in Targets, targetCache[t] # None PROVE FALSE
    OBVIOUS
  <2> QED  BY DEF LruInv, InOrder
<1>4. CASE StartSetCachedTarget(c)
  <2> DEFINE t == call[c].target
  <2>1. /\ t \in Targets /\ Unexpired[t] # None /\ call[c].op = "setTarget"
        /\ call[c] \in Request
    BY <1>4, StartsFacts DEF StartSetCachedTarget, Request
  <2>2. Unexpired[t] = targetCache[t] /\ Unexpired[t] \in CacheEntry
    BY <2>1, UnexpiredType DEF Unexpired
  <2>3. Unexpired[t].loaded # None /\ Unexpired[t].selectedRunId = CurrentRunId
    BY <2>2, NoneIsNoSnapshot DEF CacheEntry
  <2>4. /\ dbtTarget' = t /\ loaded' = Unexpired[t].loaded /\ loadGeneration' = loadGeneration
        /\ selectedRunId' = CurrentRunId /\ call' = call
        /\ targetCache' = [Unexpired EXCEPT ![t] = [Unexpired[t] EXCEPT !.idle = 0]]
        /\ Discover(c, t, Unexpired[t].loaded.run)
    BY <1>4, <2>3 DEF StartSetCachedTarget
  <2>5. \A u \in Targets : targetCache[u] = None => targetCache'[u] = None
    BY <1>2, <2>1, <2>2, <2>4, UnexpiredType
  <2>6. Rebinds(c)
    BY <1>1, <2>1, <2>2, <2>3, <2>4, <2>5 DEF Rebinds
  <2>7. /\ \A p \in Processes \ {c} : SameWork(p)
        /\ pc'[c] = "discovering" /\ job'[c] = NewJob(t, loadGeneration, loaded'.run)
    BY <2>4, DiscoverWork
  <2>8. ReloadIsCurrent(c)'
    <3>1. job'[c].run = loaded'.run
          /\ IsSessionBindingCurrent(job'[c].binding, loadGeneration', dbtTarget')
      BY <2>4, <2>7 DEF NewJob, CaptureSessionBinding, IsSessionBindingCurrent
    <3> QED  BY <2>3, <2>4, <2>7, <3>1 DEF ReloadIsCurrent, BindingStillActive
  <2>9. ReloadInv'
    BY <2>6, <2>7, <2>8, RebindReload DEF ReloadInv, ReloadIsCurrent
  <2>10. OnlyReloadsLoad'
    BY <2>4, <2>7 DEF OnlyReloadsLoad, SameWork, InFlight, Revalidates
  <2>11. NothingCached'
    BY <2>3, <2>4 DEF NothingCached
  <2> QED  BY <2>6, <2>7, <2>9, <2>10, <2>11, RebindInit
<1>5. CASE StartSetNewTarget(c)
  <2> DEFINE t == call[c].target
  <2>1. t \in Targets
    BY <1>5, StartsFacts DEF StartSetNewTarget, Request
  <2>2. /\ dbtTarget' = t /\ loaded' = None /\ loadGeneration' = loadGeneration + 1
        /\ call' = call /\ targetCache' = Unexpired
        /\ EnsureInitialized(c, t, loadGeneration + 1)
    BY <1>5 DEF StartSetNewTarget
  <2>3. Unexpired[t] = None
    BY <1>2, <1>3, <1>5, <2>1 DEF StartSetNewTarget
  <2>4. Rebinds(c)
    BY <1>1, <1>2, <2>1, <2>2, <2>3 DEF Rebinds
  <2>5. /\ \A p \in Callers : SameWork(p)
        /\ \/ SameWork(InitJob)
           \/ /\ pc'[InitJob] = "discovering"
              /\ job'[InitJob] = NewJob(t, loadGeneration + 1, None)
    BY <2>2, EnsureInitializedWork
  <2>6. ReloadInv'
    BY <2>4, <2>5, RebindReload DEF ReloadInv, ReloadIsCurrent
  <2>7. OnlyReloadsLoad'
    BY <2>2, <2>5 DEF OnlyReloadsLoad, SameWork, InFlight, Revalidates
  <2>8. NothingCached'
    BY <2>2, <2>3 DEF NothingCached
  <2>9. InitInv'
    <3>1. CASE /\ pc'[InitJob] = "discovering"
               /\ job'[InitJob] = NewJob(t, loadGeneration + 1, None)
      <4>1. /\ job'[InitJob].target = t /\ job'[InitJob].binding.epoch = loadGeneration + 1
        BY <3>1 DEF NewJob, CaptureSessionBinding
      <4> QED  BY <2>2, <2>3, <3>1, <4>1 DEF InitInv, SessionTypeOK
    <3> QED  BY <2>4, <2>5, <3>1, RebindInit
  <2> QED  BY <2>6, <2>7, <2>8, <2>9
<1>6. CASE StartUnsetTarget(c) \/ StartClearCachedTargets(c)
  <2>1. /\ loaded' = None /\ loadGeneration' = loadGeneration + 1
        /\ FinishSerialized(c, "returned")
        /\ \/ dbtTarget' = None /\ targetCache' = targetCache
           \/ dbtTarget' = dbtTarget /\ targetCache' = [t \in Targets |-> None]
    BY <1>6 DEF StartUnsetTarget, StartClearCachedTargets, cacheVars
  <2>2. dbtTarget \in Targets \cup {None}
    BY DEF SessionTypeOK
  <2>3. Rebinds(c)
    BY <1>1, <2>1, <2>2 DEF Rebinds
  <2>4. (\A p \in Processes : SameWork(p)) /\ CallsEnd
    BY <2>1, FinishWork DEF Settled
  <2>5. ReloadInv'
    BY <2>3, <2>4, RebindReload DEF ReloadInv, ReloadIsCurrent
  <2>6. NothingCached'
    BY <2>3 DEF Rebinds, NothingCached
  <2> QED  BY <2>3, <2>4, <2>5, <2>6, LoadsStay, RebindInit
<1>7. ASSUME UNCHANGED <<sessionVars, cacheVars>>
      PROVE  Quiet
  BY <1>7 DEF Quiet, sessionVars, cacheVars
<1>8. CASE /\ UNCHANGED <<sessionVars, cacheVars>>
           /\ \E result \in Settled : FinishSerialized(c, result)
  <2>1. (\A p \in Processes : SameWork(p)) /\ CallsEnd
    BY <1>8, FinishWork
  <2> QED  BY <1>7, <1>8, <2>1, QuietRefine
<1>9. CASE /\ UNCHANGED <<sessionVars, cacheVars, call>> /\ loaded = None
           /\ EnsureInitialized(c, dbtTarget, loadGeneration)
           /\ pc[InitJob] # "idle" \/ dbtTarget # None
  <2>1. /\ \A p \in Callers : SameWork(p)
        /\ \/ SameWork(InitJob)
           \/ /\ pc'[InitJob] = "discovering"
              /\ job'[InitJob] = NewJob(dbtTarget, loadGeneration, None)
              /\ dbtTarget # None
    BY <1>9, EnsureInitializedWork
       DEF EnsureInitialized, SameWork, InFlight, ControlInv, ControlTypeOK
  <2>2. ReloadInv'
    BY <1>7, <1>9, <2>1, QuietReload DEF ReloadInv
  <2>3. OnlyReloadsLoad'
    BY <1>9, <2>1 DEF OnlyReloadsLoad, SameWork, InFlight, Revalidates
  <2>4. InitInv'
    <3>1. CASE SameWork(InitJob)
      BY <1>7, <1>9, <3>1, QuietInit
    <3>2. CASE /\ pc'[InitJob] = "discovering"
               /\ job'[InitJob] = NewJob(dbtTarget, loadGeneration, None)
               /\ dbtTarget # None
      <4>1. /\ job'[InitJob].target = dbtTarget
            /\ job'[InitJob].binding.epoch = loadGeneration
        BY <3>2 DEF NewJob, CaptureSessionBinding
      <4> QED
        BY <1>9, <3>2, <4>1 DEF InitInv, NothingCached, SessionTypeOK, sessionVars, cacheVars
    <3> QED  BY <2>1, <3>1, <3>2
  <2> QED  BY <1>7, <1>9, <2>2, <2>3, <2>4, QuietCache
<1>10. CASE StartRefresh(c)
  <2>1. CASE /\ loaded # None /\ dbtTarget # None /\ UNCHANGED <<sessionVars, cacheVars, call>>
             /\ Discover(c, dbtTarget, loaded.run)
    <3>1. /\ \A p \in Processes \ {c} : SameWork(p)
          /\ pc'[c] = "discovering" /\ job'[c] = NewJob(dbtTarget, loadGeneration, loaded.run)
      BY <2>1, DiscoverWork
    <3>2. ReloadIsCurrent(c)'
      <4>1. job'[c].run = loaded.run
            /\ IsSessionBindingCurrent(job'[c].binding, loadGeneration, dbtTarget)
        BY <3>1 DEF NewJob, CaptureSessionBinding, IsSessionBindingCurrent
      <4> QED  BY <2>1, <3>1, <4>1 DEF ReloadIsCurrent, BindingStillActive, sessionVars
    <3>3. ReloadInv'
      BY <1>7, <2>1, <3>1, <3>2, QuietReload DEF ReloadInv
    <3>4. OnlyReloadsLoad'
      BY <2>1, <3>1 DEF OnlyReloadsLoad, SameWork, InFlight, Revalidates
    <3> QED  BY <1>7, <2>1, <3>1, <3>3, <3>4, QuietInit, QuietCache
  <2> QED  BY <1>8, <1>9, <1>10, <2>1 DEF StartRefresh, Settled
<1>11. CASE StartSetBlankTarget(c)
  BY <1>8, <1>11 DEF StartSetBlankTarget, Settled
<1>12. CASE StartGetLoadedWorkspace(c)
  BY <1>8, <1>9, <1>12 DEF StartGetLoadedWorkspace, CanInitialize, Settled
<1>13. CASE StartSelectRun(c)
  <2>1. call[c] # None
    BY <1>13, StartsFacts, NoneIsNoRequest DEF StartSelectRun
  <2> QED  BY <1>13, <2>1, StartsFacts DEF StartSelectRun, OnlyReloadsLoad
<1>14. CASE StartAcceptPendingRun(c)
  BY <1>8, <1>14 DEF StartAcceptPendingRun, BelongInv, Settled
<1> QED
  BY <1>4, <1>5, <1>6, <1>10, <1>11, <1>12, <1>13, <1>14 DEF StartOperation

\* A listing of the root of a snapshot shows a run that is not older.
LEMMA DiscoveredIsNotOlder ==
    ASSUME StoreTypeOK, NEW kept, Listed(kept), NEW run \in DiscoveredRuns(kept.target)
    PROVE  Session!NotOlder(run.token, kept.token)
<1> DEFINE t == kept.target
<1>1. /\ t \in Targets /\ store[t] \in Contents
      /\ kept.token.manifest \in Version /\ kept.token.runResults \in Version
  BY DEF Listed, Run, Token, StoreTypeOK
<1>2. /\ store[t].manifest # 0 /\ store[t].runResults # 0
      /\ run.token.manifest = store[t].manifest
      /\ run.token.runResults = store[t].runResults
  BY DEF DiscoveredRuns, Discovered, VersionToken
<1>3. kept.token.manifest <= store[t].manifest /\ kept.token.runResults <= store[t].runResults
  BY <1>2 DEF Listed, NotNewer, Seen
<1> QED
  BY <1>1, <1>2, <1>3, StoreAssumption DEF Session!NotOlder, Contents, Version

LEMMA CommitFacts ==
    ASSUME TypeInv, NEW p \in Processes, IsRead(p), NEW id, Commit(p, id, runs)
    PROVE  /\ loaded' = SnapshotOf(p) /\ loaded' \in Loaded /\ loaded' # None
           /\ loaded'.run = job[p].run
           /\ selectedRunId' = id
           /\ UNCHANGED <<dbtTarget, loadGeneration>>
           /\ SyncActiveToCache(dbtTarget, id, runs, loaded')
           /\ \A t \in Targets \ {dbtTarget} :
                 targetCache[t] = None => targetCache'[t] = None
<1>1. /\ loaded' = SnapshotOf(p) /\ selectedRunId' = id
      /\ UNCHANGED <<dbtTarget, loadGeneration>>
      /\ SyncActiveToCache(dbtTarget, id, runs, loaded')
  BY DEF Commit, SnapshotOf
<1>2. SnapshotOf(p) \in Loaded /\ SnapshotOf(p).run = job[p].run
  BY DEF SnapshotOf, IsRead, TypeInv, ControlInv, Job, Loaded
<1>3. \A t \in Targets \ {dbtTarget} : targetCache[t] = None => targetCache'[t] = None
  BY <1>1 DEF SyncActiveToCache, PutCacheEntry, cacheVars
<1> QED  BY <1>1, <1>2, <1>3, NoneIsNoSnapshot

\* p holds the chain with its reload, or is the job behind initializePromise.
LEMMA CommitRefine ==
    ASSUME TypeInv, BelongInv, RefineInv, NEW p \in Processes, IsRead(p),
           BindingStillActive(p), Commit(p, selectedRunId, runs), CallsEnd,
           \A q \in Processes : SameWork(q), ~InFlight(p)',
           p = InitJob \/ (Reloading(p) /\ \A x \in Callers : Reloading(x) => x = p)
    PROVE  RefineInv'
<1> USE Disjoint DEF TypeInv, RefineInv
<1>1. /\ loaded' # None /\ dbtTarget' = dbtTarget /\ loadGeneration' = loadGeneration
      /\ selectedRunId' = selectedRunId
      /\ \A t \in Targets \ {dbtTarget} : targetCache[t] = None => targetCache'[t] = None
  BY CommitFacts
<1>2. \A x \in Callers : Reloading(x)' => Reloading(x)
  BY DEF SameWork, Reloading, InFlight, Revalidates
<1>3. NothingCached'
  BY <1>1 DEF NothingCached
<1>4. CASE p = InitJob
  <2>1. loaded = None
    BY <1>4
       DEF InitInv, IsRead, InFlight, BindingStillActive, IsSessionBindingCurrent, BelongInv,
           JobsBelong, JobBelongs
  <2>2. ReloadInv'
    BY <1>2, <2>1 DEF ReloadInv, ReloadIsCurrent
  <2> QED  BY <1>3, <1>4, <2>2, LoadsStay DEF InitInv
<1>5. CASE Reloading(p) /\ \A x \in Callers : Reloading(x) => x = p
  <2>1. CASE p = InitJob
    BY <1>4, <2>1
  <2>2. CASE p \in Callers
    <3>1. loaded # None
      BY <1>5, <2>2 DEF ReloadInv, ReloadIsCurrent
    <3>2. ReloadInv'
      BY <1>2, <1>5 DEF ReloadInv, ReloadIsCurrent, Reloading
    <3>3. InitInv'
      <4> SUFFICES ASSUME InFlight(InitJob)' PROVE InitInv'
        BY DEF InitInv
      <4>1. /\ pc'[InitJob] = pc[InitJob] /\ job'[InitJob].target = job[InitJob].target
            /\ job'[InitJob].binding = job[InitJob].binding
        BY DEF SameWork
      <4>2. InFlight(InitJob) /\ job[InitJob].target \in Targets
        BY <4>1 DEF InFlight, ControlInv, Job
      <4> QED  BY <1>1, <3>1, <4>1, <4>2 DEF InitInv
    <3> QED  BY <1>3, <3>2, <3>3, LoadsStay
  <2> QED  BY <2>1, <2>2
<1> QED  BY <1>4, <1>5

LEMMA ReloadRefine ==
    ASSUME TypeInv, BelongInv, ExactInv, RefineInv, NEW c \in Callers,
           ReloadDiscovers(c) \/ ReloadCommits(c)
    PROVE  RefineInv'
<1> USE Disjoint DEF TypeInv, RefineInv
<1>1. Reloading(c) /\ Head(queue) = c
  <2>1. Reloading(c)
    BY DEF ReloadDiscovers, ReloadCommits, IsRead, Reloading, InFlight
  <2>2. OnChain(c)
    BY <2>1 DEF Reloading, InFlight, Revalidates, OnChain, RefreshOps
  <2> QED  BY <2>1, <2>2 DEF ControlInv
<1>2. \A x \in Callers : Reloading(x) => x = c
  BY <1>1, AloneOnChain
<1>3. BindingStillActive(c) /\ loaded # None
  BY <1>1 DEF ReloadInv, ReloadIsCurrent
<1>4. CASE ReloadDiscovers(c)
  <2> DEFINE found == DiscoveredRuns(job[c].target)
  <2>1. Quiet /\ pc[c] = "discovering"
    BY <1>4 DEF ReloadDiscovers, Quiet, sessionVars, cacheVars
  <2>2. CASE FinishSerialized(c, "returned")
    BY <2>1, <2>2, FinishWork, QuietRefine DEF Settled
  <2>3. ASSUME NEW run \in found, StartLoading(c, run), selectedRunId' = CurrentRunId
        PROVE  RefineInv'
    <3>1. /\ \A q \in Processes \ {c} : SameWork(q)
          /\ pc'[c] = "loading" /\ job'[c].run = run /\ call' = call
          /\ job'[c].binding = job[c].binding
      BY <2>1, <2>3, StartLoadingWork
    <3>2. /\ job[c].target = loaded.run.target /\ Listed(loaded.run)
      BY <1>3, <2>1
         DEF BelongInv, JobsBelong, JobBelongs, LoadedBelongsToTarget, BindingStillActive,
             IsSessionBindingCurrent, ExactInv, LoadedSeen, SnapshotSeen
    <3>3. Session!NotOlder(run.token, loaded.run.token)
      BY <3>2, DiscoveredIsNotOlder
    <3>4. ReloadIsCurrent(c)'
      BY <1>3, <2>1, <2>3, <3>1, <3>3
         DEF ReloadIsCurrent, Quiet, BindingStillActive, IsSessionBindingCurrent
    <3>5. ReloadInv'
      BY <2>1, <3>1, <3>4, QuietReload DEF ReloadInv
    <3>6. OnlyReloadsLoad'
      BY <1>1, <3>1 DEF OnlyReloadsLoad, SameWork, InFlight, Reloading, Revalidates
    <3> QED  BY <2>1, <3>1, <3>5, <3>6, QuietInit, QuietCache
  <2> QED  BY <1>3, <1>4, <2>2, <2>3 DEF ReloadDiscovers
<1>5. CASE ReloadCommits(c)
  <2>1. /\ IsRead(c) /\ Commit(c, selectedRunId, runs) /\ FinishSerialized(c, "returned")
    BY <1>3, <1>5 DEF ReloadCommits
  <2>2. (\A q \in Processes : SameWork(q)) /\ CallsEnd /\ ~InFlight(c)'
    BY <2>1, FinishWork DEF Settled, InFlight
  <2> QED  BY <1>1, <1>2, <1>3, <2>1, <2>2, CommitRefine
<1> QED  BY <1>4, <1>5

LEMMA ContinueRefine ==
    ASSUME TypeInv, BelongInv, ExactInv, RefineInv, NEW c \in Callers, ContinueOperation(c)
    PROVE  RefineInv'
<1> USE Disjoint DEF TypeInv, RefineInv
<1>1. ASSUME UNCHANGED <<sessionVars, cacheVars>> PROVE Quiet
  BY <1>1 DEF Quiet, sessionVars, cacheVars
<1>2. ASSUME NEW op, call[c].op = op, pc[c] \in {"discovering", "loading"}
      PROVE  call[c] # None /\ op # "selectRun"
  BY <1>2, NoneIsNoRequest DEF ControlInv, Resting, Settled, OnlyReloadsLoad
<1>3. CASE Resume(c)
  <2>1. Quiet
    <3>1. CASE UNCHANGED cacheVars
      BY <1>1, <1>3, <3>1 DEF Resume
    <3>2. CASE SyncActiveToCache(dbtTarget, selectedRunId, runs, loaded)
      BY <1>3, <3>2, QuietSync DEF Resume, Quiet, sessionVars
    <3> QED  BY <1>3, <3>1, <3>2 DEF Resume
  <2>2. \E result \in Settled : FinishSerialized(c, result) \/ Finish(c, result)
    BY <1>3 DEF Resume, Settled
  <2> QED  BY <2>1, <2>2, FinishWork, QuietRefine
<1>4. CASE ReloadDiscovers(c) \/ ReloadCommits(c)
  BY <1>4, ReloadRefine
<1>5. CASE SelectRunDiscovers(c) \/ SelectRunCommits(c)
  BY <1>2, <1>5 DEF SelectRunDiscovers, SelectRunCommits, IsRead
<1>6. CASE AcceptPendingRunDiscovers(c)
  BY <1>6 DEF AcceptPendingRunDiscovers, BelongInv, JobsBelong, Accepting
<1>7. CASE AcceptPendingRunCommits(c)
  BY <1>7 DEF AcceptPendingRunCommits, IsRead, OnlyReloadsLoad, Revalidates, RefreshOps
<1>8. CASE ListRunsDiscovers(c)
  <2>1. Quiet
    BY <1>8, QuietSync DEF ListRunsDiscovers, Quiet
  <2> QED  BY <1>8, <2>1, FinishWork, QuietRefine DEF ListRunsDiscovers, Settled
<1>9. CASE ReadManifest(c) \/ ReadRunResults(c)
  <2>1. UNCHANGED <<sessionVars, cacheVars>>
    BY <1>9 DEF ReadManifest, ReadRunResults
  <2>2. (\A q \in Processes : SameWork(q)) /\ CallsEnd
    BY <1>9, ReadWork DEF CallsEnd
  <2> QED  BY <1>1, <2>1, <2>2, QuietRefine
<1>10. CASE OperationFails(c)
  <2>1. Quiet
    BY <1>10
       DEF OperationFails, ReloadFails, SelectRunFails, AcceptPendingRunFails, ListRunsFails,
           Quiet, sessionVars, cacheVars
  <2>2. \E result \in Settled : FinishSerialized(c, result) \/ Finish(c, result)
    BY <1>10
       DEF OperationFails, ReloadFails, SelectRunFails, AcceptPendingRunFails, ListRunsFails,
           Settled
  <2> QED  BY <2>1, <2>2, FinishWork, QuietRefine
<1> QED
  BY <1>3, <1>4, <1>5, <1>6, <1>7, <1>8, <1>9, <1>10 DEF ContinueOperation

LEMMA InitializeRefine ==
    ASSUME TypeInv, BelongInv, RefineInv, ContinueInitialize
    PROVE  RefineInv'
<1> USE Disjoint DEF TypeInv, RefineInv
<1>1. ASSUME UNCHANGED <<sessionVars, cacheVars>> PROVE Quiet
  BY <1>1 DEF Quiet, sessionVars, cacheVars
<1>2. CASE InitializeDiscovers
  <2>1. Quiet /\ pc[InitJob] = "discovering"
    BY <1>2 DEF InitializeDiscovers, Quiet, sessionVars, cacheVars
  <2>2. CASE \E resumed \in {"initialized", "initFailed"} : SettleInitialize(resumed)
    BY <2>1, <2>2, SettleInitializeWork, QuietRefine
  <2>3. ASSUME NEW run, StartLoading(InitJob, run), selectedRunId' = CurrentRunId
        PROVE  RefineInv'
    <3>1. /\ \A q \in Processes \ {InitJob} : SameWork(q)
          /\ pc'[InitJob] = "loading" /\ call' = call
          /\ job'[InitJob].target = job[InitJob].target
          /\ job'[InitJob].binding = job[InitJob].binding
      BY <2>1, <2>3, StartLoadingWork
    <3>2. ReloadInv'
      BY <2>1, <3>1, QuietReload DEF ReloadInv
    <3>3. OnlyReloadsLoad'
      BY <3>1 DEF OnlyReloadsLoad, SameWork, InFlight, Revalidates
    <3>4. InitInv'
      <4>1. job[InitJob].target \in Targets
        BY <2>1 DEF ControlInv, Job
      <4> QED  BY <2>1, <2>3, <3>1, <4>1 DEF InitInv, InFlight, Quiet
    <3> QED  BY <2>1, <3>2, <3>3, <3>4, QuietCache
  <2> QED  BY <1>2, <2>2, <2>3 DEF InitializeDiscovers
<1>3. CASE InitializeCommits
  <2>1. (\A q \in Processes : SameWork(q)) /\ CallsEnd /\ ~InFlight(InitJob)'
    BY <1>3, SettleInitializeWork DEF InitializeCommits
  <2> QED  BY <1>1, <1>3, <2>1, CommitRefine, QuietRefine DEF InitializeCommits
<1>4. CASE ReadManifest(InitJob) \/ ReadRunResults(InitJob)
  <2>1. UNCHANGED <<sessionVars, cacheVars>>
    BY <1>4 DEF ReadManifest, ReadRunResults
  <2>2. (\A q \in Processes : SameWork(q)) /\ CallsEnd
    BY <1>4, ReadWork DEF CallsEnd
  <2> QED  BY <1>1, <2>1, <2>2, QuietRefine
<1>5. CASE InitializeFails
  <2>1. (\A q \in Processes : SameWork(q)) /\ CallsEnd
    BY <1>5, SettleInitializeWork DEF InitializeFails
  <2> QED  BY <1>1, <1>5, <2>1, QuietRefine DEF InitializeFails
<1> QED  BY <1>2, <1>3, <1>4, <1>5 DEF ContinueInitialize

LEMMA NextRefine ==
    ASSUME "selectRun" \notin Operations
    PROVE  TypeInv /\ BelongInv /\ ExactInv /\ LruInv /\ RefineInv /\ [Next]_vars => RefineInv'
<1> SUFFICES ASSUME TypeInv, BelongInv, ExactInv, LruInv, RefineInv, [Next]_vars
             PROVE  RefineInv'
  OBVIOUS
<1>1. CASE Tick \/ Environment \/ UNCHANGED vars
  <2>1. UNCHANGED controlVars
    BY <1>1 DEF Tick, Environment, vars
  <2>2. Quiet
    BY <1>1 DEF Tick, Environment, vars, Quiet, sessionVars, cacheVars
  <2> QED  BY <2>1, <2>2, UnchangedWork, QuietRefine
<1> QED
  BY <1>1, CallRefine, StartRefine, ContinueRefine, InitializeRefine DEF Next

LEMMA InitRefine == Init => RefineInv
BY Disjoint
   DEF Init, RefineInv, ReloadInv, ReloadIsCurrent, Reloading, OnlyReloadsLoad, InitInv, InFlight,
       NothingCached

-----------------------------------------------------------------------------
(* The refinement, step by step. *)

LEMMA CachedAreFew ==
    ASSUME NEW order, NEW cache, InOrder(order, cache), Len(order) <= MaxCachedTargets
    PROVE  Cardinality({t \in Targets : cache[t] # None}) <= MaxCachedTargets
<1> DEFINE cached == {t \in Targets : cache[t] # None}
           n == Len(order)
           f == [i \in 1 .. n |-> order[i]]
<1>1. /\ n \in Nat /\ n <= MaxCachedTargets /\ MaxCachedTargets \in Nat
      /\ f \in [1 .. n -> cached] /\ \A t \in cached : \E i \in 1 .. n : f[i] = t
  BY WorkspaceAssumption DEF InOrder
<1> HIDE DEF cached, n, f
<1>2. ExistsSurjection(1 .. n, cached)
  BY <1>1 DEF ExistsSurjection, Surjection
<1>3. IsFiniteSet(cached) /\ Cardinality(cached) <= n
  BY <1>1, <1>2, FS_NatSurjection, FS_CountingElements, FS_SurjCardinalityBound
<1>4. Cardinality(cached) \in Nat
  BY <1>3, FS_CardinalityType
<1> QED  BY <1>1, <1>3, <1>4 DEF cached

\* The instance's Cardinality is this module's.
LEMMA SameCardinality == \A S : Session!Cardinality(S) = Cardinality(S)
BY DEF Cardinality, Session!Cardinality

\* What is cached is never taken for nothing.
LEMMA SavedFacts ==
    ASSUME NEW cache, cache \in [Targets -> CacheEntry \cup {None}], NEW t \in Targets
    PROVE  /\ cache[t] # None => cache[t].loaded.run \in Run /\ cache[t].loaded.run # None
BY NoneIsNoRun DEF CacheEntry, Loaded

\* What the abstract session sees of a step that keeps each cached snapshot.
SameSnapshots ==
    \A t \in Targets :
        /\ targetCache'[t] = None <=> targetCache[t] = None
        /\ targetCache[t] # None => targetCache'[t].loaded = targetCache[t].loaded

SameLatest == \A t \in Targets : store'[t].lastRun = store[t].lastRun

LEMMA Stutter ==
    ASSUME UNCHANGED <<dbtTarget, loaded>>, SameSnapshots, SameLatest
    PROVE  UNCHANGED Session!vars
<1>1. RunInUse' = RunInUse
  BY DEF RunInUse
<1>2. SavedRuns' = SavedRuns
  BY DEF SavedRuns, SameSnapshots
<1>3. [t \in Targets |-> store'[t].lastRun] = [t \in Targets |-> store[t].lastRun]
  BY DEF SameLatest
<1> QED  BY <1>1, <1>2, <1>3 DEF Session!vars

\* A snapshot of the bound root is put into use, or kept there, and saved.
LEMMA AdoptStep ==
    ASSUME TypeInv, SessionTypeOK', LruInv, dbtTarget # None,
           NEW s \in Loaded, Listed(s.run), s.run.target = dbtTarget, loaded' = s,
           loaded # None => Session!NotOlder(s.run.token, loaded.run.token),
           dbtTarget' = dbtTarget, store' = store,
           NEW id \in {CurrentRunId}, NEW found \in SUBSET Run,
           SyncActiveToCache(dbtTarget, id, found, s)
    PROVE  Session!Next
<1> DEFINE token == s.run.token
           dropped == {t \in Targets \ {dbtTarget} : targetCache[t] # None /\ targetCache'[t] = None}
           latest == [t \in Targets |-> store[t].lastRun]
<1>1. /\ s # None /\ s.run \in Run /\ s.run # None /\ dbtTarget \in Targets
      /\ s.run = [target |-> dbtTarget, token |-> token] /\ id # None
  <2>1. dbtTarget \in Targets
    BY DEF TypeInv, SessionTypeOK
  <2>2. s.run \in Run
    BY DEF Loaded
  <2>3. s.run = [target |-> dbtTarget, token |-> token]
    BY <2>2 DEF Run
  <2> QED  BY <2>1, <2>2, <2>3, NoneIsNoSnapshot, NoneIsNoRun, NoneIsNoRunId
<1>2. token \in Session!Token
  BY <1>1 DEF Run, Token, Version, Session!Token, Session!Version
<1>3. token.manifest <= latest[dbtTarget] /\ token.runResults <= latest[dbtTarget]
  BY <1>1 DEF Listed, NotNewer, Seen
<1>4. RunInUse' = [target |-> dbtTarget, token |-> token]
  BY <1>1 DEF RunInUse
<1>5. RunInUse # None => Session!NotOlder(token, RunInUse.token)
  BY DEF RunInUse
<1>6. latest' = latest
  OBVIOUS
<1> HIDE DEF token, latest
<1>7. CASE MaxCachedTargets = 0
  <2>1. SavedRuns' = SavedRuns
    BY <1>7 DEF SyncActiveToCache, cacheVars, SavedRuns
  <2>2. Session!Adopt(token)
    BY <1>1, <1>3, <1>4, <1>5, <1>6, <1>7, <2>1 DEF Session!Adopt, latest
  <2> QED  BY <1>2, <2>2 DEF Session!Next
<1>8. CASE MaxCachedTargets # 0
  <2>1. /\ LruInv' /\ targetCache'[dbtTarget] # None /\ targetCache'[dbtTarget].loaded = s
    <3>1. SessionTypeOK
      BY DEF TypeInv
    <3>2. dbtTarget \in Targets \cup {None} /\ s \in Loaded \cup {None} /\ id \in {CurrentRunId, None}
      BY <1>1
    <3> QED  BY <1>1, <1>8, <3>1, <3>2, SyncLru
  <2>2. \A t \in Targets \ {dbtTarget} : targetCache'[t] \in {targetCache[t], None}
    BY <1>1, <1>8 DEF SyncActiveToCache, PutCacheEntry
  <2>3. \A t \in Targets : targetCache'[t] # None =>
            targetCache'[t].loaded.run \in Run /\ targetCache'[t].loaded.run # None
    <3>1. targetCache' \in [Targets -> CacheEntry \cup {None}]
      BY DEF SessionTypeOK
    <3> QED  BY <3>1, SavedFacts
  <2>4. \A t \in Targets : targetCache[t] # None =>
            targetCache[t].loaded.run \in Run /\ targetCache[t].loaded.run # None
    <3>1. targetCache \in [Targets -> CacheEntry \cup {None}]
      BY DEF SessionTypeOK, TypeInv
    <3> QED  BY <3>1, SavedFacts
  <2>5. \A t \in Targets : SavedRuns'[t] = IF t = dbtTarget THEN s.run
                                           ELSE IF t \in dropped THEN None ELSE SavedRuns[t]
    BY <2>1, <2>2 DEF SavedRuns
  <2>6. SavedRuns' = [[t \in Targets |-> IF t \in dropped THEN None ELSE SavedRuns[t]]
                         EXCEPT ![dbtTarget] = RunInUse']
    <3>1. s.run = RunInUse' /\ dbtTarget \notin dropped
      BY <1>1, <1>4
    <3>2. SavedRuns' = [t \in Targets |-> SavedRuns'[t]]
      BY DEF SavedRuns
    <3> HIDE DEF dropped
    <3> QED  BY <2>5, <3>1, <3>2
  <2>7. Cardinality({t \in Targets : SavedRuns'[t] # None}) <= MaxCachedTargets
    <3>1. {t \in Targets : SavedRuns'[t] # None} = {t \in Targets : targetCache'[t] # None}
      BY <2>3 DEF SavedRuns
    <3>2. InOrder(lru', targetCache') /\ Len(lru') <= MaxCachedTargets
      BY <2>1 DEF LruInv, InOrder
    <3>3. Cardinality({t \in Targets : targetCache'[t] # None}) <= MaxCachedTargets
      BY <3>2, CachedAreFew
    <3> QED  BY <3>1, <3>3
  <2>8. MaxCachedTargets > 0
    BY <1>8, WorkspaceAssumption
  <2>9. dropped \in SUBSET (Targets \ {dbtTarget})
    OBVIOUS
  <2> HIDE DEF dropped
  <2>10. Session!Adopt(token)
    BY SameCardinality, <1>1, <1>3, <1>4, <1>5, <1>6, <2>6, <2>7, <2>8, <2>9
       DEF Session!Adopt, Session!Drop, latest
  <2> QED  BY <1>2, <2>10 DEF Session!Next
<1> QED  BY <1>7, <1>8

\* A commit by whoever may make it.
LEMMA CommitStep ==
    ASSUME TypeInv, SessionTypeOK', BelongInv, ExactInv, LruInv, store' = store,
           NEW p \in Processes, IsRead(p), BindingStillActive(p), selectedRunId = CurrentRunId,
           Commit(p, selectedRunId, runs),
           loaded # None => Session!NotOlder(job[p].run.token, loaded.run.token)
    PROVE  Session!Next
<1>1. /\ loaded' \in Loaded /\ loaded'.run = job[p].run /\ dbtTarget' = dbtTarget
      /\ SyncActiveToCache(dbtTarget, selectedRunId, runs, loaded')
  BY CommitFacts
<1>2. Listed(job[p].run)
  BY DEF IsRead, ExactInv, JobsSeen, JobSeen
<1>3. job[p].run.target = dbtTarget /\ dbtTarget # None
  <2>1. job[p] \in Job
    BY DEF IsRead, TypeInv, ControlInv
  <2>2. job[p].run.target = job[p].target /\ job[p].binding.scopeKey = job[p].target
    BY DEF BelongInv, JobsBelong, JobBelongs, IsRead
  <2>3. job[p].binding.scopeKey = dbtTarget
    BY DEF BindingStillActive, IsSessionBindingCurrent
  <2>4. job[p].target \in Targets /\ None \notin Targets
    BY <2>1, StoreAssumption DEF Job
  <2> QED  BY <2>2, <2>3, <2>4
<1>4. runs \in SUBSET Run
  BY DEF TypeInv, SessionTypeOK
<1>5. PICK s \in Loaded : s = loaded'
  BY <1>1
<1>6. PICK id \in {CurrentRunId} : id = selectedRunId
  OBVIOUS
<1>7. SyncActiveToCache(dbtTarget, id, runs, s)
  BY <1>1, <1>5, <1>6
<1>8. /\ Listed(s.run) /\ s.run.target = dbtTarget
      /\ loaded # None => Session!NotOlder(s.run.token, loaded.run.token)
  BY <1>1, <1>2, <1>3, <1>5
<1> QED  BY <1>1, <1>3, <1>4, <1>5, <1>7, <1>8, AdoptStep

\* syncActiveToCache of what is in use, if anything.
LEMMA SyncStep ==
    ASSUME TypeInv, SessionTypeOK', BelongInv, ExactInv, LruInv,
           UNCHANGED <<dbtTarget, loaded, store>>,
           NEW found \in SUBSET Run, SyncActiveToCache(dbtTarget, selectedRunId, found, loaded)
    PROVE  Session!Next \/ UNCHANGED Session!vars
<1>1. CASE dbtTarget = None \/ loaded = None \/ selectedRunId = None
  <2>1. targetCache' = targetCache
    BY <1>1 DEF SyncActiveToCache, cacheVars
  <2> QED  BY <2>1, Stutter DEF SameSnapshots, SameLatest
<1>2. CASE dbtTarget # None /\ loaded # None /\ selectedRunId # None
  <2>1. loaded \in Loaded /\ selectedRunId \in {CurrentRunId}
    BY <1>2 DEF TypeInv, SessionTypeOK
  <2>2. Listed(loaded.run) /\ loaded.run.target = dbtTarget
    BY <1>2 DEF ExactInv, LoadedSeen, SnapshotSeen, BelongInv, LoadedBelongsToTarget
  <2>3. Session!NotOlder(loaded.run.token, loaded.run.token)
    BY <2>1, StoreAssumption DEF Loaded, Run, Token, Version, Session!NotOlder
  <2>4. PICK s \in Loaded : s = loaded
    BY <2>1
  <2>5. PICK id \in {CurrentRunId} : id = selectedRunId
    BY <2>1
  <2> QED  BY <1>2, <2>2, <2>3, <2>4, <2>5, AdoptStep
<1> QED  BY <1>1, <1>2

\* A root is bound with what is left in the cache for it.
LEMMA BindStep ==
    ASSUME SessionTypeOK, SessionTypeOK', NEW t \in Targets, dbtTarget' = t, store' = store,
           \A u \in Targets : \/ targetCache'[u] = None
                              \/ /\ targetCache[u] # None /\ targetCache'[u] # None
                                 /\ targetCache'[u].loaded = targetCache[u].loaded,
           targetCache'[t] = None => loaded' = None,
           targetCache'[t] # None => loaded' = targetCache'[t].loaded
    PROVE  Session!Bind(t)
<1> DEFINE dropped == {u \in Targets : targetCache'[u] = None}
<1>1. \A u \in Targets : SavedRuns'[u] = IF u \in dropped THEN None ELSE SavedRuns[u]
  BY DEF SavedRuns
<1>2. SavedRuns' = [u \in Targets |-> IF u \in dropped THEN None ELSE SavedRuns[u]]
  <2>1. SavedRuns' = [u \in Targets |-> SavedRuns'[u]]
    BY DEF SavedRuns
  <2> HIDE DEF dropped
  <2> QED  BY <1>1, <2>1
<1>3. RunInUse' = SavedRuns'[t]
  <2>1. CASE targetCache'[t] = None
    BY <2>1 DEF RunInUse, SavedRuns
  <2>2. CASE targetCache'[t] # None
    <3>1. targetCache'[t].loaded \in Loaded
      BY <2>2 DEF SessionTypeOK, CacheEntry
    <3> QED  BY <2>2, <3>1, NoneIsNoSnapshot DEF RunInUse, SavedRuns
  <2> QED  BY <2>1, <2>2
<1>4. dropped \in SUBSET Targets
  OBVIOUS
<1> HIDE DEF dropped
<1> QED  BY <1>2, <1>3, <1>4 DEF Session!Bind, Session!Drop

LEMMA PublishStep ==
    ASSUME TypeInv, NEW t \in Targets, PublishManifest(t), UNCHANGED <<sessionVars, cacheVars>>
    PROVE  Session!Publish(t)
<1> DEFINE latest == [u \in Targets |-> store[u].lastRun]
<1>1. latest' = [latest EXCEPT ![t] = @ + 1]
  <2>1. \A u \in Targets : store'[u].lastRun = IF u = t THEN store[u].lastRun + 1 ELSE store[u].lastRun
    BY DEF PublishManifest, TypeInv, StoreTypeOK, Contents
  <2>2. latest' = [u \in Targets |-> IF u = t THEN store[u].lastRun + 1 ELSE store[u].lastRun]
    BY <2>1
  <2> QED  BY <2>2
<1>2. RunInUse' = RunInUse /\ SavedRuns' = SavedRuns /\ dbtTarget' = dbtTarget
  BY DEF RunInUse, SavedRuns, sessionVars, cacheVars
<1>3. latest[t] < MaxRuns
  BY DEF PublishManifest
<1> HIDE DEF latest
<1> QED  BY <1>1, <1>2, <1>3 DEF Session!Publish, latest

LEMMA Unseen ==
    ASSUME UNCHANGED <<dbtTarget, loaded, targetCache, store>>
    PROVE  UNCHANGED Session!vars
BY Stutter DEF SameSnapshots, SameLatest

LEMMA CallStep ==
    ASSUME NEW c \in Callers, Call(c)
    PROVE  UNCHANGED Session!vars
<1>1. UNCHANGED <<storeVars, sessionVars, cacheVars>>
  BY DEF Call, CallSerialized, CallRefresh, CallInitialize, CallListRuns
<1> QED  BY <1>1, Unseen DEF storeVars, sessionVars, cacheVars

LEMMA ExpiryDrops ==
    \A t \in Targets : Unexpired[t] = None \/ (Unexpired[t] = targetCache[t] /\ targetCache[t] # None)
BY DEF Unexpired

LEMMA StartStep ==
    ASSUME TypeInv, SessionTypeOK', LruInv, NEW c \in Callers, StartOperation(c)
    PROVE  Session!Next \/ UNCHANGED Session!vars
<1> DEFINE t == call[c].target
<1>1. CASE StartSetCachedTarget(c)
  <2>1. /\ t # None /\ Unexpired[t] # None /\ dbtTarget' = t /\ store' = store
        /\ loaded' = Unexpired[t].loaded /\ targetCache' = [Unexpired EXCEPT ![t].idle = 0]
    BY <1>1 DEF StartSetCachedTarget, storeVars
  <2>2. t \in Targets
    BY <1>1, <2>1
       DEF StartSetCachedTarget, Starts, TypeInv, ControlInv, Request, Resting, Settled
  <2> HIDE DEF t
  <2>3. Unexpired[t] \in CacheEntry
    BY <2>1, <2>2, ExpiryDrops DEF TypeInv, SessionTypeOK
  <2>4. targetCache'[t] # None /\ targetCache'[t].loaded = Unexpired[t].loaded
    <3>1. Unexpired \in [Targets -> CacheEntry \cup {None}]
      BY DEF Unexpired, TypeInv, SessionTypeOK
    <3>2. targetCache'[t] = [Unexpired[t] EXCEPT !.idle = 0]
      BY <2>1, <2>2, <3>1
    <3>3. targetCache'[t] \in CacheEntry
      BY <2>3, <3>2, WorkspaceAssumption DEF CacheEntry
    <3> QED  BY <2>3, <3>2, <3>3, NoneIsNoSnapshot DEF CacheEntry
  <2>5. \A u \in Targets : u # t => targetCache'[u] = Unexpired[u]
    BY <2>1 DEF Unexpired
  <2>6. \A u \in Targets : \/ targetCache'[u] = None
                           \/ /\ targetCache[u] # None /\ targetCache'[u] # None
                              /\ targetCache'[u].loaded = targetCache[u].loaded
    BY <2>1, <2>2, <2>4, <2>5, ExpiryDrops
  <2>7. Session!Bind(t)
    BY <2>1, <2>2, <2>4, <2>6, BindStep DEF TypeInv
  <2> QED  BY <2>2, <2>7 DEF Session!Next
<1>2. CASE StartSetNewTarget(c)
  <2>1. /\ t # None /\ dbtTarget' = t /\ store' = store /\ loaded' = None
        /\ targetCache' = Unexpired /\ (MaxCachedTargets = 0 \/ Unexpired[t] = None)
    BY <1>2 DEF StartSetNewTarget, storeVars
  <2>2. t \in Targets
    BY <1>2, <2>1
       DEF StartSetNewTarget, Starts, TypeInv, ControlInv, Request, Resting, Settled
  <2> HIDE DEF t
  <2>3. Unexpired[t] = None
    <3>1. CASE MaxCachedTargets = 0
      <4>1. Len(lru) = 0
        BY <3>1 DEF LruInv, InOrder
      <4>2. targetCache[t] = None
        BY <2>2, <4>1 DEF LruInv, InOrder
      <4> QED  BY <2>2, <4>2, ExpiryDrops
    <3> QED  BY <2>1, <3>1
  <2>4. Session!Bind(t)
    BY <2>1, <2>2, <2>3, ExpiryDrops, BindStep DEF TypeInv
  <2> QED  BY <2>2, <2>4 DEF Session!Next
<1>3. CASE StartUnsetTarget(c)
  <2>1. dbtTarget' = None /\ loaded' = None /\ UNCHANGED <<store, targetCache>>
    BY <1>3 DEF StartUnsetTarget, storeVars, cacheVars
  <2>2. Session!Unbind
    BY <2>1 DEF Session!Unbind, RunInUse, SavedRuns
  <2> QED  BY <2>2 DEF Session!Next
<1>4. CASE StartClearCachedTargets(c)
  <2>1. /\ loaded' = None /\ targetCache' = [u \in Targets |-> None]
        /\ UNCHANGED <<dbtTarget, store>>
    BY <1>4 DEF StartClearCachedTargets, storeVars
  <2>2. Session!Clear
    BY <2>1 DEF Session!Clear, Session!Drop, RunInUse, SavedRuns
  <2> QED  BY <2>2 DEF Session!Next
<1>5. CASE \/ StartSetBlankTarget(c) \/ StartRefresh(c) \/ StartGetLoadedWorkspace(c)
           \/ StartSelectRun(c) \/ StartAcceptPendingRun(c)
  <2>1. UNCHANGED <<storeVars, sessionVars, cacheVars>>
    BY <1>5
       DEF StartSetBlankTarget, StartRefresh, StartGetLoadedWorkspace, StartSelectRun,
           StartAcceptPendingRun
  <2> QED  BY <2>1, Unseen DEF storeVars, sessionVars, cacheVars
<1> QED  BY <1>1, <1>2, <1>3, <1>4, <1>5 DEF StartOperation

LEMMA InitializeStep ==
    ASSUME TypeInv, SessionTypeOK', BelongInv, ExactInv, LruInv, RefineInv, ContinueInitialize
    PROVE  Session!Next \/ UNCHANGED Session!vars
<1>1. CASE InitializeDiscovers
  <2>1. UNCHANGED <<dbtTarget, loaded, targetCache, store>>
    BY <1>1 DEF InitializeDiscovers, storeVars, sessionVars, cacheVars
  <2> QED  BY <2>1, Unseen
<1>2. CASE InitializeCommits /\ ~BindingStillActive(InitJob)
  <2>1. UNCHANGED <<storeVars, sessionVars, cacheVars>>
    BY <1>2 DEF InitializeCommits
  <2> QED  BY <2>1, Unseen DEF storeVars, sessionVars, cacheVars
<1>3. CASE InitializeCommits /\ BindingStillActive(InitJob)
  <2>1. IsRead(InitJob) /\ Commit(InitJob, selectedRunId, runs) /\ store' = store
    BY <1>3 DEF InitializeCommits, storeVars
  <2>2. loaded = None /\ selectedRunId = CurrentRunId
    BY <1>3, <2>1
       DEF RefineInv, InitInv, IsRead, InFlight, BindingStillActive, IsSessionBindingCurrent,
           BelongInv, JobsBelong, JobBelongs, Processes
  <2> QED  BY <1>3, <2>1, <2>2, CommitStep DEF Processes
<1>4. CASE ReadManifest(InitJob) \/ ReadRunResults(InitJob)
  <2>1. UNCHANGED <<storeVars, sessionVars, cacheVars>>
    BY <1>4 DEF ReadManifest, ReadRunResults
  <2> QED  BY <2>1, Unseen DEF storeVars, sessionVars, cacheVars
<1>5. CASE RequestFails(InitJob) /\ InitializeFails
  <2>1. UNCHANGED <<dbtTarget, loaded, targetCache, store>>
    BY <1>5 DEF RequestFails, RequestFault, InitializeFails, storeVars, sessionVars, cacheVars
  <2> QED  BY <2>1, Unseen
<1> QED  BY <1>1, <1>2, <1>3, <1>4, <1>5 DEF ContinueInitialize

LEMMA ContinueStep ==
    ASSUME TypeInv, SessionTypeOK', BelongInv, ExactInv, LruInv, RefineInv,
           NEW c \in Callers, ContinueOperation(c)
    PROVE  Session!Next \/ UNCHANGED Session!vars
<1>1. CASE Resume(c)
  <2>1. UNCHANGED <<dbtTarget, loaded, store>>
    BY <1>1 DEF Resume, storeVars, sessionVars
  <2>2. CASE UNCHANGED cacheVars
    BY <2>1, <2>2, Unseen DEF cacheVars
  <2>3. CASE SyncActiveToCache(dbtTarget, selectedRunId, runs, loaded)
    <3>1. runs \in SUBSET Run
      BY DEF TypeInv, SessionTypeOK
    <3> QED  BY <2>1, <2>3, <3>1, SyncStep
  <2> QED  BY <1>1, <2>2, <2>3 DEF Resume
<1>2. CASE ListRunsDiscovers(c)
  <2>1. UNCHANGED <<dbtTarget, loaded, store>>
    BY <1>2 DEF ListRunsDiscovers, storeVars
  <2>2. runs' \in SUBSET Run /\ SyncActiveToCache(dbtTarget, selectedRunId, runs', loaded)
    BY <1>2 DEF ListRunsDiscovers, SessionTypeOK
  <2>3. PICK found \in SUBSET Run : found = runs'
    BY <2>2
  <2>4. SyncActiveToCache(dbtTarget, selectedRunId, found, loaded)
    BY <2>2, <2>3
  <2> QED  BY <2>1, <2>4, SyncStep
<1>3. CASE ReloadCommits(c) /\ BindingStillActive(c)
  <2>1. IsRead(c) /\ Revalidates(c) /\ Commit(c, selectedRunId, runs) /\ store' = store
    BY <1>3 DEF ReloadCommits, storeVars
  <2>2. /\ selectedRunId = CurrentRunId
        /\ Session!NotOlder(job[c].run.token, loaded.run.token)
    BY <2>1 DEF RefineInv, ReloadInv, ReloadIsCurrent, Reloading, InFlight, IsRead
  <2> QED  BY <1>3, <2>1, <2>2, CommitStep DEF Processes
<1>4. CASE ReloadCommits(c) /\ ~BindingStillActive(c)
  <2>1. UNCHANGED <<storeVars, sessionVars, cacheVars>>
    BY <1>4 DEF ReloadCommits
  <2> QED  BY <2>1, Unseen DEF storeVars, sessionVars, cacheVars
<1>5. CASE \/ ReloadDiscovers(c) \/ SelectRunDiscovers(c) \/ AcceptPendingRunDiscovers(c)
           \/ ReadManifest(c) \/ ReadRunResults(c)
  <2>1. UNCHANGED <<dbtTarget, loaded, targetCache, store>>
    BY <1>5
       DEF ReloadDiscovers, SelectRunDiscovers, AcceptPendingRunDiscovers, ReadManifest,
           ReadRunResults, storeVars, sessionVars, cacheVars
  <2> QED  BY <2>1, Unseen
<1>6. CASE RequestFails(c) /\ OperationFails(c)
  <2>1. UNCHANGED <<dbtTarget, loaded, targetCache, store>>
    BY <1>6
       DEF RequestFails, RequestFault, OperationFails, ReloadFails, SelectRunFails,
           AcceptPendingRunFails, ListRunsFails, storeVars, sessionVars, cacheVars
  <2> QED  BY <2>1, Unseen
<1>7. ~SelectRunCommits(c) /\ ~AcceptPendingRunCommits(c)
  <2>1. SelectRunCommits(c) \/ AcceptPendingRunCommits(c) => pc[c] = "loading" /\ ~Revalidates(c)
    BY DEF SelectRunCommits, AcceptPendingRunCommits, IsRead, Revalidates, RefreshOps
  <2> QED  BY <2>1 DEF RefineInv, OnlyReloadsLoad
<1> QED  BY <1>1, <1>2, <1>3, <1>4, <1>5, <1>6, <1>7 DEF ContinueOperation

LEMMA EnvironmentStep ==
    ASSUME TypeInv, Environment
    PROVE  Session!Next \/ UNCHANGED Session!vars
<1>1. UNCHANGED <<sessionVars, cacheVars>>
  BY DEF Environment
<1>2. ASSUME NEW t \in Targets, PublishManifest(t)
      PROVE  Session!Next
  BY <1>1, <1>2, PublishStep DEF Session!Next
<1>3. ASSUME NEW t \in Targets, PublishRunResults(t) \/ RemoveArtifacts(t)
      PROVE  UNCHANGED Session!vars
  <2>1. SameLatest
    BY <1>3 DEF PublishRunResults, RemoveArtifacts, SameLatest, TypeInv, StoreTypeOK, Contents
  <2> QED  BY <1>1, <2>1, Stutter DEF SameSnapshots, sessionVars, cacheVars
<1> QED  BY <1>2, <1>3 DEF Environment, StoreNext

LEMMA TickStep ==
    ASSUME TypeInv, Tick
    PROVE  UNCHANGED Session!vars
<1>1. ASSUME NEW t \in Targets
      PROVE  /\ targetCache'[t] = None <=> targetCache[t] = None
             /\ targetCache[t] # None => targetCache'[t].loaded = targetCache[t].loaded
  <2>1. CASE targetCache[t] = None
    BY <2>1 DEF Tick
  <2>2. CASE targetCache[t] # None
    <3>1. targetCache[t] \in CacheEntry
      BY <2>2 DEF TypeInv, SessionTypeOK
    <3>2. PICK idle : /\ idle = IF targetCache[t].idle > CacheTtl THEN targetCache[t].idle
                                ELSE targetCache[t].idle + 1
                      /\ targetCache'[t] = [targetCache[t] EXCEPT !.idle = idle]
      BY <2>2 DEF Tick
    <3>3. idle \in 0 .. CacheTtl + 1
      BY <3>1, <3>2, WorkspaceAssumption DEF CacheEntry
    <3>4. targetCache'[t] \in CacheEntry /\ targetCache'[t].loaded = targetCache[t].loaded
      BY <3>1, <3>2, <3>3 DEF CacheEntry
    <3> QED  BY <2>2, <3>4, NoneIsNoSnapshot
  <2> QED  BY <2>1, <2>2
<1>2. UNCHANGED <<dbtTarget, loaded, store>>
  BY DEF Tick, sessionVars, storeVars
<1> QED  BY <1>1, <1>2, Stutter DEF SameSnapshots, SameLatest

LEMMA NextImplements ==
    TypeInv /\ TypeInv' /\ BelongInv /\ ExactInv /\ LruInv /\ RefineInv /\ [Next]_vars
        => [Session!Next]_(Session!vars)
<1> SUFFICES ASSUME TypeInv, TypeInv', BelongInv, ExactInv, LruInv, RefineInv, [Next]_vars
             PROVE  Session!Next \/ UNCHANGED Session!vars
  OBVIOUS
<1>1. SessionTypeOK'
  BY DEF TypeInv
<1>2. CASE UNCHANGED vars
  BY <1>2, Unseen DEF vars, storeVars, sessionVars, cacheVars
<1> QED
  BY <1>1, <1>2, CallStep, StartStep, ContinueStep, InitializeStep, EnvironmentStep, TickStep
     DEF Next

LEMMA InitImplements == Init => Session!Init
<1> SUFFICES ASSUME Init PROVE Session!Init
  OBVIOUS
<1>1. RunInUse = None /\ SavedRuns = [t \in Targets |-> None]
  BY DEF Init, RunInUse, SavedRuns
<1>2. dbtTarget \in Targets \cup {None}
  BY DEF Init
<1>3. [t \in Targets |-> store[t].lastRun] \in [Targets -> Session!Version]
  BY InitTypeInv DEF TypeInv, StoreTypeOK, Contents, Version, Session!Version
<1> QED  BY <1>1, <1>2, <1>3 DEF Session!Init

\* Whatever is queued, loading, polled, expired or failing, what a user of the
\* workspace sees is an ArtifactSession: the bound root, the snapshot in use and
\* the saved snapshots only change as if by its operations, one at a time, and
\* the snapshot in use of a root never goes back to an older version.
THEOREM ImplementsSessionAlways ==
    ASSUME AutoReloadOnPoll, "selectRun" \notin Operations
    PROVE  Spec => ImplementsSession
<1>1. Init => BelongInv /\ ExactInv /\ LruInv
  BY InitKeys, InitSeen, WorkspaceAssumption DEF Init, LruInv, InOrder
<1> QED
  BY <1>1, InitTypeInv, NextTypeInv, NextBelongs, NextSeen, NextLru, InitRefine, NextRefine,
     InitImplements, NextImplements, PTL
     DEF Spec, ImplementsSession, Session!Spec

-----------------------------------------------------------------------------
(* What is listed.  runs is what was last discovered at the bound root; when  *)
(* it is not the snapshot in use, that is reported, or whoever found out is   *)
(* loading it.                                                                *)

LoadListed(p) == pc[p] = "loading" /\ BindingStillActive(p) => runs = {job[p].run}

ListedInv ==
    /\ \A p \in Processes : LoadListed(p)
    /\ loaded # None => runs = {loaded.run} \/ stale \/ \E c \in Callers : Reloading(c)

\* No load starts, and none is for another run or binding than it was.
LoadsGoOn ==
    \A p \in Processes :
        pc'[p] = "loading" =>
            /\ pc[p] = "loading"
            /\ job'[p].run = job[p].run
            /\ job'[p].binding = job[p].binding

ReloadsGoOn == \A c \in Callers : Reloading(c) => Reloading(c)'

LEMMA WorkGoesOn ==
    ASSUME NEW started \in SUBSET Processes, \A p \in Processes \ started : SameWork(p),
           \A p \in started : pc'[p] # "loading"
    PROVE  LoadsGoOn
BY DEF LoadsGoOn, SameWork, InFlight

LEMMA FinishGoesOn ==
    ASSUME ControlInv, NEW c \in Callers, NEW result \in Settled,
           FinishSerialized(c, result) \/ Finish(c, result)
    PROVE  LoadsGoOn /\ \A x \in Callers : Reloading(x) => x = c \/ Reloading(x)'
<1> USE Disjoint DEF ControlInv, ControlTypeOK
<1>1. LoadsGoOn
  BY FinishWork DEF LoadsGoOn, SameWork, InFlight
<1>2. \A x \in Callers \ {c} : InFlight(x) => pc'[x] = pc[x] /\ call'[x] = call[x]
  BY DEF FinishSerialized, Finish, InFlight
<1>3. \A x \in Callers : Reloading(x) => x = c \/ Reloading(x)'
  BY <1>2 DEF Reloading, InFlight, Revalidates
<1> QED  BY <1>1, <1>3

LEMMA QuietListed ==
    ASSUME ListedInv, UNCHANGED <<dbtTarget, loadGeneration, runs, loaded>>, stale => stale',
           LoadsGoOn, stale' \/ ReloadsGoOn
    PROVE  ListedInv'
<1>1. ASSUME NEW p \in Processes PROVE LoadListed(p)'
  BY DEF ListedInv, LoadListed, LoadsGoOn, BindingStillActive, IsSessionBindingCurrent
<1>2. loaded' # None =>
          runs' = {loaded'.run} \/ stale' \/ \E c \in Callers : Reloading(c)'
  BY DEF ListedInv, ReloadsGoOn
<1> QED  BY <1>1, <1>2 DEF ListedInv

\* A new binding: no load in flight is under it.
LEMMA RebindListed ==
    ASSUME TypeInv, BelongInv, RefineInv, NEW c \in Callers, \A x \in Callers : ~Reloading(x),
           \/ loadGeneration' = loadGeneration + 1 /\ loaded' = None
           \/ /\ loadGeneration' = loadGeneration
              /\ dbtTarget' \in Targets /\ targetCache[dbtTarget'] # None
              /\ Reloading(c)',
           LoadsGoOn
    PROVE  ListedInv'
<1>1. ASSUME NEW p \in Processes PROVE LoadListed(p)'
  <2> SUFFICES ASSUME pc'[p] = "loading", BindingStillActive(p)' PROVE FALSE
    BY DEF LoadListed
  <2>1. pc[p] = "loading" /\ job'[p].binding = job[p].binding
    BY DEF LoadsGoOn
  <2>2. p = InitJob
    BY <2>1 DEF RefineInv, OnlyReloadsLoad, Reloading, InFlight, Processes
  <2>3. /\ job[InitJob].binding.epoch \in Nat /\ loadGeneration \in Nat
        /\ job[InitJob].binding.scopeKey = job[InitJob].target
    BY <2>1, <2>2
       DEF TypeInv, ControlInv, SessionTypeOK, Job, Binding, BelongInv, JobsBelong, JobBelongs
  <2>4. /\ job[InitJob].binding.epoch <= loadGeneration
        /\ job[InitJob].binding.epoch = loadGeneration =>
              targetCache[job[InitJob].target] = None
    BY <2>1, <2>2 DEF RefineInv, InitInv, InFlight
  <2>5. /\ job[InitJob].binding.epoch = loadGeneration'
        /\ job[InitJob].binding.scopeKey = dbtTarget'
    BY <2>1, <2>2 DEF BindingStillActive, IsSessionBindingCurrent
  <2> QED  BY <2>3, <2>4, <2>5
<1>2. loaded' # None => \E x \in Callers : Reloading(x)'
  OBVIOUS
<1> QED  BY <1>1, <1>2 DEF ListedInv

LEMMA CallListed ==
    ASSUME TypeInv, ListedInv, "listRuns" \notin Operations, NEW c \in Callers, Call(c)
    PROVE  ListedInv'
<1> USE Disjoint DEF TypeInv, ControlInv, ControlTypeOK
<1>1. UNCHANGED <<dbtTarget, loadGeneration, runs, loaded, stale>>
  BY DEF Call, CallSerialized, CallRefresh, CallInitialize, CallListRuns, sessionVars
<1>2. PICK request \in Requests(c) :
         \/ CallSerialized(c, request)
         \/ CallRefresh(c, request)
         \/ CallInitialize(c, request)
         \/ CallListRuns(c, request)
  BY DEF Call
<1>3. UNCHANGED call \/ call' = [call EXCEPT ![c] = request]
  BY <1>2 DEF CallSerialized, CallRefresh, CallInitialize, CallListRuns
<1>4. /\ pc[c] \in Resting
      /\ \A x \in Callers : x # c => pc'[x] = pc[x] /\ call'[x] = call[x]
  <2>1. pc[c] \in Resting /\ \A x \in Callers : x # c => call'[x] = call[x]
    BY <1>3 DEF Call
  <2>2. ASSUME NEW x \in Callers, x # c PROVE pc'[x] = pc[x]
    BY <1>2, <2>2
       DEF CallSerialized, CallRefresh, CallInitialize, CallListRuns, EnsureInitialized, Discover
  <2> QED  BY <2>1, <2>2
<1>5. ReloadsGoOn
  BY <1>4 DEF ReloadsGoOn, Reloading, InFlight, Revalidates, Resting, Settled
<1>6. LoadsGoOn
  <2>1. CASE CallSerialized(c, request) \/ CallRefresh(c, request)
    BY <2>1 DEF CallSerialized, CallRefresh, LoadsGoOn
  <2>2. CASE CallInitialize(c, request)
    <3>1. CASE UNCHANGED job
      BY <2>2, <3>1 DEF CallInitialize, EnsureInitialized, LoadsGoOn
    <3>2. CASE job' # job
      <4>1. EnsureInitialized(c, dbtTarget, loadGeneration)
        BY <2>2, <3>2 DEF CallInitialize
      <4>2. /\ \A p \in Callers : SameWork(p)
            /\ SameWork(InitJob) \/ pc'[InitJob] # "loading"
        BY <1>4, <4>1, EnsureInitializedWork
      <4> QED  BY <4>2 DEF LoadsGoOn, SameWork, InFlight
    <3> QED  BY <3>1, <3>2
  <2>3. ~CallListRuns(c, request)
    BY DEF CallListRuns, Requests
  <2> QED  BY <1>2, <2>1, <2>2, <2>3
<1> QED  BY <1>1, <1>5, <1>6, QuietListed

LEMMA StartListed ==
    ASSUME TypeInv, BelongInv, RefineInv, ListedInv, NEW c \in Callers, StartOperation(c)
    PROVE  ListedInv'
<1> USE Disjoint DEF TypeInv
<1>1. \A x \in Callers : ~Reloading(x)
  BY StartsAlone
     DEF StartOperation, StartSetBlankTarget, StartSetCachedTarget, StartSetNewTarget,
         StartUnsetTarget, StartClearCachedTargets, StartRefresh, StartGetLoadedWorkspace,
         StartSelectRun, StartAcceptPendingRun
<1>2. ReloadsGoOn
  BY <1>1 DEF ReloadsGoOn
<1>3. LoadsGoOn
  <2>1. CASE \E result \in Settled : FinishSerialized(c, result)
    BY <2>1, FinishGoesOn
  <2>2. CASE \E t, run : Discover(c, t, run) /\ UNCHANGED call
    <3>1. \A p \in Processes \ {c} : SameWork(p)
      BY <2>2, DiscoverWork
    <3>2. pc'[c] # "loading"
      BY <2>2, DiscoverWork
    <3> QED  BY <3>1, <3>2 DEF LoadsGoOn, SameWork, InFlight
  <2>3. CASE \E t, epoch : EnsureInitialized(c, t, epoch) /\ UNCHANGED call
    <3>1. /\ \A p \in Callers : SameWork(p)
          /\ SameWork(InitJob) \/ pc'[InitJob] # "loading"
      BY <2>3, EnsureInitializedWork
    <3> QED  BY <3>1 DEF LoadsGoOn, SameWork, InFlight
  <2> QED
    BY <2>1, <2>2, <2>3
       DEF StartOperation, StartSetBlankTarget, StartSetCachedTarget, StartSetNewTarget,
           StartUnsetTarget, StartClearCachedTargets, StartRefresh, StartGetLoadedWorkspace,
           StartSelectRun, StartAcceptPendingRun, Settled
<1>4. CASE StartSetCachedTarget(c)
  <2>1. /\ call[c].target \in Targets /\ Unexpired[call[c].target] # None
        /\ call[c].op = "setTarget" /\ call' = call
        /\ dbtTarget' = call[c].target /\ loadGeneration' = loadGeneration
        /\ pc'[c] = "discovering"
    BY <1>4, StartsFacts, DiscoverWork DEF StartSetCachedTarget, Request
  <2>2. targetCache[call[c].target] # None
    BY <2>1, ExpiryDrops
  <2>3. Reloading(c)'
    BY <2>1 DEF Reloading, InFlight, Revalidates
  <2> QED  BY <1>1, <1>3, <2>1, <2>2, <2>3, RebindListed
<1>5. CASE StartSetNewTarget(c) \/ StartUnsetTarget(c) \/ StartClearCachedTargets(c)
  <2>1. loadGeneration' = loadGeneration + 1 /\ loaded' = None
    BY <1>5 DEF StartSetNewTarget, StartUnsetTarget, StartClearCachedTargets
  <2> QED  BY <1>1, <1>3, <2>1, RebindListed
<1>6. CASE \/ StartSetBlankTarget(c) \/ StartRefresh(c) \/ StartGetLoadedWorkspace(c)
           \/ StartSelectRun(c) \/ StartAcceptPendingRun(c)
  <2>1. UNCHANGED <<dbtTarget, loadGeneration, runs, loaded, stale>>
    BY <1>6
       DEF StartSetBlankTarget, StartRefresh, StartGetLoadedWorkspace, StartSelectRun,
           StartAcceptPendingRun, sessionVars
  <2> QED  BY <1>2, <1>3, <2>1, QuietListed
<1> QED  BY <1>4, <1>5, <1>6 DEF StartOperation

LEMMA OneIsDiscovered ==
    ASSUME NEW t, NEW run \in DiscoveredRuns(t)
    PROVE  DiscoveredRuns(t) = {run} /\ run.target = t
BY DEF DiscoveredRuns

LEMMA CommitListed ==
    ASSUME TypeInv, ListedInv, NEW p \in Processes, IsRead(p), BindingStillActive(p),
           Commit(p, selectedRunId, runs), LoadsGoOn
    PROVE  ListedInv'
<1>1. loaded'.run = job[p].run /\ UNCHANGED <<dbtTarget, loadGeneration, runs>>
  BY CommitFacts DEF Commit
<1>2. runs' = {loaded'.run}
  BY <1>1 DEF ListedInv, LoadListed, IsRead
<1>3. ASSUME NEW q \in Processes PROVE LoadListed(q)'
  BY <1>1 DEF ListedInv, LoadListed, LoadsGoOn, BindingStillActive, IsSessionBindingCurrent
<1> QED  BY <1>2, <1>3 DEF ListedInv

LEMMA ReloadListed ==
    ASSUME TypeInv, BelongInv, RefineInv, ListedInv, NEW c \in Callers, ReloadDiscovers(c)
    PROVE  ListedInv'
<1> USE Disjoint DEF TypeInv, RefineInv
<1> DEFINE found == DiscoveredRuns(job[c].target)
<1>1. /\ Reloading(c) /\ pc[c] = "discovering" /\ Head(queue) = c
      /\ UNCHANGED <<dbtTarget, loadGeneration, loaded>>
  <2>1. /\ Reloading(c) /\ pc[c] = "discovering"
        /\ UNCHANGED <<dbtTarget, loadGeneration, loaded>>
    BY DEF ReloadDiscovers, Reloading, InFlight, sessionVars
  <2>2. OnChain(c)
    BY <2>1 DEF Reloading, Revalidates, OnChain, RefreshOps
  <2> QED  BY <2>1, <2>2 DEF ControlInv
<1>2. /\ BindingStillActive(c) /\ loaded # None /\ job[c].run = loaded.run
      /\ job[c].target = loaded.run.target
  BY <1>1
     DEF ReloadInv, ReloadIsCurrent, BelongInv, JobsBelong, JobBelongs, LoadedBelongsToTarget,
         BindingStillActive, IsSessionBindingCurrent
\* Nobody else may commit a load: c alone compares, and nothing is initialized
\* under a binding that has a snapshot.
<1>3. ASSUME NEW p \in Processes, p # c, pc[p] = "loading" PROVE ~BindingStillActive(p)
  <2>1. p \notin Callers
    BY <1>1, <1>3, AloneOnChain DEF OnlyReloadsLoad, Reloading, InFlight
  <2>2. p = InitJob
    BY <2>1 DEF Processes
  <2> QED
    BY <1>2, <1>3, <2>2
       DEF InitInv, InFlight, BindingStillActive, IsSessionBindingCurrent, BelongInv, JobsBelong,
           JobBelongs
<1>4. ASSUME LoadsGoOn, NEW p \in Processes PROVE LoadListed(p)'
  BY <1>1, <1>3, <1>4
     DEF LoadListed, LoadsGoOn, BindingStillActive, IsSessionBindingCurrent
<1>5. CASE found = {} /\ FinishSerialized(c, "returned")
  <2>1. stale'
    BY <1>2, <1>5 DEF ReloadDiscovers, RecordRefreshError
  <2> QED  BY <1>4, <1>5, <2>1, FinishGoesOn DEF ListedInv, Settled
<1>6. ASSUME NEW run \in found, runs' = found, FinishSerialized(c, "returned"),
             run.token = job[c].run.token \/ stale'
      PROVE  ListedInv'
  <2>1. found = {run} /\ run.target = loaded.run.target
    BY <1>2, <1>6, OneIsDiscovered
  <2>2. run.token = job[c].run.token => run = loaded.run
    BY <1>2, <1>6, <2>1 DEF DiscoveredRuns, SessionTypeOK, Loaded, Run
  <2>3. runs' = {loaded'.run} \/ stale'
    BY <1>1, <1>6, <2>1, <2>2
  <2> QED  BY <1>4, <1>6, <2>3, FinishGoesOn DEF ListedInv, Settled
<1>7. ASSUME NEW run \in found, runs' = found, StartLoading(c, run) PROVE ListedInv'
  <2>1. /\ \A q \in Processes \ {c} : SameWork(q)
        /\ pc'[c] = "loading" /\ job'[c].run = run /\ call' = call
    BY <1>1, <1>7, StartLoadingWork
  <2>2. found = {run}
    BY <1>7, OneIsDiscovered
  <2>3. ASSUME NEW p \in Processes PROVE LoadListed(p)'
    <3>1. CASE p = c
      BY <1>7, <2>1, <2>2, <3>1 DEF LoadListed
    <3>2. CASE p # c
      BY <1>1, <1>3, <2>1, <3>2
         DEF LoadListed, SameWork, InFlight, BindingStillActive, IsSessionBindingCurrent
    <3> QED  BY <3>1, <3>2
  <2>4. Reloading(c)'
    BY <1>1, <2>1 DEF Reloading, InFlight, Revalidates
  <2> QED  BY <2>3, <2>4 DEF ListedInv
<1> QED  BY <1>2, <1>5, <1>6, <1>7 DEF ReloadDiscovers

LEMMA ContinueListed ==
    ASSUME TypeInv, BelongInv, RefineInv, NoListing, ListedInv,
           NEW c \in Callers, ContinueOperation(c)
    PROVE  ListedInv'
<1> USE Disjoint DEF TypeInv, RefineInv
<1>1. ASSUME NEW op, call[c].op = op, pc[c] \in {"discovering", "loading"}
      PROVE  op \notin {"selectRun", "listRuns"}
  BY <1>1, NoneIsNoRequest DEF ControlInv, Resting, Settled, OnlyReloadsLoad, NoListing
<1>2. CASE Resume(c)
  <2>1. UNCHANGED <<dbtTarget, loadGeneration, runs, loaded, stale>>
    BY <1>2 DEF Resume, sessionVars
  <2>2. PICK result \in Settled : FinishSerialized(c, result) \/ Finish(c, result)
    BY <1>2 DEF Resume, Settled
  <2>3. LoadsGoOn /\ ReloadsGoOn
    BY <1>2, <2>2, FinishGoesOn DEF ReloadsGoOn, Resume, Reloading, InFlight
  <2> QED  BY <2>1, <2>3, QuietListed
<1>3. CASE ReloadDiscovers(c)
  BY <1>3, ReloadListed
<1>4. CASE ReloadCommits(c)
  <2>1. LoadsGoOn
    BY <1>4, FinishGoesOn DEF ReloadCommits, Settled
  <2>2. /\ BindingStillActive(c) /\ IsRead(c) /\ Commit(c, selectedRunId, runs)
    BY <1>4
       DEF ReloadCommits, IsRead, ReloadInv, ReloadIsCurrent, Reloading, InFlight
  <2> QED  BY <2>1, <2>2, CommitListed
<1>5. ~(\/ SelectRunDiscovers(c) \/ SelectRunCommits(c) \/ SelectRunFails(c)
        \/ ListRunsDiscovers(c) \/ ListRunsFails(c)
        \/ AcceptPendingRunDiscovers(c) \/ AcceptPendingRunCommits(c))
  <2>1. ~(\/ SelectRunDiscovers(c) \/ SelectRunCommits(c) \/ SelectRunFails(c)
          \/ ListRunsDiscovers(c) \/ ListRunsFails(c))
    BY <1>1
       DEF SelectRunDiscovers, SelectRunCommits, SelectRunFails, ListRunsDiscovers,
           ListRunsFails, IsRead
  <2>2. ~AcceptPendingRunDiscovers(c)
    BY DEF AcceptPendingRunDiscovers, BelongInv, JobsBelong, Accepting
  <2>3. ~AcceptPendingRunCommits(c)
    BY DEF AcceptPendingRunCommits, IsRead, OnlyReloadsLoad, Revalidates, RefreshOps
  <2> QED  BY <2>1, <2>2, <2>3
<1>6. CASE ReadManifest(c) \/ ReadRunResults(c)
  <2>1. UNCHANGED <<dbtTarget, loadGeneration, runs, loaded, stale, pc>>
    BY <1>6 DEF ReadManifest, ReadRunResults, sessionVars
  <2>2. (\A q \in Processes : SameWork(q)) /\ call' = call
    BY <1>6, ReadWork
  <2>3. LoadsGoOn /\ ReloadsGoOn
    BY <2>1, <2>2 DEF LoadsGoOn, ReloadsGoOn, SameWork, InFlight, Reloading, Revalidates
  <2> QED  BY <2>1, <2>3, QuietListed
<1>7. CASE ReloadFails(c) \/ AcceptPendingRunFails(c)
  <2>1. UNCHANGED <<dbtTarget, loadGeneration, runs, loaded>>
    BY <1>7 DEF ReloadFails, AcceptPendingRunFails
  <2>2. ReloadFails(c)
    BY <1>7
       DEF AcceptPendingRunFails, BelongInv, JobsBelong, Accepting, OnlyReloadsLoad, Revalidates,
           RefreshOps
  <2>3. stale'
    BY <2>2
       DEF ReloadFails, RecordRefreshError, ReloadInv, ReloadIsCurrent, Reloading, InFlight
  <2>4. LoadsGoOn
    BY <2>2, FinishGoesOn DEF ReloadFails, Settled
  <2> QED  BY <2>1, <2>3, <2>4, QuietListed
<1> QED
  BY <1>2, <1>3, <1>4, <1>5, <1>6, <1>7 DEF ContinueOperation, OperationFails

LEMMA SettleInitializeGoesOn ==
    ASSUME ControlInv, NEW resumed \in {"initialized", "initFailed"},
           SettleInitialize(resumed)
    PROVE  LoadsGoOn /\ ReloadsGoOn
<1>1. LoadsGoOn
  BY SettleInitializeWork DEF LoadsGoOn, SameWork, InFlight
<1>2. \A x \in Callers : InFlight(x) => pc'[x] = pc[x] /\ call'[x] = call[x]
  BY Disjoint DEF SettleInitialize, InFlight, ControlInv, ControlTypeOK
<1>3. ReloadsGoOn
  BY <1>2 DEF ReloadsGoOn, Reloading, InFlight, Revalidates
<1> QED  BY <1>1, <1>3

LEMMA InitializeListed ==
    ASSUME TypeInv, BelongInv, RefineInv, ListedInv, ContinueInitialize
    PROVE  ListedInv'
<1> USE Disjoint DEF TypeInv, RefineInv
<1>1. ASSUME NEW resumed \in {"initialized", "initFailed"}, SettleInitialize(resumed),
             UNCHANGED <<dbtTarget, loadGeneration, runs, loaded, stale>>
      PROVE  ListedInv'
  BY <1>1, SettleInitializeGoesOn, QuietListed
<1>2. CASE InitializeDiscovers /\ ~BindingStillActive(InitJob)
  BY <1>1, <1>2 DEF InitializeDiscovers, sessionVars
<1>3. CASE InitializeDiscovers /\ BindingStillActive(InitJob)
  <2> DEFINE found == DiscoveredRuns(job[InitJob].target)
  <2>1. /\ loaded = None /\ pc[InitJob] = "discovering"
        /\ UNCHANGED <<dbtTarget, loadGeneration, loaded>>
    BY <1>3
       DEF InitializeDiscovers, InitInv, InFlight, BindingStillActive, IsSessionBindingCurrent,
           BelongInv, JobsBelong, JobBelongs
  <2>2. \A x \in Callers : pc[x] # "loading"
    BY <2>1 DEF OnlyReloadsLoad, ReloadInv, ReloadIsCurrent, Reloading, InFlight
  <2>3. CASE SettleInitialize("initFailed")
    <3>1. LoadsGoOn
      BY <2>3, SettleInitializeGoesOn
    <3>2. \A p \in Processes : pc'[p] # "loading"
      BY <2>1, <2>2, <3>1 DEF LoadsGoOn
    <3> QED  BY <2>1, <3>2 DEF ListedInv, LoadListed
  <2>4. ASSUME NEW run \in found, StartLoading(InitJob, run), runs' = found PROVE ListedInv'
    <3>1. /\ \A q \in Processes \ {InitJob} : SameWork(q)
          /\ job'[InitJob].run = run
      BY <2>1, <2>4, StartLoadingWork
    <3>2. found = {run}
      BY <2>4, OneIsDiscovered
    <3>3. ASSUME NEW p \in Processes PROVE LoadListed(p)'
      BY <2>2, <2>4, <3>1, <3>2 DEF LoadListed, SameWork, InFlight
    <3> QED  BY <2>1, <3>3 DEF ListedInv
  <2> QED  BY <1>3, <2>3, <2>4 DEF InitializeDiscovers
<1>4. CASE InitializeCommits /\ ~BindingStillActive(InitJob)
  BY <1>1, <1>4 DEF InitializeCommits, sessionVars
<1>5. CASE InitializeCommits /\ BindingStillActive(InitJob)
  <2>1. LoadsGoOn
    BY <1>5, SettleInitializeGoesOn DEF InitializeCommits
  <2> QED  BY <1>5, <2>1, CommitListed DEF InitializeCommits
<1>6. CASE ReadManifest(InitJob) \/ ReadRunResults(InitJob)
  <2>1. UNCHANGED <<dbtTarget, loadGeneration, runs, loaded, stale, pc>>
    BY <1>6 DEF ReadManifest, ReadRunResults, sessionVars
  <2>2. (\A q \in Processes : SameWork(q)) /\ call' = call
    BY <1>6, ReadWork
  <2>3. LoadsGoOn /\ ReloadsGoOn
    BY <2>1, <2>2 DEF LoadsGoOn, ReloadsGoOn, SameWork, InFlight, Reloading, Revalidates
  <2> QED  BY <2>1, <2>3, QuietListed
<1>7. CASE InitializeFails
  BY <1>1, <1>7 DEF InitializeFails, sessionVars
<1> QED  BY <1>2, <1>3, <1>4, <1>5, <1>6, <1>7 DEF ContinueInitialize

LEMMA NextListed ==
    ASSUME "listRuns" \notin Operations
    PROVE  TypeInv /\ BelongInv /\ RefineInv /\ NoListing /\ ListedInv /\ [Next]_vars => ListedInv'
<1> SUFFICES ASSUME TypeInv, BelongInv, RefineInv, NoListing, ListedInv, [Next]_vars
             PROVE  ListedInv'
  OBVIOUS
<1>1. CASE Tick \/ Environment \/ UNCHANGED vars
  <2>1. UNCHANGED <<dbtTarget, loadGeneration, runs, loaded, stale, pc, call, job>>
    BY <1>1 DEF Tick, Environment, vars, sessionVars, controlVars
  <2> QED
    BY <2>1, QuietListed
       DEF LoadsGoOn, ReloadsGoOn, Reloading, InFlight, Revalidates
<1> QED
  BY <1>1, CallListed, StartListed, ContinueListed, InitializeListed DEF Next

\* When nothing is being loaded, the status tells whether the snapshot in use is
\* what was last discovered at the bound root: in any interleaving of refreshes,
\* bindings, polls, removals and failing requests, a superseded snapshot is
\* reported stale.  listRuns and selectRun, which nothing in the repository
\* calls, change the listing without saying so.
THEOREM OutdatedIsStaleAlways ==
    ASSUME AutoReloadOnPoll, Operations \cap {"listRuns", "selectRun"} = {}
    PROVE  Spec => []OutdatedIsStale
<1>1. "listRuns" \notin Operations /\ "selectRun" \notin Operations
  OBVIOUS
<1>2. Init => ListedInv
  BY Disjoint DEF Init, ListedInv, LoadListed
<1>3. TypeInv /\ RefineInv /\ ListedInv => OutdatedIsStale
  BY DEF ListedInv, OutdatedIsStale, IsQuiet, Reloading, InFlight, Callers, Processes
<1>4. Init => BelongInv /\ KeyInv /\ ExactInv /\ LruInv
  BY InitKeys, InitSeen, WorkspaceAssumption DEF Init, LruInv, InOrder
<1>5. BelongInv => JobsBelong
  BY DEF BelongInv
<1>6. KeyInv => NoListing
  BY DEF KeyInv
<1> QED
  BY <1>1, <1>2, <1>3, <1>4, <1>5, <1>6, InitTypeInv, NextTypeInv, NextBelongs, NextKeys,
     NextSeen, NextLru, InitRefine, NextRefine, NextListed, PTL
     DEF Spec

-----------------------------------------------------------------------------
(* Who waits for a snapshot.  When initialize() is not called off the chain,  *)
(* the job behind initializePromise always has its caller waiting at the head *)
(* of the chain, so nothing else is bound before it commits.                  *)

CallsAreMade ==
    \A c \in Callers :
        call[c] # None => /\ pc[c] \notin Resting /\ call[c].op # "initialize"
                          /\ call[c].op = "poll" => c = Poller

OwnerRefreshes ==
    refreshOwner # None => call[refreshOwner] # None /\ call[refreshOwner].op \in RefreshOps

InitIsAwaited ==
    InFlight(InitJob) =>
        BindingStillActive(InitJob) /\ \E c \in Callers : pc[c] = "initializing"

InitLoads == \A c \in Callers : pc[c] = "initialized" => loaded # None

WaitInv == CallsAreMade /\ OwnerRefreshes /\ InitIsAwaited /\ InitLoads

\* The step leaves the binding and a snapshot, or nobody waits for one.
Undisturbed ==
    \/ UNCHANGED <<dbtTarget, loadGeneration>> /\ (loaded # None => loaded' # None)
    \/ pc[InitJob] = "idle" /\ \A x \in Callers : pc[x] # "initialized"

LEMMA StartsUnawaited ==
    ASSUME ControlInv, WaitInv, NEW c \in Callers, NEW op, Starts(c, op)
    PROVE  pc[InitJob] = "idle" /\ \A x \in Callers : pc[x] \notin {"initializing", "initialized"}
<1>1. ASSUME NEW x \in Callers, pc[x] \in {"initializing", "initialized"} PROVE FALSE
  <2>1. call[x] # None /\ call[x].op # "initialize"
    BY <1>1, NoneIsNoRequest DEF ControlInv, WaitInv, CallsAreMade, Resting, Settled
  <2>2. Head(queue) = x
    BY <1>1, <2>1 DEF ControlInv, OnChain
  <2> QED  BY <1>1, <2>2 DEF Starts
<1>2. pc[InitJob] = "idle"
  BY <1>1 DEF WaitInv, InitIsAwaited, InFlight, ControlInv
<1> QED  BY <1>1, <1>2

LEMMA FinishWaits ==
    ASSUME ControlInv, WaitInv, NEW c \in Callers, NEW result \in Settled,
           \/ FinishSerialized(c, result)
           \/ Finish(c, result) /\ call[c].op \notin RefreshOps,
           pc[c] # "initializing", Undisturbed
    PROVE  WaitInv'
<1> USE Disjoint DEF ControlInv, ControlTypeOK
<1>1. /\ \A x \in Callers : \/ pc'[x] = result /\ call'[x] = None
                            \/ pc'[x] = pc[x] /\ call'[x] = call[x]
      /\ \A x \in Callers : pc[x] = "initializing" => pc'[x] = pc[x]
      /\ pc'[InitJob] = pc[InitJob] /\ job'[InitJob] = job[InitJob]
  BY DEF FinishSerialized, Finish
<1>2. CallsAreMade'
  BY <1>1 DEF WaitInv, CallsAreMade
<1>3. OwnerRefreshes'
  BY DEF WaitInv, OwnerRefreshes, FinishSerialized, Finish
<1>4. InitIsAwaited'
  BY <1>1
     DEF WaitInv, InitIsAwaited, InFlight, Undisturbed, BindingStillActive,
         IsSessionBindingCurrent
<1>5. InitLoads'
  BY <1>1 DEF WaitInv, InitLoads, Undisturbed, Settled
<1> QED  BY <1>2, <1>3, <1>4, <1>5 DEF WaitInv

\* c goes on; nothing else does.
LEMMA WaitsOn ==
    ASSUME ControlInv, WaitInv, NEW c \in Callers, pc[c] # "initializing",
           \A x \in Callers \ {c} : pc'[x] = pc[x],
           pc'[c] \in {"discovering", "loading"}, pc'[InitJob] = pc[InitJob],
           job'[InitJob].binding = job[InitJob].binding,
           UNCHANGED <<call, refreshOwner>>, call[c] # None, Undisturbed
    PROVE  WaitInv'
<1> USE Disjoint
<1>1. CallsAreMade'
  BY DEF WaitInv, CallsAreMade, Resting, Settled
<1>2. OwnerRefreshes'
  BY DEF WaitInv, OwnerRefreshes
<1>3. InitIsAwaited'
  BY DEF WaitInv, InitIsAwaited, InFlight, Undisturbed, BindingStillActive,
         IsSessionBindingCurrent
<1>4. InitLoads'
  BY DEF WaitInv, InitLoads, Undisturbed
<1> QED  BY <1>1, <1>2, <1>3, <1>4 DEF WaitInv

LEMMA EnsureWaits ==
    ASSUME ControlInv, WaitInv, NEW c \in Callers, NEW t, NEW epoch,
           EnsureInitialized(c, t, epoch), pc[InitJob] = "idle",
           \A x \in Callers : pc[x] # "initialized",
           epoch = loadGeneration', t = dbtTarget', call' = call, call[c] # None
    PROVE  WaitInv'
<1> USE Disjoint DEF ControlInv, ControlTypeOK
<1>1. /\ pc'[c] = "initializing" /\ \A x \in Callers \ {c} : pc'[x] = pc[x]
      /\ refreshOwner' = refreshOwner /\ job'[InitJob] = NewJob(t, epoch, None)
  BY DEF EnsureInitialized
<1>2. CallsAreMade' /\ OwnerRefreshes'
  BY <1>1 DEF WaitInv, CallsAreMade, OwnerRefreshes, Resting, Settled
<1>3. InitIsAwaited'
  BY <1>1
     DEF InitIsAwaited, BindingStillActive, NewJob, CaptureSessionBinding,
         IsSessionBindingCurrent
<1>4. InitLoads'
  BY <1>1 DEF InitLoads
<1> QED  BY <1>2, <1>3, <1>4 DEF WaitInv

LEMMA CallWaits ==
    ASSUME TypeInv, WaitInv, "initialize" \notin Operations,
           NEW c \in Callers, Call(c)
    PROVE  WaitInv'
<1> USE Disjoint DEF TypeInv, ControlInv, ControlTypeOK
<1>1. PICK request \in Requests(c) :
         \/ CallSerialized(c, request)
         \/ CallRefresh(c, request)
         \/ CallInitialize(c, request)
         \/ CallListRuns(c, request)
  BY DEF Call
<1>2. /\ request.op # "initialize" /\ request # None
      /\ request.op = "poll" => c = Poller
  <2>1. CASE c = Poller
    <3>1. request.op = "poll" /\ request.target = None
          /\ request = [op |-> "poll", target |-> None]
      BY <2>1 DEF Requests
    <3>2. request \in Request
      BY <3>1 DEF Request, AllOps, RefreshOps
    <3> QED  BY <2>1, <3>1, <3>2, NoneIsNoRequest
  <2>2. CASE c # Poller
    <3>1. request.op \in Operations /\ request \in Request
      BY <2>2, WorkspaceAssumption DEF Requests, Request
    <3> QED  BY <3>1, WorkspaceAssumption, NoneIsNoRequest
  <2> QED  BY <2>1, <2>2
<1>3. /\ UNCHANGED <<dbtTarget, loadGeneration, loaded>>
      /\ pc[c] \in Resting /\ call[c] = None
  BY DEF Call, CallSerialized, CallRefresh, CallInitialize, CallListRuns, sessionVars, WaitInv,
         CallsAreMade
<1>4. /\ \A x \in Callers : x # c => pc'[x] = pc[x] /\ call'[x] = call[x]
      /\ pc'[InitJob] = pc[InitJob] /\ job'[InitJob] = job[InitJob]
      /\ pc'[c] \notin {"initializing", "initialized"}
      /\ \/ call'[c] = None
         \/ call'[c] = request /\ pc'[c] \notin Resting
      /\ \/ refreshOwner' = refreshOwner
         \/ refreshOwner' = c /\ call'[c] = request /\ request.op \in RefreshOps
  <2>1. CASE CallSerialized(c, request)
    BY <2>1 DEF CallSerialized, Resting, Settled
  <2>2. CASE CallRefresh(c, request)
    BY <1>3, <2>2 DEF CallRefresh, Resting, Settled
  <2>3. CASE CallListRuns(c, request)
    BY <1>3, <2>3 DEF CallListRuns, Discover, Resting, Settled
  <2> QED  BY <1>1, <1>2, <2>1, <2>2, <2>3 DEF CallInitialize
<1>5. CallsAreMade'
  BY <1>2, <1>4 DEF WaitInv, CallsAreMade
<1>6. OwnerRefreshes'
  BY <1>2, <1>3, <1>4 DEF WaitInv, OwnerRefreshes
<1>7. InitIsAwaited'
  BY <1>3, <1>4
     DEF WaitInv, InitIsAwaited, InFlight, BindingStillActive, IsSessionBindingCurrent, Resting,
         Settled
<1>8. InitLoads'
  BY <1>3, <1>4 DEF WaitInv, InitLoads
<1> QED  BY <1>5, <1>6, <1>7, <1>8 DEF WaitInv

LEMMA StartWaits ==
    ASSUME TypeInv, WaitInv, NEW c \in Callers, StartOperation(c)
    PROVE  WaitInv'
<1> USE Disjoint DEF TypeInv
<1>1. /\ pc[c] = "queued" /\ call[c] # None /\ pc[InitJob] = "idle"
      /\ \A x \in Callers : pc[x] \notin {"initializing", "initialized"}
  <2>1. PICK op : Starts(c, op)
    BY DEF StartOperation, StartSetBlankTarget, StartSetCachedTarget, StartSetNewTarget,
           StartUnsetTarget, StartClearCachedTargets, StartRefresh, StartGetLoadedWorkspace,
           StartSelectRun, StartAcceptPendingRun
  <2>2. pc[c] = "queued"
    BY <2>1 DEF Starts
  <2> QED
    BY <2>1, <2>2, StartsUnawaited, NoneIsNoRequest DEF ControlInv, Resting, Settled
<1>2. Undisturbed
  BY <1>1 DEF Undisturbed
<1>3. CASE \E result \in Settled : FinishSerialized(c, result)
  BY <1>1, <1>2, <1>3, FinishWaits
<1>4. ASSUME NEW t, NEW run, Discover(c, t, run), call' = call
      PROVE  WaitInv'
  <2>1. /\ pc'[c] = "discovering" /\ \A x \in Callers \ {c} : pc'[x] = pc[x]
        /\ pc'[InitJob] = pc[InitJob] /\ job'[InitJob] = job[InitJob]
        /\ refreshOwner' = refreshOwner
    BY <1>4 DEF Discover, ControlInv, ControlTypeOK
  <2> QED  BY <1>1, <1>2, <1>4, <2>1, WaitsOn
<1>5. ASSUME NEW t, NEW epoch, EnsureInitialized(c, t, epoch), call' = call,
             epoch = loadGeneration', t = dbtTarget'
      PROVE  WaitInv'
  BY <1>1, <1>5, EnsureWaits
<1> QED
  BY <1>3, <1>4, <1>5
     DEF StartOperation, StartSetBlankTarget, StartSetCachedTarget, StartSetNewTarget,
         StartUnsetTarget, StartClearCachedTargets, StartRefresh, StartGetLoadedWorkspace,
         StartSelectRun, StartAcceptPendingRun, Settled, sessionVars

LEMMA ContinueWaits ==
    ASSUME TypeInv, WaitInv, NEW c \in Callers, ContinueOperation(c)
    PROVE  WaitInv'
<1> USE Disjoint DEF TypeInv
<1>1. Undisturbed
  <2>1. UNCHANGED <<dbtTarget, loadGeneration>>
    BY DEF ContinueOperation, Resume, ReloadDiscovers, ReloadCommits, SelectRunDiscovers,
           SelectRunCommits, AcceptPendingRunDiscovers, AcceptPendingRunCommits,
           ListRunsDiscovers, ReadManifest, ReadRunResults, OperationFails, ReloadFails,
           SelectRunFails, AcceptPendingRunFails, ListRunsFails, Commit, sessionVars
  <2>2. loaded' = loaded \/ \E id : IsRead(c) /\ Commit(c, id, runs)
    BY DEF ContinueOperation, Resume, ReloadDiscovers, ReloadCommits, SelectRunDiscovers,
           SelectRunCommits, AcceptPendingRunDiscovers, AcceptPendingRunCommits,
           ListRunsDiscovers, ReadManifest, ReadRunResults, OperationFails, ReloadFails,
           SelectRunFails, AcceptPendingRunFails, ListRunsFails, sessionVars
  <2>3. ASSUME NEW id, IsRead(c), Commit(c, id, runs) PROVE loaded' # None
    BY <2>3, CommitFacts
  <2> QED  BY <2>1, <2>2, <2>3 DEF Undisturbed
<1>2. /\ pc[c] \in {"initialized", "initFailed", "discovering", "loading"}
      /\ call[c] # None
  <2>1. pc[c] \in {"initialized", "initFailed", "discovering", "loading"}
    BY DEF ContinueOperation, Resume, ReloadDiscovers, ReloadCommits, SelectRunDiscovers,
           SelectRunCommits, AcceptPendingRunDiscovers, AcceptPendingRunCommits,
           ListRunsDiscovers, ReadManifest, ReadRunResults, OperationFails, ReloadFails,
           SelectRunFails, AcceptPendingRunFails, ListRunsFails, IsRead
  <2> QED  BY <2>1, NoneIsNoRequest DEF ControlInv, Resting, Settled
<1>3. CASE \E result \in Settled : FinishSerialized(c, result)
  BY <1>1, <1>2, <1>3, FinishWaits
<1>4. ASSUME NEW result \in Settled, Finish(c, result), call[c].op \in {"initialize", "listRuns"}
      PROVE  WaitInv'
  BY <1>1, <1>2, <1>4, FinishWaits DEF RefreshOps
<1>5. ASSUME NEW run, StartLoading(c, run)
      PROVE  WaitInv'
  <2>1. /\ pc'[c] = "loading" /\ \A x \in Callers \ {c} : pc'[x] = pc[x]
        /\ pc'[InitJob] = pc[InitJob] /\ job'[InitJob].binding = job[InitJob].binding
        /\ UNCHANGED <<call, refreshOwner>>
    BY <1>5 DEF StartLoading, ControlInv, ControlTypeOK
  <2> QED  BY <1>1, <1>2, <2>1, WaitsOn
<1>6. CASE ReadManifest(c) \/ ReadRunResults(c)
  <2>1. /\ job'[InitJob] = job[InitJob]
        /\ UNCHANGED <<dbtTarget, loadGeneration, loaded, pc, call, refreshOwner>>
    BY <1>6 DEF ReadManifest, ReadRunResults, sessionVars, ControlInv, ControlTypeOK
  <2> QED
    BY <2>1
       DEF WaitInv, CallsAreMade, OwnerRefreshes, InitIsAwaited, InitLoads, InFlight,
           BindingStillActive, IsSessionBindingCurrent
<1> QED
  BY <1>3, <1>4, <1>5, <1>6
     DEF ContinueOperation, Resume, ReloadDiscovers, ReloadCommits, SelectRunDiscovers,
         SelectRunCommits, AcceptPendingRunDiscovers, AcceptPendingRunCommits,
         ListRunsDiscovers, OperationFails, ReloadFails,
         SelectRunFails, AcceptPendingRunFails, ListRunsFails, Settled

LEMMA InitializeWaits ==
    ASSUME TypeInv, WaitInv, ContinueInitialize
    PROVE  WaitInv'
<1> USE Disjoint DEF TypeInv
<1>1. /\ InFlight(InitJob) /\ BindingStillActive(InitJob)
      /\ UNCHANGED <<dbtTarget, loadGeneration>>
  BY DEF ContinueInitialize, InitializeDiscovers, InitializeCommits, IsRead, ReadManifest,
         ReadRunResults, InitializeFails, InFlight, WaitInv, InitIsAwaited, Commit, sessionVars
<1>2. ASSUME NEW resumed \in {"initialized", "initFailed"}, SettleInitialize(resumed),
             loaded # None => loaded' # None, resumed = "initialized" => loaded' # None
      PROVE  WaitInv'
  <2>1. /\ \A x \in Callers : \/ pc'[x] = pc[x]
                              \/ pc[x] = "initializing" /\ pc'[x] = resumed
        /\ pc'[InitJob] = "idle" /\ UNCHANGED <<call, refreshOwner>>
    BY <1>2 DEF SettleInitialize, ControlInv, ControlTypeOK
  <2> QED
    BY <1>2, <2>1
       DEF WaitInv, CallsAreMade, OwnerRefreshes, InitIsAwaited, InitLoads, InFlight, Resting,
           Settled
<1>3. CASE InitializeDiscovers
  <2>1. CASE SettleInitialize("initFailed")
    BY <1>1, <1>2, <1>3, <2>1 DEF InitializeDiscovers
  <2>2. CASE \E run : StartLoading(InitJob, run)
    <3>1. /\ \A x \in Callers : pc'[x] = pc[x]
          /\ job'[InitJob].binding = job[InitJob].binding
          /\ UNCHANGED <<call, refreshOwner>>
      BY <2>2 DEF StartLoading, ControlInv, ControlTypeOK
    <3>2. loaded' = loaded
      BY <1>1, <1>3 DEF InitializeDiscovers
    <3> QED
      BY <1>1, <3>1, <3>2
         DEF WaitInv, CallsAreMade, OwnerRefreshes, InitIsAwaited, InitLoads,
             BindingStillActive, IsSessionBindingCurrent
  <2> QED  BY <1>1, <1>3, <2>1, <2>2 DEF InitializeDiscovers
<1>4. CASE InitializeCommits
  <2>1. IsRead(InitJob) /\ Commit(InitJob, selectedRunId, runs) /\ SettleInitialize("initialized")
    BY <1>1, <1>4 DEF InitializeCommits
  <2>2. loaded' # None
    BY <2>1, CommitFacts
  <2> QED  BY <1>2, <2>1, <2>2
<1>5. CASE ReadManifest(InitJob) \/ ReadRunResults(InitJob)
  <2>1. UNCHANGED <<dbtTarget, loadGeneration, loaded, pc, call, refreshOwner>>
    BY <1>5 DEF ReadManifest, ReadRunResults, sessionVars
  <2>2. job'[InitJob].binding = job[InitJob].binding
    BY <1>1, <1>5, <2>1, ReadWork DEF SameWork, InFlight
  <2> QED
    BY <2>1, <2>2
       DEF WaitInv, CallsAreMade, OwnerRefreshes, InitIsAwaited, InitLoads, InFlight,
           BindingStillActive, IsSessionBindingCurrent
<1>6. CASE InitializeFails
  BY <1>2, <1>6 DEF InitializeFails, sessionVars
<1> QED  BY <1>3, <1>4, <1>5, <1>6 DEF ContinueInitialize

LEMMA NextWaits ==
    ASSUME "initialize" \notin Operations
    PROVE  TypeInv /\ WaitInv /\ [Next]_vars => WaitInv'
<1> SUFFICES ASSUME TypeInv, WaitInv, [Next]_vars PROVE WaitInv'
  OBVIOUS
<1>1. CASE Tick \/ Environment \/ UNCHANGED vars
  <2>1. UNCHANGED <<dbtTarget, loadGeneration, loaded, pc, call, job, refreshOwner>>
    BY <1>1 DEF Tick, Environment, vars, sessionVars, controlVars
  <2> QED
    BY <2>1
       DEF WaitInv, CallsAreMade, OwnerRefreshes, InitIsAwaited, InitLoads, InFlight,
           BindingStillActive, IsSessionBindingCurrent
<1> QED
  BY <1>1, CallWaits, StartWaits, ContinueWaits, InitializeWaits DEF Next

\* Whose step settles a refresh: its own, or that of the refresh it joined.
LEMMA WhoSettles ==
    ASSUME TypeInv, WaitInv, Next, NEW c \in Callers, call[c] # None, call[c].op = "refresh",
           pc'[c] = "returned", ~(pc[c] = "joined" /\ refreshOwner = Poller)
    PROVE  \E d \in Callers : /\ call[d].op = "refresh"
                              /\ StartRefresh(d) \/ Resume(d) \/ ReloadDiscovers(d)
                                 \/ ReloadCommits(d) \/ ReloadFails(d)
                              /\ FinishSerialized(d, "returned")
<1> USE Disjoint DEF TypeInv, ControlInv, ControlTypeOK
<1>1. pc[c] # "returned"
  BY DEF WaitInv, CallsAreMade, Resting, Settled
<1>2. ASSUME NEW d \in Callers, NEW result \in Settled,
             \/ FinishSerialized(d, result)
             \/ Finish(d, result) /\ call[d].op \in {"initialize", "listRuns"},
             call[d] # None
      PROVE  call[d].op = "refresh" /\ FinishSerialized(d, "returned")
  <2>1. CASE Finish(d, result) /\ call[d].op \in {"initialize", "listRuns"}
    BY <1>1, <2>1 DEF Finish
  <2>2. CASE FinishSerialized(d, result)
    <3>1. result = "returned" /\ (c = d \/ (d = refreshOwner /\ pc[c] = "joined"))
      BY <1>1, <2>2 DEF FinishSerialized
    <3>2. d = refreshOwner /\ pc[c] = "joined" => call[d].op = "refresh"
      BY <1>2, NoneIsNoRequest DEF WaitInv, CallsAreMade, OwnerRefreshes, RefreshOps
    <3> QED  BY <2>2, <3>1, <3>2
  <2> QED  BY <1>2, <2>1, <2>2
<1>3. ASSUME NEW d \in Callers, StartOperation(d)
      PROVE  StartRefresh(d) /\ call[d].op = "refresh" /\ FinishSerialized(d, "returned")
  <2>1. PICK op : Starts(d, op)
    BY <1>3
       DEF StartOperation, StartSetBlankTarget, StartSetCachedTarget, StartSetNewTarget,
           StartUnsetTarget, StartClearCachedTargets, StartRefresh, StartGetLoadedWorkspace,
           StartSelectRun, StartAcceptPendingRun
  <2>2. call[d] # None
    BY <2>1, NoneIsNoRequest DEF Starts, ControlInv, Resting, Settled
  <2>3. \/ \E result \in Settled : FinishSerialized(d, result)
        \/ \E t, run : Discover(d, t, run)
        \/ \E t, epoch : EnsureInitialized(d, t, epoch)
    BY <1>3
       DEF StartOperation, StartSetBlankTarget, StartSetCachedTarget, StartSetNewTarget,
           StartUnsetTarget, StartClearCachedTargets, StartRefresh, StartGetLoadedWorkspace,
           StartSelectRun, StartAcceptPendingRun, Settled
  <2>4. PICK result \in Settled : FinishSerialized(d, result)
    BY <1>1, <2>3 DEF Discover, EnsureInitialized
  <2>5. call[d].op = "refresh" /\ FinishSerialized(d, "returned")
    BY <1>2, <2>2, <2>4
  <2>6. StartRefresh(d)
    BY <1>3, <2>5
       DEF StartOperation, StartSetBlankTarget, StartSetCachedTarget, StartSetNewTarget,
           StartUnsetTarget, StartClearCachedTargets, StartGetLoadedWorkspace, StartSelectRun,
           StartAcceptPendingRun, Starts
  <2> QED  BY <2>5, <2>6
<1>4. ASSUME NEW d \in Callers, ContinueOperation(d)
      PROVE  /\ call[d].op = "refresh" /\ FinishSerialized(d, "returned")
             /\ Resume(d) \/ ReloadDiscovers(d) \/ ReloadCommits(d) \/ ReloadFails(d)
  <2>1. pc[d] \in {"initialized", "initFailed", "discovering", "loading"}
    BY <1>4
       DEF ContinueOperation, Resume, ReloadDiscovers, ReloadCommits, SelectRunDiscovers,
           SelectRunCommits, AcceptPendingRunDiscovers, AcceptPendingRunCommits,
           ListRunsDiscovers, ReadManifest, ReadRunResults, OperationFails, ReloadFails,
           SelectRunFails, AcceptPendingRunFails, ListRunsFails, IsRead
  <2>2. call[d] # None
    BY <2>1, NoneIsNoRequest DEF ControlInv, Resting, Settled
  <2>3. \/ \E result \in Settled : FinishSerialized(d, result)
        \/ \E result \in Settled : Finish(d, result) /\ call[d].op \in {"initialize", "listRuns"}
        \/ \E run : StartLoading(d, run)
        \/ ReadManifest(d) \/ ReadRunResults(d)
    BY <1>4
       DEF ContinueOperation, Resume, ReloadDiscovers, ReloadCommits, SelectRunDiscovers,
           SelectRunCommits, AcceptPendingRunDiscovers, AcceptPendingRunCommits,
           ListRunsDiscovers, OperationFails, ReloadFails, SelectRunFails,
           AcceptPendingRunFails, ListRunsFails, Settled
  <2>4. PICK result \in Settled :
            \/ FinishSerialized(d, result)
            \/ Finish(d, result) /\ call[d].op \in {"initialize", "listRuns"}
    BY <1>1, <2>3 DEF StartLoading, ReadManifest, ReadRunResults
  <2>5. call[d].op = "refresh" /\ FinishSerialized(d, "returned")
    BY <1>2, <2>2, <2>4
  <2>6. ~ReadManifest(d) /\ ~ReadRunResults(d)
    BY <1>1 DEF ReadManifest, ReadRunResults
  <2> QED
    BY <1>4, <2>5, <2>6
       DEF ContinueOperation, SelectRunDiscovers, SelectRunCommits, AcceptPendingRunDiscovers,
           AcceptPendingRunCommits, ListRunsDiscovers, OperationFails, SelectRunFails,
           AcceptPendingRunFails, ListRunsFails
<1>5. ~(\E d \in Callers : Call(d))
  <2> SUFFICES ASSUME NEW d \in Callers, Call(d) PROVE FALSE
    OBVIOUS
  <2>1. c # d
    BY DEF Call, WaitInv, CallsAreMade
  <2>2. pc'[c] = pc[c]
    BY <2>1
       DEF Call, CallSerialized, CallRefresh, CallInitialize, CallListRuns, EnsureInitialized,
           Discover
  <2> QED  BY <1>1, <2>2
<1>6. ~ContinueInitialize
  <2> SUFFICES ASSUME ContinueInitialize PROVE FALSE
    OBVIOUS
  <2>1. pc'[c] \in {pc[c], "initialized", "initFailed"}
    BY DEF ContinueInitialize, InitializeDiscovers, InitializeCommits, ReadManifest,
           ReadRunResults, InitializeFails, SettleInitialize, StartLoading
  <2> QED  BY <1>1, <2>1
<1>7. ~Tick /\ ~Environment
  BY <1>1 DEF Tick, Environment, controlVars
<1> QED  BY <1>3, <1>4, <1>5, <1>6, <1>7 DEF Next

\* A refresh that is answered while a root is bound leaves a snapshot in memory,
\* whether it loads one itself or joins the refresh of another client, and
\* whatever is bound, cleared or removed while it waits; only a poll's refresh,
\* when it is the one joined, may leave none.  An initialize() beside the chain
\* that it waits for would break it.
THEOREM RefreshLoadsAlways ==
    ASSUME AutoReloadOnPoll, Operations \cap {"initialize", "selectRun"} = {}
    PROVE  Spec => RefreshLoads
<1>1. "initialize" \notin Operations /\ "selectRun" \notin Operations
  OBVIOUS
<1>2. Init => WaitInv
  BY Disjoint
     DEF Init, WaitInv, CallsAreMade, OwnerRefreshes, InitIsAwaited, InitLoads, InFlight
<1>3. TypeInv /\ RefineInv /\ WaitInv /\ [Next]_vars =>
         [\A c \in Callers :
            RefreshAnswered(c) =>
               loaded' # None \/ (pc[c] = "joined" /\ refreshOwner = Poller)]_vars
  <2> SUFFICES ASSUME TypeInv, RefineInv, WaitInv, Next, NEW c \in Callers,
                      call[c] # None, call[c].op = "refresh", pc'[c] = "returned",
                      dbtTarget' # None, ~(pc[c] = "joined" /\ refreshOwner = Poller)
               PROVE  loaded' # None
    BY DEF vars, RefreshAnswered
  <2>1. PICK d \in Callers : /\ call[d].op = "refresh"
                             /\ StartRefresh(d) \/ Resume(d) \/ ReloadDiscovers(d)
                                \/ ReloadCommits(d) \/ ReloadFails(d)
                             /\ FinishSerialized(d, "returned")
    BY WhoSettles
  <2>2. pc'[d] = "returned"
    BY <2>1, Disjoint DEF FinishSerialized, TypeInv, ControlInv, ControlTypeOK
  <2>3. CASE StartRefresh(d)
    <3>1. dbtTarget # None /\ dbtTarget' = dbtTarget
      BY <2>3 DEF StartRefresh, sessionVars
    <3>2. pc'[d] # "returned"
      BY <2>1, <2>3, <3>1, Disjoint
         DEF StartRefresh, EnsureInitialized, Discover, TypeInv, ControlInv, ControlTypeOK
    <3> QED  BY <2>2, <3>2
  <2>4. CASE Resume(d)
    <3>1. pc[d] = "initialized" /\ loaded' = loaded
      BY <2>1, <2>2, <2>4, Disjoint
         DEF Resume, FinishSerialized, sessionVars, TypeInv, ControlInv, ControlTypeOK
    <3> QED  BY <3>1 DEF WaitInv, InitLoads
  <2>5. CASE ReloadDiscovers(d) \/ ReloadFails(d)
    <3>1. Reloading(d) /\ loaded' = loaded
      BY <2>5 DEF ReloadDiscovers, ReloadFails, Reloading, InFlight, sessionVars
    <3> QED  BY <3>1 DEF RefineInv, ReloadInv, ReloadIsCurrent
  <2>6. CASE ReloadCommits(d)
    <3>1. Reloading(d) /\ IsRead(d)
      BY <2>6 DEF ReloadCommits, Reloading, InFlight, IsRead
    <3>2. Commit(d, selectedRunId, runs)
      BY <2>6, <3>1 DEF ReloadCommits, RefineInv, ReloadInv, ReloadIsCurrent
    <3> QED  BY <3>1, <3>2, CommitFacts DEF Processes
  <2> QED  BY <2>1, <2>3, <2>4, <2>5, <2>6
<1>4. Init => BelongInv /\ ExactInv /\ LruInv
  BY InitKeys, InitSeen, WorkspaceAssumption DEF Init, LruInv, InOrder
<1> QED
  BY <1>1, <1>2, <1>3, <1>4, InitTypeInv, NextTypeInv, NextBelongs, NextSeen, NextLru,
     InitRefine, NextRefine, NextWaits, PTL
     DEF Spec, RefreshLoads

=============================================================================
