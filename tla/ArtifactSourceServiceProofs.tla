--------------------- MODULE ArtifactSourceServiceProofs ---------------------
(***************************************************************************)
(* Theorems about ArtifactSourceService, for any number of tabs and        *)
(* timers, roots, dbt invocations and faults.                              *)
(*                                                                         *)
(* No route waits for another, so an invariant must say for each request   *)
(* under way what it may still do to the session when it resumes.  What a  *)
(* step does to the processes is proved first, operator by operator; then  *)
(* types; then that a configure in effect is undone by nothing that        *)
(* started before it (EffectInv).                                          *)
(*                                                                         *)
(* Last, what is pinned belongs to the version the service calls loaded,   *)
(* as long as one tab at most chooses: configures, accepts or switches.    *)
(* Then a read made for a choice is always that of the last choice,        *)
(* whereas two tabs that choose in one generation can overwrite each       *)
(* other's payload: neither accept nor the second half of configure bumps  *)
(* the generation.                                                         *)
(***************************************************************************)
EXTENDS ArtifactSourceService, ArtifactStoreProofs

SessionTypeOK ==
    /\ source \in Targets \cup {None}
    /\ runs \in SUBSET Run
    /\ selectedRunId \in {CurrentRunId, None}
    /\ loadedVersion \in Run \cup {None}
    /\ loadedArtifactCache \in Payload \cup {None}
    /\ sessionGeneration \in Nat
    /\ remoteRefreshError \in BOOLEAN

ControlTypeOK ==
    /\ refresh \in RefreshJob \cup {None}
    /\ request \in [Handlers -> Request \cup {None}]
    /\ pc \in [Processes -> ProgramCounter]
    /\ job \in [Processes -> Job \cup {None}]

Busy == {"awaitingReady", "discovering", "joined", "reading"}

ControlInv ==
    /\ ControlTypeOK
    /\ \A h \in Handlers : pc[h] \in Busy => request[h] \in Request
    /\ \A p \in Processes : pc[p] \in {"discovering", "reading"} => job[p] \in Job
    /\ \A p \in Processes :
          pc[p] = "reading" => job[p].run \in Run /\ job[p].run.target = job[p].target
    /\ pc[Boot] \notin {"idle", "awaitingReady", "joined"}

TypeInv == StoreTypeOK /\ SessionTypeOK /\ ControlInv

LEMMA TypeParts == TypeInv => TypeOK
BY DEF TypeInv, ControlInv, SessionTypeOK, ControlTypeOK, TypeOK

LEMMA Disjoint ==
    /\ Boot \notin Handlers /\ Boot \in Processes
    /\ Handlers \subseteq Processes
    /\ \A p \in Processes : p # Boot => p \in Handlers
BY ServiceAssumption DEF Processes

-----------------------------------------------------------------------------
(* What the steps do to the processes. *)

Untouched(p) ==
    /\ pc'[p] = pc[p] /\ job'[p] = job[p]
    /\ p \in Handlers => request'[p] = request[p]

OnlyTouches(p) == \A q \in Processes : q # p => Untouched(q)

LEMMA SettleStep ==
    ASSUME ControlTypeOK, NEW p \in Processes, NEW outcome \in Settled, Settle(p, outcome)
    PROVE  /\ ControlTypeOK'
           /\ OnlyTouches(p)
           /\ pc'[p] = outcome
           /\ p \in Handlers => request'[p] = None
           /\ refresh' = refresh
BY Disjoint DEF ControlTypeOK, Settle, OnlyTouches, Untouched, Settled, ProgramCounter

LEMMA NewJobType ==
    ASSUME NEW t \in Targets, NEW epoch \in Nat, NEW scopeKey \in {CurrentRunId, None},
           NEW run \in Run \cup {None}
    PROVE  /\ NewJob(t, epoch, scopeKey, run) \in Job
           /\ NewJob(t, epoch, scopeKey, run).target = t
           /\ NewJob(t, epoch, scopeKey, run).run = run
           /\ NewJob(t, epoch, scopeKey, run).manifest = 0
           /\ NewJob(t, epoch, scopeKey, run).runResults = 0
           /\ NewJob(t, epoch, scopeKey, run).binding.epoch = epoch
           /\ NewJob(t, epoch, scopeKey, run).binding.scopeKey = scopeKey
BY StoreAssumption DEF NewJob, Job, Binding, Version, CaptureSessionBinding

LEMMA ReadSelectedStep ==
    ASSUME ControlTypeOK, SessionTypeOK, NEW p \in Processes, NEW run \in Run,
           ReadSelected(p, run)
    PROVE  /\ ControlTypeOK'
           /\ OnlyTouches(p)
           /\ pc'[p] = "reading"
           /\ job'[p] = NewJob(run.target, sessionGeneration, CurrentRunId, run)
           /\ job'[p] \in Job /\ job'[p].run = run /\ job'[p].target = run.target
           /\ request' = request /\ refresh' = refresh
<1>1. run.target \in Targets
  BY DEF Run
<1>2. sessionGeneration \in Nat
  BY DEF SessionTypeOK
<1> DEFINE new == NewJob(run.target, sessionGeneration, CurrentRunId, run)
<1>3. new \in Job /\ new.run = run /\ new.target = run.target
  BY <1>1, <1>2, NewJobType
<1> HIDE DEF new
<1>4. job' = [job EXCEPT ![p] = new] /\ pc' = [pc EXCEPT ![p] = "reading"]
      /\ UNCHANGED <<request, refresh>>
  BY DEF ReadSelected, new
<1>5. job'[p] = new /\ pc'[p] = "reading"
  BY <1>4 DEF ControlTypeOK
<1>6. ControlTypeOK'
  BY <1>3, <1>4 DEF ControlTypeOK, ProgramCounter
<1>7. OnlyTouches(p)
  BY <1>4 DEF ControlTypeOK, OnlyTouches, Untouched
<1> QED  BY <1>3, <1>4, <1>5, <1>6, <1>7 DEF new

LEMMA SettleRefreshStep ==
    ASSUME ControlTypeOK, NEW ok, SettleRefresh(ok)
    PROVE  /\ ControlTypeOK'
           /\ \A q \in Processes :
                 \/ Untouched(q)
                 \/ /\ pc[q] = "joined" /\ pc'[q] = "returned" /\ job'[q] = job[q]
                    /\ q \in Handlers => request'[q] = None
           /\ refresh' = None
BY Disjoint DEF ControlTypeOK, SettleRefresh, Untouched, ProgramCounter, Settled

\* The control invariant, from what was touched.
LEMMA TouchedInv ==
    ASSUME ControlInv, ControlTypeOK', NEW p \in Processes, OnlyTouches(p),
           p \in Handlers /\ pc'[p] \in Busy => request'[p] \in Request,
           pc'[p] \in {"discovering", "reading"} => job'[p] \in Job,
           pc'[p] = "reading" => job'[p].run \in Run /\ job'[p].run.target = job'[p].target,
           p = Boot => pc'[p] \notin {"idle", "awaitingReady", "joined"}
    PROVE  ControlInv'
BY Disjoint DEF ControlInv, OnlyTouches, Untouched

LEMMA SettledInv ==
    ASSUME ControlInv, NEW p \in Processes, NEW outcome \in Settled, Settle(p, outcome)
    PROVE  ControlInv'
<1>1. ControlTypeOK' /\ OnlyTouches(p) /\ pc'[p] = outcome
  BY SettleStep DEF ControlInv
<1> QED  BY <1>1, TouchedInv DEF Settled, Busy

LEMMA ReadSelectedInv ==
    ASSUME ControlInv, SessionTypeOK, NEW p \in Processes, NEW run \in Run,
           p \in Handlers => request[p] \in Request, ReadSelected(p, run)
    PROVE  ControlInv'
<1>1. /\ ControlTypeOK' /\ OnlyTouches(p) /\ pc'[p] = "reading"
      /\ job'[p] \in Job /\ job'[p].run = run /\ job'[p].target = run.target
      /\ request' = request
  BY ReadSelectedStep DEF ControlInv
<1> QED  BY <1>1, TouchedInv

LEMMA SettleRefreshInv ==
    ASSUME ControlInv, NEW ok, SettleRefresh(ok)
    PROVE  ControlInv'
<1>1. /\ ControlTypeOK'
      /\ \A q \in Processes :
            \/ Untouched(q)
            \/ /\ pc[q] = "joined" /\ pc'[q] = "returned" /\ job'[q] = job[q]
               /\ q \in Handlers => request'[q] = None
  BY SettleRefreshStep DEF ControlInv
<1> QED  BY <1>1, Disjoint DEF ControlInv, Untouched, Busy

-----------------------------------------------------------------------------
(* Types. *)

LEMMA DiscoveredType ==
    ASSUME StoreTypeOK, NEW t \in Targets
    PROVE  /\ DiscoveredRuns(t) \subseteq Run
           /\ \A run \in DiscoveredRuns(t) : run.target = t
BY DEF DiscoveredRuns, Run, Token, VersionToken, StoreTypeOK, Contents

LEMMA StartType ==
    ASSUME TypeInv, NEW h \in Handlers, Start(h)
    PROVE  TypeInv'
<1> USE Disjoint DEF TypeInv
<1>1. StoreTypeOK'
  BY DEF Start, RefuseUnready, StartConfigure, StartRefresh, RejectSelect, StartSelect,
         StartGetCurrent, storeVars, StoreTypeOK
<1>2. pc[h] = "awaitingReady" /\ request[h] \in Request
  BY DEF Start, RefuseUnready, StartConfigure, StartRefresh, RejectSelect, StartSelect,
         StartGetCurrent, Selects, Ready, ControlInv, Busy
<1>3. CASE RefuseUnready(h) \/ RejectSelect(h)
  <2>1. ControlInv'
    BY <1>3, SettledInv DEF RefuseUnready, RejectSelect, Settled
  <2> QED  BY <1>1, <1>3, <2>1 DEF RefuseUnready, RejectSelect, sessionVars, SessionTypeOK
<1>4. CASE StartConfigure(h)
  <2>1. SessionTypeOK'
    BY <1>4 DEF StartConfigure, sessionVars, SessionTypeOK
  <2>2. CASE request[h].target = None
    <3>1. Settle(h, "threw")
      BY <1>4, <2>2 DEF StartConfigure
    <3> QED  BY <1>1, <2>1, <3>1, SettledInv DEF Settled
  <2>3. CASE request[h].target # None
    <3> DEFINE new == NewJob(request[h].target, sessionGeneration + 1, None, None)
    <3>1. request[h].target \in Targets
      BY <1>2, <2>3 DEF Request
    <3>2. new \in Job
      <4>1. sessionGeneration + 1 \in Nat
        BY DEF SessionTypeOK
      <4> QED  BY <3>1, <4>1, NewJobType
    <3> HIDE DEF new
    <3>3. /\ pc' = [pc EXCEPT ![h] = "discovering"] /\ job' = [job EXCEPT ![h] = new]
          /\ UNCHANGED <<request, refresh>>
      BY <1>4, <2>3 DEF StartConfigure, new
    <3>4. ControlTypeOK' /\ OnlyTouches(h)
      BY <3>2, <3>3 DEF ControlInv, ControlTypeOK, ProgramCounter, OnlyTouches, Untouched
    <3>5. pc'[h] = "discovering" /\ job'[h] = new /\ request'[h] = request[h]
      BY <3>3 DEF ControlInv, ControlTypeOK
    <3> QED  BY <1>1, <1>2, <2>1, <3>2, <3>4, <3>5, TouchedInv
  <2> QED  BY <2>2, <2>3
<1>5. CASE StartRefresh(h)
  <2>1. SessionTypeOK'
    BY <1>5 DEF StartRefresh, sessionVars, SessionTypeOK
  <2>2. CASE ~Remote
    <3>1. Settle(h, "returned")
      BY <1>5, <2>2 DEF StartRefresh
    <3> QED  BY <1>1, <2>1, <3>1, SettledInv DEF Settled
  <2>3. CASE Remote
    <3>1. [target |-> source,
           binding |-> CaptureSessionBinding(sessionGeneration, None)] \in RefreshJob
      BY <2>3 DEF Remote, SessionTypeOK, RefreshJob, CaptureSessionBinding, Binding
    <3>2. /\ pc' = [pc EXCEPT ![h] = "joined"] /\ UNCHANGED <<request, job>>
          /\ refresh' \in RefreshJob \cup {None}
      BY <1>5, <2>3, <3>1 DEF StartRefresh, ControlInv, ControlTypeOK
    <3>3. ControlTypeOK' /\ OnlyTouches(h) /\ pc'[h] = "joined"
      BY <3>2 DEF ControlInv, ControlTypeOK, ProgramCounter, OnlyTouches, Untouched
    <3> QED  BY <1>1, <1>2, <2>1, <3>2, <3>3, TouchedInv
  <2> QED  BY <2>2, <2>3
<1>6. CASE StartSelect(h)
  <2>1. PICK run \in runs : CommitVersion(run) /\ ReadSelected(h, run)
    BY <1>6 DEF StartSelect
  <2>2. run \in Run
    BY DEF SessionTypeOK
  <2>3. SessionTypeOK'
    BY <1>6, <2>1, <2>2 DEF StartSelect, CommitVersion, SessionTypeOK
  <2> QED  BY <1>1, <1>2, <2>1, <2>2, <2>3, ReadSelectedInv
<1>7. CASE StartGetCurrent(h)
  <2>1. SessionTypeOK'
    BY <1>7 DEF StartGetCurrent, sessionVars, SessionTypeOK
  <2>2. CASE Settle(h, "returned")
    BY <1>1, <2>1, <2>2, SettledInv DEF Settled
  <2>3. CASE \E run \in runs : ReadSelected(h, run)
    BY <1>1, <1>2, <2>1, <2>3, ReadSelectedInv DEF SessionTypeOK
  <2> QED  BY <1>7, <2>2, <2>3 DEF StartGetCurrent
<1> QED  BY <1>3, <1>4, <1>5, <1>6, <1>7 DEF Start

LEMMA DiscoveriesType ==
    ASSUME TypeInv, NEW p \in Processes, Discovers(p) \/ BootDiscovers
    PROVE  TypeInv'
<1> USE Disjoint DEF TypeInv
<1>1. ASSUME NEW q \in Processes, pc[q] = "discovering", UNCHANGED storeVars,
             UNCHANGED <<sessionGeneration, remoteRefreshError>>,
             NEW run \in DiscoveredRuns(job[q].target), ApplySelected(q, run)
      PROVE  TypeInv'
  <2>1. job[q].target \in Targets
    BY <1>1 DEF ControlInv, Job
  <2>2. run \in Run
    BY <1>1, <2>1, DiscoveredType
  <2>3. run.target \in Targets
    BY <2>2 DEF Run
  <2>4. SessionTypeOK'
    BY <1>1, <2>2, <2>3 DEF ApplySelected, CommitVersion, SessionTypeOK
  <2>5. q \in Handlers => request[q] \in Request
    BY <1>1 DEF ControlInv, Busy
  <2>6. ControlInv'
    BY <1>1, <2>2, <2>5, ReadSelectedInv DEF ApplySelected
  <2> QED  BY <1>1, <2>4, <2>6 DEF storeVars, StoreTypeOK
<1>2. CASE ConfigureDiscovers(p)
  <2>1. CASE \E run \in DiscoveredRuns(job[p].target) : ApplySelected(p, run)
    BY <1>1, <1>2, <2>1 DEF ConfigureDiscovers
  <2>2. CASE \E outcome \in Settled : Settle(p, outcome) /\ UNCHANGED sessionVars
    <3>1. ControlInv'
      BY <2>2, SettledInv
    <3> QED
      BY <1>2, <2>2, <3>1
         DEF ConfigureDiscovers, sessionVars, SessionTypeOK, storeVars, StoreTypeOK
  <2> QED  BY <1>2, <2>1, <2>2 DEF ConfigureDiscovers, Settled
<1>3. CASE DiscoveryFails(p)
  <2>1. ControlInv'
    BY <1>3, SettledInv DEF DiscoveryFails, Settled
  <2>2. StoreTypeOK'
    BY <1>3, StoreKeepsType DEF DiscoveryFails, StoreKept
  <2> QED  BY <1>3, <2>1, <2>2 DEF DiscoveryFails, sessionVars, SessionTypeOK
<1>4. CASE BootDiscovers
  <2>1. CASE \E run \in DiscoveredRuns(job[Boot].target) : ApplySelected(Boot, run)
    BY <1>1, <1>4, <2>1 DEF BootDiscovers
  <2>2. CASE Settle(Boot, "returned") /\ source' = job[Boot].target
             /\ UNCHANGED <<runs, selectedRunId, loadedVersion, loadedArtifactCache>>
    <3>1. ControlInv'
      BY <2>2, SettledInv DEF Settled
    <3>2. job[Boot].target \in Targets
      BY <1>4 DEF BootDiscovers, ControlInv, Job
    <3> QED
      BY <1>4, <2>2, <3>1, <3>2 DEF BootDiscovers, SessionTypeOK, storeVars, StoreTypeOK
  <2> QED  BY <1>4, <2>1, <2>2 DEF BootDiscovers
<1> QED  BY <1>2, <1>3, <1>4 DEF Discovers

LEMMA RefreshType ==
    ASSUME TypeInv, RefreshStep
    PROVE  TypeInv'
<1> USE Disjoint DEF TypeInv
<1>1. CASE RefreshDiscovers
  <2>1. refresh.target \in Targets
    BY <1>1 DEF RefreshDiscovers, ControlInv, ControlTypeOK, RefreshJob
  <2>2. DiscoveredRuns(refresh.target) \subseteq Run
    BY <2>1, DiscoveredType
  <2>3. SessionTypeOK'
    BY <1>1, <2>1, <2>2 DEF RefreshDiscovers, ApplyRefreshed, sessionVars, SessionTypeOK
  <2>4. ControlInv'
    BY <1>1, SettleRefreshInv DEF RefreshDiscovers
  <2> QED  BY <1>1, <2>3, <2>4 DEF RefreshDiscovers, storeVars, StoreTypeOK
<1>2. CASE RefreshFails
  <2>1. ControlInv'
    BY <1>2, SettleRefreshInv DEF RefreshFails
  <2>2. StoreTypeOK'
    BY <1>2, StoreKeepsType DEF RefreshFails, StoreKept
  <2>3. SessionTypeOK'
    BY <1>2 DEF RefreshFails, sessionVars, SessionTypeOK, DiscoveryIsCurrent,
                IsSessionBindingCurrent
  <2> QED  BY <2>1, <2>2, <2>3
<1> QED  BY <1>1, <1>2 DEF RefreshStep

\* What a read of a file leaves in the job.
LEMMA FileStep ==
    ASSUME TypeInv, NEW p \in Processes, ReadManifest(p) \/ ReadRunResults(p)
    PROVE  /\ ControlTypeOK' /\ OnlyTouches(p)
           /\ pc' = pc /\ request' = request
           /\ pc[p] = "reading" /\ job[p] \in Job /\ job'[p] \in Job
           /\ job'[p].run = job[p].run /\ job'[p].target = job[p].target
           /\ job'[p].binding = job[p].binding
           /\ \/ /\ job'[p].manifest = store[job[p].target].manifest
                 /\ job'[p].manifest # 0
                 /\ job'[p].runResults = job[p].runResults
              \/ /\ job'[p].runResults = store[job[p].target].runResults
                 /\ job'[p].runResults # 0
                 /\ job'[p].manifest = job[p].manifest
<1> USE DEF TypeInv
<1>1. pc[p] = "reading" /\ job[p] \in Job /\ job[p].target \in Targets
  BY DEF ReadManifest, ReadRunResults, ControlInv, Job
<1>2. /\ store[job[p].target].manifest \in Version
      /\ store[job[p].target].runResults \in Version
  BY <1>1 DEF StoreTypeOK, Contents
<1>3. CASE ReadManifest(p)
  <2> DEFINE new == [job[p] EXCEPT !.manifest = store[job[p].target].manifest]
  <2>1. job' = [job EXCEPT ![p] = new] /\ UNCHANGED <<request, pc, refresh>>
    BY <1>3 DEF ReadManifest
  <2>2. /\ new \in Job /\ new.run = job[p].run /\ new.target = job[p].target
        /\ new.binding = job[p].binding /\ new.runResults = job[p].runResults
        /\ new.manifest = store[job[p].target].manifest /\ new.manifest # 0
    BY <1>1, <1>2, <1>3 DEF Job, ReadManifest
  <2> HIDE DEF new
  <2>3. job'[p] = new
    BY <2>1 DEF ControlInv, ControlTypeOK
  <2>4. ControlTypeOK' /\ OnlyTouches(p)
    BY <2>1, <2>2 DEF ControlInv, ControlTypeOK, OnlyTouches, Untouched
  <2> QED  BY <1>1, <2>1, <2>2, <2>3, <2>4
<1>4. CASE ReadRunResults(p)
  <2> DEFINE new == [job[p] EXCEPT !.runResults = store[job[p].target].runResults]
  <2>1. job' = [job EXCEPT ![p] = new] /\ UNCHANGED <<request, pc, refresh>>
    BY <1>4 DEF ReadRunResults
  <2>2. /\ new \in Job /\ new.run = job[p].run /\ new.target = job[p].target
        /\ new.binding = job[p].binding /\ new.manifest = job[p].manifest
        /\ new.runResults = store[job[p].target].runResults /\ new.runResults # 0
    BY <1>1, <1>2, <1>4 DEF Job, ReadRunResults
  <2> HIDE DEF new
  <2>3. job'[p] = new
    BY <2>1 DEF ControlInv, ControlTypeOK
  <2>4. ControlTypeOK' /\ OnlyTouches(p)
    BY <2>1, <2>2 DEF ControlInv, ControlTypeOK, OnlyTouches, Untouched
  <2> QED  BY <1>1, <2>1, <2>2, <2>3, <2>4
<1> QED  BY <1>3, <1>4

\* The end of a read answers the request; an applied configure stays on record.
LEMMA FinishStep ==
    ASSUME TypeInv, NEW p \in Processes, FinishRead(p)
    PROVE  /\ ControlTypeOK' /\ OnlyTouches(p)
           /\ pc[p] = "reading" /\ pc'[p] = "returned"
           /\ \/ /\ p \in Handlers /\ request[p].op = "configure"
                 /\ request'[p] = request[p] /\ job'[p] = job[p]
              \/ p \in Handlers => request'[p] = None
<1> USE Disjoint DEF TypeInv
<1>1. CASE Configures(p)
  <2>1. pc' = [pc EXCEPT ![p] = "returned"] /\ UNCHANGED <<request, job, refresh>>
    BY <1>1 DEF FinishRead
  <2>2. ControlTypeOK' /\ OnlyTouches(p) /\ pc'[p] = "returned"
    BY <2>1 DEF ControlInv, ControlTypeOK, ProgramCounter, Settled, OnlyTouches, Untouched
  <2> QED  BY <1>1, <2>1, <2>2 DEF FinishRead, Configures
<1>2. CASE ~Configures(p)
  <2>1. Settle(p, "returned")
    BY <1>2 DEF FinishRead
  <2> QED  BY <2>1, SettleStep DEF FinishRead, ControlInv, Settled
<1> QED  BY <1>1, <1>2

LEMMA ReadsType ==
    ASSUME TypeInv, NEW p \in Processes, Reads(p)
    PROVE  TypeInv'
<1> USE Disjoint DEF TypeInv
<1>1. CASE ReadManifest(p) \/ ReadRunResults(p)
  <2>1. ControlInv'
    <3>1. p \in Handlers => request[p] \in Request
      BY <1>1, FileStep DEF ControlInv, Busy
    <3>2. job[p].run \in Run /\ job[p].run.target = job[p].target
      BY <1>1, FileStep DEF ControlInv
    <3> QED  BY <1>1, <3>1, <3>2, FileStep, TouchedInv
  <2> QED
    BY <1>1, <2>1
       DEF ReadManifest, ReadRunResults, sessionVars, SessionTypeOK, storeVars, StoreTypeOK
<1>2. CASE ReadFails(p)
  <2>1. ControlInv'
    BY <1>2, SettledInv DEF ReadFails, Settled
  <2>2. StoreTypeOK'
    BY <1>2, StoreKeepsType DEF ReadFails, StoreKept
  <2> QED  BY <1>2, <2>1, <2>2 DEF ReadFails, sessionVars, SessionTypeOK
<1>3. CASE FinishRead(p)
  <2>1. job[p] \in Job /\ job[p].run \in Run
    BY <1>3 DEF FinishRead, ControlInv
  <2>2. [run |-> job[p].run, manifest |-> job[p].manifest,
         runResults |-> job[p].runResults] \in Payload
    BY <2>1 DEF Job, Payload
  <2>3. SessionTypeOK'
    BY <1>3, <2>2 DEF FinishRead, SessionTypeOK
  <2>4. ControlInv'
    BY <1>3, FinishStep, TouchedInv DEF Busy
  <2> QED  BY <1>3, <2>3, <2>4 DEF FinishRead, storeVars, StoreTypeOK
<1> QED  BY <1>1, <1>2, <1>3 DEF Reads

LEMMA SendType ==
    ASSUME TypeInv, NEW h \in Handlers, Send(h)
    PROVE  TypeInv'
<1> USE Disjoint DEF TypeInv
<1>1. PICK op \in Ops, target \in Targets \cup {None} : SendRequest(h, op, target)
  BY DEF Send
<1> DEFINE new == [op |-> op, target |-> target]
<1>2. new \in Request
  BY DEF Request
<1> HIDE DEF new
<1>3. /\ request' = [request EXCEPT ![h] = new]
      /\ pc' = [pc EXCEPT ![h] = "awaitingReady"] /\ job' = [job EXCEPT ![h] = None]
      /\ UNCHANGED refresh
  BY <1>1 DEF SendRequest, new
<1>4. ControlTypeOK' /\ OnlyTouches(h) /\ pc'[h] = "awaitingReady" /\ request'[h] = new
  BY <1>2, <1>3
     DEF ControlInv, ControlTypeOK, ProgramCounter, OnlyTouches, Untouched
<1>5. ControlInv'
  BY <1>2, <1>4, TouchedInv
<1> QED
  BY <1>1, <1>5 DEF SendRequest, sessionVars, SessionTypeOK, storeVars, StoreTypeOK

LEMMA NextType == TypeInv /\ [Next]_vars => TypeInv'
<1> SUFFICES ASSUME TypeInv, [Next]_vars PROVE TypeInv'
  OBVIOUS
<1>1. CASE StoreStep \/ UNCHANGED vars
  <2>1. StoreTypeOK'
    BY <1>1, StoreKeepsType DEF StoreStep, StoreKept, vars, TypeInv
  <2>2. UNCHANGED <<sessionVars, sessionGeneration, remoteRefreshError, controlVars>>
    BY <1>1 DEF StoreStep, vars
  <2> QED
    BY <2>1, <2>2
       DEF TypeInv, sessionVars, controlVars, SessionTypeOK, ControlInv, ControlTypeOK
<1> QED
  BY <1>1, SendType, StartType, DiscoveriesType, ReadsType, RefreshType, Disjoint DEF Next

LEMMA InitType == Init => TypeInv
<1> SUFFICES ASSUME Init PROVE TypeInv
  OBVIOUS
<1>1. StoreTypeOK
  BY StoreAssumption DEF Init, StoreInit, StoreTypeOK, Contents, Version
<1>2. SessionTypeOK
  BY DEF Init, SessionTypeOK
<1>3. PICK t \in Targets \cup {None} :
        /\ pc = [p \in Processes |-> IF p # Boot THEN "idle"
                                     ELSE IF t = None THEN "returned" ELSE "discovering"]
        /\ job = [p \in Processes |-> IF p = Boot /\ t # None
                                      THEN NewJob(t, 0, None, None) ELSE None]
  BY DEF Init
<1>4. t # None => NewJob(t, 0, None, None) \in Job
  BY NewJobType
<1>5. ControlInv
  BY <1>3, <1>4, Disjoint
     DEF Init, ControlInv, ControlTypeOK, ProgramCounter, Settled, Busy
<1> QED  BY <1>1, <1>2, <1>5 DEF TypeInv

\* Every variable of the service has its type, whatever routes overlap.
THEOREM TypeCorrect == Spec => []TypeOK
BY InitType, NextType, TypeParts, PTL DEF Spec

-----------------------------------------------------------------------------
(* Who may be where: what a request may have asked for at each stage, and   *)
(* that nothing starts before the bootstrap has ended.                      *)

PhaseOf(h) ==
    /\ request[h] # None => request[h].op \in Uses[h]
    /\ pc[h] = "discovering" => request[h].op = "configure"
    /\ pc[h] = "reading" => request[h].op # "refresh"
    /\ pc[h] \in Settled \cup {"idle"} =>
          request[h] = None \/ (pc[h] = "returned" /\ request[h].op = "configure")

BootFirst == pc[Boot] # "returned" =>
                 \A h \in Handlers : pc[h] \in {"idle", "awaitingReady", "threw"}

PhaseInv == BootFirst /\ \A h \in Handlers : PhaseOf(h)

LEMMA PhaseTouched ==
    ASSUME PhaseInv, NEW p \in Processes, OnlyTouches(p),
           p \in Handlers => PhaseOf(p)',
           p = Boot => pc[Boot] # "returned",
           p \in Handlers => pc[Boot] = "returned" \/ pc'[p] \in {"awaitingReady", "threw"}
    PROVE  PhaseInv'
<1> USE Disjoint DEF PhaseInv, OnlyTouches, Untouched
<1>1. BootFirst'
  BY DEF BootFirst
<1>2. \A h \in Handlers : h # p => PhaseOf(h)'
  BY DEF PhaseOf
<1> QED  BY <1>1, <1>2

LEMMA NoneIsNoRequest == None \notin Request /\ None \notin Run /\ None \notin Payload
BY NoneIsNoValue, NoneIsNoRun

LEMMA SettlePhase ==
    ASSUME TypeInv, PhaseInv, NEW h \in Handlers, NEW outcome \in Settled,
           Settle(h, outcome), pc[Boot] = "returned" \/ outcome = "threw"
    PROVE  PhaseInv'
<1>1. OnlyTouches(h) /\ pc'[h] = outcome /\ request'[h] = None
  BY SettleStep, Disjoint DEF TypeInv, ControlInv
<1>2. PhaseOf(h)'
  BY <1>1 DEF PhaseOf, Settled
<1> QED  BY <1>1, <1>2, PhaseTouched, Disjoint DEF Settled

LEMMA StartPhase ==
    ASSUME TypeInv, PhaseInv, NEW h \in Handlers, Start(h)
    PROVE  PhaseInv'
<1> USE Disjoint DEF TypeInv
<1>1. pc[h] = "awaitingReady" /\ request[h] \in Request /\ request[h] # None
  <2>1. pc[h] = "awaitingReady"
    BY DEF Start, RefuseUnready, StartConfigure, StartRefresh, RejectSelect, StartSelect,
           StartGetCurrent, Selects, Ready
  <2> QED  BY <2>1, NoneIsNoRequest DEF ControlInv, Busy
<1>2. request[h].op \in Uses[h]
  BY <1>1 DEF PhaseInv, PhaseOf
<1>3. CASE RefuseUnready(h)
  BY <1>3, SettlePhase DEF RefuseUnready, Settled
<1>4. CASE ~RefuseUnready(h)
  <2>1. pc[Boot] = "returned"
    BY <1>4
       DEF Start, StartConfigure, StartRefresh, RejectSelect, StartSelect, StartGetCurrent,
           Selects, Ready
  <2>2. CASE \E outcome \in Settled : Settle(h, outcome)
    BY <2>1, <2>2, SettlePhase
  <2>3. CASE StartConfigure(h) /\ pc' = [pc EXCEPT ![h] = "discovering"]
             /\ UNCHANGED <<request, refresh>>
    <3>1. OnlyTouches(h) /\ pc'[h] = "discovering" /\ request'[h] = request[h]
      <4>1. PICK new : job' = [job EXCEPT ![h] = new]
        <5>1. request[h].target # None
          <6>1. SUFFICES ASSUME Settle(h, "threw") PROVE FALSE
            BY <2>3 DEF StartConfigure
          <6>2. pc'[h] = "threw"
            BY <6>1, SettleStep DEF ControlInv, Settled
          <6> QED  BY <2>3, <6>2 DEF ControlInv, ControlTypeOK
        <5> QED  BY <2>3, <5>1 DEF StartConfigure
      <4> QED  BY <2>3, <4>1 DEF ControlInv, ControlTypeOK, OnlyTouches, Untouched
    <3>2. request[h].op = "configure"
      BY <2>3 DEF StartConfigure, Ready
    <3>3. PhaseOf(h)'
      BY <1>2, <3>1, <3>2 DEF PhaseOf, Settled
    <3> QED  BY <2>1, <3>1, <3>3, PhaseTouched
  <2>4. CASE StartRefresh(h) /\ pc' = [pc EXCEPT ![h] = "joined"]
             /\ UNCHANGED <<request, job>>
    <3>1. OnlyTouches(h) /\ pc'[h] = "joined" /\ request'[h] = request[h]
      BY <2>4 DEF ControlInv, ControlTypeOK, OnlyTouches, Untouched
    <3>2. PhaseOf(h)'
      BY <1>2, <3>1 DEF PhaseOf, Settled
    <3> QED  BY <2>1, <3>1, <3>2, PhaseTouched
  <2>5. CASE (StartSelect(h) \/ StartGetCurrent(h)) /\ \E run \in runs : ReadSelected(h, run)
    <3>1. OnlyTouches(h) /\ pc'[h] = "reading" /\ request' = request
      BY <2>5, ReadSelectedStep DEF ControlInv, SessionTypeOK
    <3>2. PhaseOf(h)'
      BY <1>2, <2>5, <3>1
         DEF PhaseOf, StartSelect, Selects, StartGetCurrent, Ready, Settled
    <3> QED  BY <2>1, <3>1, <3>2, PhaseTouched
  <2>6. \/ \E outcome \in Settled : Settle(h, outcome)
        \/ StartConfigure(h) /\ pc' = [pc EXCEPT ![h] = "discovering"]
             /\ UNCHANGED <<request, refresh>>
        \/ StartRefresh(h) /\ pc' = [pc EXCEPT ![h] = "joined"] /\ UNCHANGED <<request, job>>
        \/ (StartSelect(h) \/ StartGetCurrent(h)) /\ \E run \in runs : ReadSelected(h, run)
    <3>1. CASE StartConfigure(h)
      BY <3>1 DEF StartConfigure, Settled
    <3>2. CASE StartRefresh(h)
      BY <3>2 DEF StartRefresh, Settled
    <3>3. CASE RejectSelect(h)
      BY <3>3 DEF RejectSelect, Settled
    <3>4. CASE StartSelect(h)
      BY <3>4 DEF StartSelect
    <3>5. CASE StartGetCurrent(h)
      BY <3>5 DEF StartGetCurrent, Settled
    <3> QED  BY <1>4, <3>1, <3>2, <3>3, <3>4, <3>5 DEF Start
  <2> QED  BY <2>2, <2>3, <2>4, <2>5, <2>6
<1> QED  BY <1>3, <1>4

\* Whoever discovers or reads is Boot, or started after Boot had returned.
LEMMA UnderwayAfterBoot ==
    ASSUME PhaseInv, NEW h \in Handlers, pc[h] \in {"discovering", "reading", "returned"}
    PROVE  pc[Boot] = "returned"
BY DEF PhaseInv, BootFirst

LEMMA DiscoveriesPhase ==
    ASSUME TypeInv, PhaseInv, NEW p \in Processes, Discovers(p) \/ BootDiscovers
    PROVE  PhaseInv'
<1> USE Disjoint DEF TypeInv
<1>1. ASSUME NEW q \in Processes, pc[q] = "discovering",
             NEW run \in DiscoveredRuns(job[q].target), ApplySelected(q, run)
      PROVE  PhaseInv'
  <2>1. job[q].target \in Targets
    BY <1>1 DEF ControlInv, Job
  <2>2. run \in Run
    BY <1>1, <2>1, DiscoveredType
  <2>3. OnlyTouches(q) /\ pc'[q] = "reading" /\ request' = request
    BY <1>1, <2>2, ReadSelectedStep DEF ApplySelected, ControlInv
  <2>4. q \in Handlers => pc[Boot] = "returned" /\ PhaseOf(q)'
    BY <1>1, <2>3, UnderwayAfterBoot DEF PhaseInv, PhaseOf, Settled
  <2> QED  BY <1>1, <2>3, <2>4, PhaseTouched
<1>2. ASSUME NEW q \in Processes, pc[q] = "discovering", NEW outcome \in Settled,
             Settle(q, outcome)
      PROVE  PhaseInv'
  <2>1. CASE q \in Handlers
    BY <1>2, <2>1, UnderwayAfterBoot, SettlePhase
  <2>2. CASE q = Boot
    <3>1. OnlyTouches(q)
      BY <1>2, SettleStep DEF ControlInv
    <3> QED  BY <1>2, <2>2, <3>1, PhaseTouched
  <2> QED  BY <2>1, <2>2
<1>3. CASE ConfigureDiscovers(p)
  BY <1>1, <1>2, <1>3 DEF ConfigureDiscovers, Settled
<1>4. CASE DiscoveryFails(p)
  BY <1>2, <1>4 DEF DiscoveryFails, Settled
<1>5. CASE BootDiscovers
  BY <1>1, <1>2, <1>5 DEF BootDiscovers, Settled
<1> QED  BY <1>3, <1>4, <1>5 DEF Discovers

LEMMA RefreshPhase ==
    ASSUME TypeInv, PhaseInv, NEW ok, SettleRefresh(ok)
    PROVE  PhaseInv'
<1> USE Disjoint DEF TypeInv
<1>1. \A q \in Processes :
         \/ Untouched(q)
         \/ /\ pc[q] = "joined" /\ pc'[q] = "returned" /\ job'[q] = job[q]
            /\ q \in Handlers => request'[q] = None
  BY SettleRefreshStep DEF ControlInv
<1>2. \A h \in Handlers : PhaseOf(h)'
  <2> SUFFICES ASSUME NEW h \in Handlers PROVE PhaseOf(h)'
    OBVIOUS
  <2>1. CASE Untouched(h)
    BY <2>1 DEF Untouched, PhaseInv, PhaseOf
  <2>2. CASE ~Untouched(h)
    BY <1>1, <2>2 DEF PhaseOf, Settled
  <2> QED  BY <2>1, <2>2
<1>3. pc'[Boot] = pc[Boot]
  BY <1>1 DEF Untouched, ControlInv
<1>4. pc[Boot] # "returned" => \A h \in Handlers : Untouched(h)
  BY <1>1 DEF PhaseInv, BootFirst
<1>5. BootFirst'
  BY <1>3, <1>4 DEF PhaseInv, BootFirst, Untouched
<1> QED  BY <1>2, <1>5 DEF PhaseInv

LEMMA ReadsPhase ==
    ASSUME TypeInv, PhaseInv, NEW p \in Processes, Reads(p)
    PROVE  PhaseInv'
<1> USE Disjoint DEF TypeInv
<1>1. pc[p] = "reading"
  BY DEF Reads, ReadManifest, ReadRunResults, ReadFails, FinishRead
<1>2. p \in Handlers => pc[Boot] = "returned" /\ PhaseOf(p)
  BY <1>1, UnderwayAfterBoot DEF PhaseInv
<1>3. CASE ReadManifest(p) \/ ReadRunResults(p)
  <2>1. OnlyTouches(p) /\ pc' = pc /\ request' = request
    BY <1>3, FileStep
  <2> QED  BY <1>1, <1>2, <2>1, PhaseTouched DEF PhaseOf
<1>4. CASE ReadFails(p)
  <2>1. OnlyTouches(p) /\ pc'[p] = "threw" /\ (p \in Handlers => request'[p] = None)
    BY <1>4, SettleStep DEF ReadFails, ControlInv, Settled
  <2> QED  BY <1>1, <1>2, <2>1, PhaseTouched DEF PhaseOf, Settled
<1>5. CASE FinishRead(p)
  <2>1. /\ OnlyTouches(p) /\ pc'[p] = "returned"
        /\ \/ p \in Handlers /\ request[p].op = "configure" /\ request'[p] = request[p]
           \/ p \in Handlers => request'[p] = None
    BY <1>5, FinishStep
  <2>2. p \in Handlers => PhaseOf(p)'
    BY <1>1, <1>2, <2>1 DEF PhaseOf, Settled
  <2> QED  BY <1>1, <1>2, <2>1, <2>2, PhaseTouched
<1> QED  BY <1>3, <1>4, <1>5 DEF Reads

\* What a new request leaves.
LEMMA SendStep ==
    ASSUME TypeInv, NEW h \in Handlers, Send(h)
    PROVE  /\ OnlyTouches(h) /\ pc'[h] = "awaitingReady"
           /\ request'[h] \in Request /\ request'[h].op \in Uses[h]
           /\ UNCHANGED <<storeVars, sessionVars, sessionGeneration>>
<1> USE Disjoint DEF TypeInv
<1>1. PICK op \in Ops, target \in Targets \cup {None} : SendRequest(h, op, target)
  BY DEF Send
<1> DEFINE new == [op |-> op, target |-> target]
<1>2. new \in Request /\ new.op = op /\ op \in Uses[h]
  BY <1>1 DEF Request, SendRequest
<1> HIDE DEF new
<1>3. /\ request' = [request EXCEPT ![h] = new]
      /\ pc' = [pc EXCEPT ![h] = "awaitingReady"] /\ job' = [job EXCEPT ![h] = None]
      /\ UNCHANGED <<storeVars, sessionVars, sessionGeneration>>
  BY <1>1 DEF SendRequest, new
<1> QED  BY <1>2, <1>3 DEF ControlInv, ControlTypeOK, OnlyTouches, Untouched

LEMMA NextPhase == TypeInv /\ PhaseInv /\ [Next]_vars => PhaseInv'
<1> SUFFICES ASSUME TypeInv, PhaseInv, [Next]_vars PROVE PhaseInv'
  OBVIOUS
<1>1. CASE StoreStep \/ UNCHANGED vars
  BY <1>1 DEF StoreStep, vars, controlVars, PhaseInv, BootFirst, PhaseOf
<1>2. ASSUME NEW h \in Handlers, Send(h) PROVE PhaseInv'
  <2>1. /\ OnlyTouches(h) /\ pc'[h] = "awaitingReady"
        /\ request'[h] \in Request /\ request'[h].op \in Uses[h]
    BY <1>2, SendStep
  <2>2. PhaseOf(h)'
    BY <2>1 DEF PhaseOf, Settled
  <2> QED  BY <2>1, <2>2, PhaseTouched, Disjoint
<1>3. CASE RefreshStep
  BY <1>3, RefreshPhase DEF RefreshStep, RefreshDiscovers, RefreshFails
<1> QED
  BY <1>1, <1>2, <1>3, StartPhase, DiscoveriesPhase, ReadsPhase, Disjoint DEF Next

LEMMA InitPhase == Init => PhaseInv
BY Disjoint DEF Init, PhaseInv, BootFirst, PhaseOf

-----------------------------------------------------------------------------
(* A configure in effect. *)

Configured(h) ==
    /\ request[h] # None /\ request[h].op = "configure"
    /\ pc[h] \in {"discovering", "reading", "returned"}

Applied(h) == Configured(h) /\ pc[h] # "discovering"

Epoch(h) == job[h].binding.epoch

\* The job of a configure is about the location it named.
JobOf(h) ==
    Configured(h) =>
        /\ job[h] \in Job /\ request[h].target \in Targets
        /\ job[h].target = request[h].target
        /\ Epoch(h) <= sessionGeneration
        /\ Applied(h) => /\ job[h].run \in Run /\ job[h].run.target = request[h].target
                         /\ job[h].binding.scopeKey = CurrentRunId

\* Once it is applied, the session is at that location until the next configure.
InEffect(h) ==
    Applied(h) /\ Epoch(h) = sessionGeneration =>
        /\ loadedVersion \in Run /\ loadedVersion.target = request[h].target
        /\ selectedRunId = CurrentRunId
        /\ pc[h] = "returned" =>
              /\ loadedArtifactCache \in Payload
              /\ loadedArtifactCache.run.target = request[h].target

\* Two configures are of two generations.
OwnEpochs ==
    \A h, k \in Handlers : Configured(h) /\ Configured(k) /\ h # k => Epoch(h) # Epoch(k)

EffectInv == OwnEpochs /\ \A h \in Handlers : JobOf(h) /\ InEffect(h)

NoSelection == \A h \in Handlers : Uses[h] \cap {"accept", "switch"} = {}

\* No one else than p is at the current generation.
OthersSuperseded(p) ==
    \A h \in Handlers : h # p /\ Configured(h) => Epoch(h) # sessionGeneration

\* What a step of p may do to the session under configures in effect.
KeepsEffect(p) ==
    \/ OthersSuperseded(p)
    \/ /\ UNCHANGED <<loadedVersion, selectedRunId>>
       /\ \/ UNCHANGED loadedArtifactCache
          \/ /\ loadedArtifactCache' \in Payload
             /\ loadedArtifactCache'.run.target = loadedVersion.target

LEMMA EffectTouched ==
    ASSUME EffectInv, NEW p \in Processes, OnlyTouches(p), UNCHANGED sessionGeneration,
           p \in Handlers =>
               /\ JobOf(p)' /\ InEffect(p)'
               /\ Configured(p)' => Configured(p) /\ Epoch(p)' = Epoch(p),
           KeepsEffect(p)
    PROVE  EffectInv'
<1> USE Disjoint DEF EffectInv, OnlyTouches, Untouched
<1>1. \A h \in Handlers : h # p =>
         /\ Configured(h)' = Configured(h) /\ Applied(h)' = Applied(h)
         /\ Epoch(h)' = Epoch(h)
  BY DEF Configured, Applied, Epoch
<1>2. \A h \in Handlers : h # p => JobOf(h)'
  BY <1>1 DEF JobOf
<1>3. \A h \in Handlers : h # p => InEffect(h)'
  <2> SUFFICES ASSUME NEW h \in Handlers, h # p, Applied(h), Epoch(h) = sessionGeneration
               PROVE  InEffect(h)'
    BY <1>1 DEF InEffect
  <2>1. ~OthersSuperseded(p)
    BY DEF OthersSuperseded, Applied
  <2>2. UNCHANGED <<loadedVersion, selectedRunId>>
    BY <2>1 DEF KeepsEffect
  <2>3. request'[h] = request[h] /\ pc'[h] = pc[h]
    OBVIOUS
  <2>4. /\ loadedVersion \in Run /\ loadedVersion.target = request[h].target
        /\ selectedRunId = CurrentRunId
        /\ pc[h] = "returned" =>
              /\ loadedArtifactCache \in Payload
              /\ loadedArtifactCache.run.target = request[h].target
    BY DEF InEffect
  <2> QED  BY <2>1, <2>2, <2>3, <2>4 DEF KeepsEffect, InEffect
<1>4. OwnEpochs'
  BY <1>1 DEF OwnEpochs
<1> QED  BY <1>2, <1>3, <1>4

\* A request that is answered with an error, or is none that configures.
LEMMA SettleKeepsEffect ==
    ASSUME TypeInv, EffectInv, NEW p \in Processes, NEW outcome \in Settled,
           Settle(p, outcome), UNCHANGED sessionGeneration, KeepsEffect(p)
    PROVE  EffectInv'
<1>1. OnlyTouches(p) /\ (p \in Handlers => request'[p] = None)
  BY SettleStep DEF TypeInv, ControlInv
<1>2. p \in Handlers => ~Configured(p)'
  BY <1>1 DEF Configured
<1> QED
  BY <1>1, <1>2, EffectTouched DEF JobOf, InEffect, Applied

\* While Boot is at work nothing is configured yet.
LEMMA BootAlone ==
    ASSUME PhaseInv, pc[Boot] # "returned"
    PROVE  \A h \in Handlers : ~Configured(h)
BY DEF PhaseInv, BootFirst, Configured

LEMMA StartEffect ==
    ASSUME TypeInv, PhaseInv, EffectInv, NoSelection, NEW h \in Handlers, Start(h)
    PROVE  EffectInv'
<1> USE Disjoint DEF TypeInv
<1>1. pc[h] = "awaitingReady" /\ request[h] \in Request /\ request[h] # None
  <2>1. pc[h] = "awaitingReady"
    BY DEF Start, RefuseUnready, StartConfigure, StartRefresh, RejectSelect, StartSelect,
           StartGetCurrent, Selects, Ready
  <2> QED  BY <2>1, NoneIsNoRequest DEF ControlInv, Busy
<1>2. request[h].op \notin {"accept", "switch"}
  BY <1>1 DEF PhaseInv, PhaseOf, NoSelection
<1>3. ~RejectSelect(h) /\ ~StartSelect(h)
  BY <1>2 DEF RejectSelect, StartSelect, Selects, Ready
<1>4. CASE ~StartConfigure(h)
  <2>1. UNCHANGED <<sessionVars, sessionGeneration>>
    BY <1>3, <1>4 DEF Start, RefuseUnready, StartRefresh, StartGetCurrent
  <2>2. KeepsEffect(h)
    BY <2>1 DEF KeepsEffect, sessionVars
  <2>3. CASE \E outcome \in Settled : Settle(h, outcome)
    BY <2>1, <2>2, <2>3, SettleKeepsEffect
  <2>4. CASE StartRefresh(h) /\ pc' = [pc EXCEPT ![h] = "joined"] /\ UNCHANGED <<request, job>>
    <3>1. OnlyTouches(h) /\ pc'[h] = "joined"
      BY <2>4 DEF ControlInv, ControlTypeOK, OnlyTouches, Untouched
    <3>2. ~Configured(h)'
      BY <3>1 DEF Configured
    <3> QED  BY <2>1, <2>2, <3>1, <3>2, EffectTouched DEF JobOf, InEffect, Applied
  <2>5. CASE StartGetCurrent(h) /\ \E run \in runs : ReadSelected(h, run)
    <3>1. OnlyTouches(h) /\ request' = request
      BY <2>5, ReadSelectedStep DEF ControlInv, SessionTypeOK
    <3>2. ~Configured(h)'
      BY <2>5, <3>1 DEF Configured, StartGetCurrent, Ready
    <3> QED  BY <2>1, <2>2, <3>1, <3>2, EffectTouched DEF JobOf, InEffect, Applied
  <2> QED
    BY <1>3, <1>4, <2>3, <2>4, <2>5
       DEF Start, RefuseUnready, StartRefresh, StartGetCurrent, Settled
<1>5. CASE StartConfigure(h)
  <2>1. sessionGeneration \in Nat /\ sessionGeneration' = sessionGeneration + 1
    BY <1>5 DEF StartConfigure, SessionTypeOK
  <2>2. /\ OnlyTouches(h)
        /\ \/ ~Configured(h)'
           \/ /\ request'[h] = request[h] /\ request[h].target \in Targets
              /\ pc'[h] = "discovering"
              /\ job'[h] \in Job /\ job'[h].target = request[h].target
              /\ job'[h].binding.epoch = sessionGeneration + 1
    <3>1. CASE request[h].target = None
      <4>1. Settle(h, "threw")
        BY <1>5, <3>1 DEF StartConfigure
      <4>2. OnlyTouches(h) /\ request'[h] = None
        BY <4>1, SettleStep DEF ControlInv, Settled
      <4> QED  BY <4>2 DEF Configured
    <3>2. CASE request[h].target # None
      <4> DEFINE new == NewJob(request[h].target, sessionGeneration + 1, None, None)
      <4>1. request[h].target \in Targets
        BY <1>1, <3>2 DEF Request
      <4>2. new \in Job /\ new.target = request[h].target
            /\ new.binding.epoch = sessionGeneration + 1
        <5>1. sessionGeneration + 1 \in Nat
          BY <2>1
        <5> QED  BY <4>1, <5>1, NewJobType
      <4> HIDE DEF new
      <4>3. /\ pc' = [pc EXCEPT ![h] = "discovering"] /\ job' = [job EXCEPT ![h] = new]
            /\ UNCHANGED <<request, refresh>>
        BY <1>5, <3>2 DEF StartConfigure, new
      <4> QED
        BY <4>1, <4>2, <4>3
           DEF ControlInv, ControlTypeOK, OnlyTouches, Untouched
    <3> QED  BY <3>1, <3>2
  <2>3. \A k \in Handlers : k # h =>
           /\ Configured(k)' = Configured(k) /\ Applied(k)' = Applied(k)
           /\ Epoch(k)' = Epoch(k)
           /\ request'[k] = request[k] /\ job'[k] = job[k]
    BY <2>2 DEF OnlyTouches, Untouched, Configured, Applied, Epoch
  <2>4. \A k \in Handlers : Configured(k) => Epoch(k) \in Nat /\ Epoch(k) <= sessionGeneration
    BY DEF EffectInv, JobOf, Epoch, Job, Binding
  <2>5. \A k \in Handlers : JobOf(k)'
    <3>1. \A k \in Handlers : k # h => JobOf(k)'
      <4> SUFFICES ASSUME NEW k \in Handlers, k # h, Configured(k)
                   PROVE  JobOf(k)'
        BY <2>3 DEF JobOf
      <4>1. Epoch(k) <= sessionGeneration + 1
        BY <2>1, <2>4
      <4> QED  BY <2>1, <2>3, <4>1 DEF EffectInv, JobOf
    <3>2. JobOf(h)'
      <4>1. CASE ~Configured(h)'
        BY <4>1 DEF JobOf
      <4>2. CASE Configured(h)'
        BY <2>1, <2>2, <4>2 DEF JobOf, Applied, Epoch
      <4> QED  BY <4>1, <4>2
    <3> QED  BY <3>1, <3>2
  <2>6. \A k \in Handlers : InEffect(k)'
    <3>1. \A k \in Handlers : k # h => InEffect(k)'
      <4> SUFFICES ASSUME NEW k \in Handlers, k # h, Configured(k)
                   PROVE  Epoch(k)' # sessionGeneration'
        BY <2>3 DEF InEffect, Applied
      <4> QED  BY <2>1, <2>3, <2>4
    <3>2. ~Applied(h)'
      BY <2>2 DEF Applied
    <3> QED  BY <3>1, <3>2 DEF InEffect
  <2>7. OwnEpochs'
    <3>1. Configured(h)' => Epoch(h)' = sessionGeneration + 1
      BY <2>2 DEF Epoch
    <3>2. \A k \in Handlers : k # h /\ Configured(k)' => Epoch(k)' # sessionGeneration + 1
      BY <2>1, <2>3, <2>4
    <3>3. \A k, l \in Handlers : k # h /\ l # h /\ k # l /\ Configured(k)' /\ Configured(l)'
                                    => Epoch(k)' # Epoch(l)'
      BY <2>3 DEF EffectInv, OwnEpochs
    <3> QED  BY <3>1, <3>2, <3>3 DEF OwnEpochs
  <2> QED  BY <2>5, <2>6, <2>7 DEF EffectInv
<1> QED  BY <1>4, <1>5

LEMMA DiscoveriesEffect ==
    ASSUME TypeInv, PhaseInv, EffectInv, NEW p \in Processes, Discovers(p) \/ BootDiscovers
    PROVE  EffectInv'
<1> USE Disjoint DEF TypeInv
<1>1. CASE ConfigureDiscovers(p)
  <2>1. p \in Handlers /\ pc[p] = "discovering" /\ UNCHANGED sessionGeneration
    BY <1>1 DEF ConfigureDiscovers
  <2>2. request[p] \in Request /\ request[p] # None /\ request[p].op = "configure"
    BY <2>1, NoneIsNoRequest DEF ControlInv, Busy, PhaseInv, PhaseOf
  <2>3. Configured(p)
    BY <2>1, <2>2 DEF Configured
  <2>4. /\ job[p] \in Job /\ request[p].target \in Targets
        /\ job[p].target = request[p].target
    BY <2>1, <2>3 DEF EffectInv, JobOf
  <2>5. CASE DiscoveryIsCurrent(job[p].binding)
             /\ \E run \in DiscoveredRuns(job[p].target) : ApplySelected(p, run)
    <3>1. PICK run \in DiscoveredRuns(job[p].target) : ApplySelected(p, run)
      BY <2>5
    <3>2. run \in Run /\ run.target = request[p].target
      BY <2>4, DiscoveredType
    <3>3. Epoch(p) = sessionGeneration
      BY <2>5 DEF DiscoveryIsCurrent, IsSessionBindingCurrent, Epoch
    <3>4. OthersSuperseded(p)
      BY <2>1, <2>3, <3>3 DEF OthersSuperseded, EffectInv, OwnEpochs
    <3>5. /\ OnlyTouches(p) /\ pc'[p] = "reading" /\ request' = request
          /\ job'[p] = NewJob(run.target, sessionGeneration, CurrentRunId, run)
      BY <3>1, <3>2, ReadSelectedStep DEF ApplySelected, ControlInv
    <3>6. /\ job'[p] \in Job /\ job'[p].target = run.target /\ job'[p].run = run
          /\ job'[p].binding.epoch = sessionGeneration
          /\ job'[p].binding.scopeKey = CurrentRunId
      BY <2>4, <3>2, <3>5, NewJobType DEF SessionTypeOK
    <3>7. loadedVersion' = run /\ selectedRunId' = CurrentRunId
      BY <3>1 DEF ApplySelected, CommitVersion
    <3>8. JobOf(p)'
      BY <2>1, <2>4, <3>2, <3>5, <3>6 DEF JobOf, Epoch, SessionTypeOK
    <3>9. InEffect(p)'
      BY <2>1, <3>2, <3>5, <3>7 DEF InEffect
    <3>10. Epoch(p)' = Epoch(p)
      BY <3>3, <3>6 DEF Epoch
    <3> QED
      BY <2>1, <2>3, <3>4, <3>5, <3>8, <3>9, <3>10, EffectTouched DEF KeepsEffect
  <2>6. CASE \E outcome \in Settled : Settle(p, outcome) /\ UNCHANGED sessionVars
    BY <2>1, <2>6, SettleKeepsEffect DEF KeepsEffect, sessionVars
  <2> QED  BY <1>1, <2>5, <2>6 DEF ConfigureDiscovers, Settled
<1>2. CASE DiscoveryFails(p)
  BY <1>2, SettleKeepsEffect DEF DiscoveryFails, KeepsEffect, sessionVars, Settled
<1>3. CASE BootDiscovers
  <2>1. OthersSuperseded(Boot)
    BY <1>3, BootAlone DEF BootDiscovers, OthersSuperseded
  <2>2. CASE \E run \in DiscoveredRuns(job[Boot].target) : ApplySelected(Boot, run)
    <3>1. PICK run \in DiscoveredRuns(job[Boot].target) : ApplySelected(Boot, run)
      BY <2>2
    <3>2. job[Boot].target \in Targets
      BY <1>3 DEF BootDiscovers, ControlInv, Job
    <3>3. OnlyTouches(Boot)
      BY <3>1, <3>2, DiscoveredType, ReadSelectedStep DEF ApplySelected, ControlInv
    <3> QED  BY <1>3, <2>1, <3>3, EffectTouched DEF BootDiscovers, KeepsEffect
  <2>3. CASE Settle(Boot, "returned")
    BY <1>3, <2>1, <2>3, SettleKeepsEffect DEF BootDiscovers, KeepsEffect, Settled
  <2> QED  BY <1>3, <2>2, <2>3 DEF BootDiscovers
<1> QED  BY <1>1, <1>2, <1>3 DEF Discovers

LEMMA RefreshEffect ==
    ASSUME TypeInv, EffectInv, RefreshStep
    PROVE  EffectInv'
<1> USE Disjoint DEF TypeInv
<1>1. /\ UNCHANGED <<loadedVersion, selectedRunId, loadedArtifactCache, sessionGeneration>>
      /\ \E ok \in BOOLEAN : SettleRefresh(ok)
  BY DEF RefreshStep, RefreshDiscovers, RefreshFails, ApplyRefreshed, sessionVars
<1>2. \A q \in Processes :
         \/ Untouched(q)
         \/ /\ pc[q] = "joined" /\ pc'[q] = "returned" /\ job'[q] = job[q]
            /\ q \in Handlers => request'[q] = None
  BY <1>1, SettleRefreshStep DEF ControlInv
<1>3. \A h \in Handlers : Configured(h)' => Untouched(h)
  BY <1>2 DEF Configured
<1>4. \A h \in Handlers :
         /\ Configured(h)' => Configured(h) /\ Epoch(h)' = Epoch(h)
         /\ Applied(h)' => Applied(h)
  BY <1>3 DEF Configured, Applied, Untouched, Epoch
<1>5. OwnEpochs'
  BY <1>4 DEF EffectInv, OwnEpochs
<1>6. \A h \in Handlers : JobOf(h)'
  BY <1>1, <1>3, <1>4 DEF EffectInv, JobOf, Untouched
<1>7. \A h \in Handlers : InEffect(h)'
  BY <1>1, <1>3, <1>4 DEF EffectInv, InEffect, Applied, Untouched
<1> QED  BY <1>5, <1>6, <1>7 DEF EffectInv

LEMMA ReadsEffect ==
    ASSUME TypeInv, PhaseInv, EffectInv, NoSelection, NEW p \in Processes, Reads(p)
    PROVE  EffectInv'
<1> USE Disjoint DEF TypeInv
<1>1. pc[p] = "reading" /\ UNCHANGED sessionGeneration
  BY DEF Reads, ReadManifest, ReadRunResults, ReadFails, FinishRead
<1>2. CASE ReadManifest(p) \/ ReadRunResults(p)
  <2>1. /\ OnlyTouches(p) /\ pc' = pc /\ request' = request
        /\ job'[p] \in Job /\ job'[p].run = job[p].run /\ job'[p].target = job[p].target
        /\ job'[p].binding = job[p].binding
    BY <1>2, FileStep
  <2>2. UNCHANGED sessionVars
    BY <1>2 DEF ReadManifest, ReadRunResults
  <2>3. p \in Handlers =>
           /\ Configured(p)' = Configured(p) /\ Applied(p)' = Applied(p)
           /\ Epoch(p)' = Epoch(p)
    BY <2>1 DEF Configured, Applied, Epoch
  <2>4. p \in Handlers => JobOf(p)'
    BY <1>1, <2>1, <2>3 DEF EffectInv, JobOf
  <2>5. p \in Handlers => InEffect(p)'
    BY <1>1, <2>1, <2>2, <2>3 DEF EffectInv, InEffect, sessionVars
  <2> QED
    BY <1>1, <2>1, <2>2, <2>3, <2>4, <2>5, EffectTouched DEF KeepsEffect, sessionVars
<1>3. CASE ReadFails(p)
  BY <1>1, <1>3, SettleKeepsEffect DEF ReadFails, KeepsEffect, sessionVars, Settled
<1>4. CASE FinishRead(p)
  <2> DEFINE read == [run |-> job[p].run, manifest |-> job[p].manifest,
                      runResults |-> job[p].runResults]
  <2>1. job[p] \in Job /\ job[p].run \in Run
    BY <1>1 DEF ControlInv
  <2>2. read \in Payload /\ read.run = job[p].run
    BY <2>1 DEF Job, Payload
  <2>3. /\ UNCHANGED <<loadedVersion, selectedRunId>>
        /\ \/ loadedArtifactCache' = read
                /\ IF Fetches(p) THEN PinsFetched(p) ELSE ReadIsCurrent(p)
           \/ loadedArtifactCache' = loadedArtifactCache
                /\ ~(IF Fetches(p) THEN PinsFetched(p) ELSE ReadIsCurrent(p))
    BY <1>4 DEF FinishRead
  <2> HIDE DEF read
  <2>4. CASE p = Boot
    <3>1. OthersSuperseded(p)
      BY <1>1, <2>4, BootAlone DEF OthersSuperseded
    <3>2. Settle(p, "returned")
      BY <1>4, <2>4 DEF FinishRead, Configures
    <3> QED  BY <1>1, <3>1, <3>2, SettleKeepsEffect DEF KeepsEffect, Settled
  <2>5. CASE p \in Handlers /\ request[p].op # "configure"
    <3>1. request[p] \in Request /\ request[p] # None
      BY <1>1, <2>5, NoneIsNoRequest DEF ControlInv, Busy
    <3>2. request[p].op = "getCurrent"
      BY <1>1, <2>5, <3>1 DEF PhaseInv, PhaseOf, NoSelection, Request, Ops
    <3>3. Fetches(p)
      BY <2>5, <3>2 DEF Fetches
    <3>4. KeepsEffect(p)
      BY <2>2, <2>3, <3>3 DEF KeepsEffect, PinsFetched
    <3>5. Settle(p, "returned")
      BY <1>4, <2>5 DEF FinishRead, Configures
    <3> QED  BY <1>1, <3>4, <3>5, SettleKeepsEffect DEF Settled
  <2>6. CASE p \in Handlers /\ request[p].op = "configure"
    <3>1. Configures(p) /\ ~Fetches(p)
      BY <2>6 DEF Configures, Fetches
    <3>2. pc' = [pc EXCEPT ![p] = "returned"] /\ UNCHANGED <<request, job>>
      BY <1>4, <3>1 DEF FinishRead
    <3>3. OnlyTouches(p) /\ pc'[p] = "returned"
      BY <3>2 DEF ControlInv, ControlTypeOK, OnlyTouches, Untouched
    <3>4. request[p] # None
      BY <1>1, <2>6, NoneIsNoRequest DEF ControlInv, Busy
    <3>5. Applied(p) /\ Configured(p) /\ Applied(p)' /\ Epoch(p)' = Epoch(p)
      BY <1>1, <2>6, <3>2, <3>3, <3>4 DEF Applied, Configured, Epoch
    <3>6. JobOf(p)'
      BY <1>1, <2>6, <3>2, <3>5 DEF EffectInv, JobOf
    <3>7. CASE Epoch(p) = sessionGeneration
      <4>1. /\ loadedVersion \in Run /\ loadedVersion.target = request[p].target
            /\ selectedRunId = CurrentRunId
            /\ job[p].run.target = request[p].target
            /\ job[p].binding.scopeKey = CurrentRunId
        BY <2>6, <3>5, <3>7 DEF EffectInv, InEffect, JobOf
      <4>2. ReadIsCurrent(p)
        BY <3>7, <4>1 DEF ReadIsCurrent, IsSessionBindingCurrent, Epoch
      <4>3. loadedArtifactCache' = read
        BY <2>3, <3>1, <4>2
      <4>4. InEffect(p)'
        BY <2>2, <2>3, <3>2, <4>1, <4>3 DEF InEffect
      <4>5. OthersSuperseded(p)
        BY <2>6, <3>5, <3>7 DEF OthersSuperseded, EffectInv, OwnEpochs
      <4> QED
        BY <1>1, <2>6, <3>3, <3>5, <3>6, <4>4, <4>5, EffectTouched DEF KeepsEffect
    <3>8. CASE Epoch(p) # sessionGeneration
      <4>1. ~ReadIsCurrent(p)
        BY <3>8 DEF ReadIsCurrent, IsSessionBindingCurrent, Epoch
      <4>2. KeepsEffect(p)
        BY <2>3, <3>1, <4>1 DEF KeepsEffect
      <4>3. InEffect(p)'
        BY <1>1, <3>5, <3>8 DEF InEffect
      <4> QED  BY <1>1, <2>6, <3>3, <3>5, <3>6, <4>2, <4>3, EffectTouched
    <3> QED  BY <3>7, <3>8
  <2> QED  BY <2>4, <2>5, <2>6
<1> QED  BY <1>2, <1>3, <1>4 DEF Reads

LEMMA NextEffect ==
    ASSUME NoSelection
    PROVE  TypeInv /\ PhaseInv /\ EffectInv /\ [Next]_vars => EffectInv'
<1> SUFFICES ASSUME TypeInv, PhaseInv, EffectInv, [Next]_vars PROVE EffectInv'
  OBVIOUS
<1>1. CASE StoreStep \/ UNCHANGED vars
  <2>1. UNCHANGED <<sessionVars, sessionGeneration, controlVars>>
    BY <1>1 DEF StoreStep, vars
  <2> QED
    BY <2>1
       DEF sessionVars, controlVars, EffectInv, OwnEpochs, JobOf, InEffect, Applied,
           Configured, Epoch
<1>2. ASSUME NEW h \in Handlers, Send(h) PROVE EffectInv'
  <2>1. /\ OnlyTouches(h) /\ pc'[h] = "awaitingReady"
        /\ UNCHANGED <<storeVars, sessionVars, sessionGeneration>>
    BY <1>2, SendStep
  <2>2. ~Configured(h)'
    BY <2>1 DEF Configured
  <2> QED
    BY <2>1, <2>2, EffectTouched, Disjoint
       DEF JobOf, InEffect, Applied, KeepsEffect, sessionVars
<1> QED
  BY <1>1, <1>2, StartEffect, DiscoveriesEffect, ReadsEffect, RefreshEffect, Disjoint DEF Next

LEMMA InitEffect == Init => EffectInv
BY DEF Init, EffectInv, OwnEpochs, JobOf, InEffect, Applied, Configured

\* A configure that was answered and not superseded is in effect, for any
\* number of tabs, roots and polls: whatever was in flight when it was sent is
\* of an older generation when it resumes.  Selecting a run is left out: after
\* a poll that put an older source back, accepting its run leaves the
\* configured location.
THEOREM ConfigureTakesEffectAlways ==
    ASSUME NoSelection
    PROVE  Spec => []ConfigureTakesEffect
<1>1. TypeInv /\ PhaseInv /\ EffectInv => ConfigureTakesEffect
  <2> SUFFICES ASSUME TypeInv, PhaseInv, EffectInv, NEW h \in Handlers,
                      pc[h] = "returned", request[h] # None,
                      job[h].binding.epoch = sessionGeneration
               PROVE  /\ loadedVersion # None /\ loadedVersion.target = request[h].target
                      /\ loadedArtifactCache # None
                      /\ loadedArtifactCache.run.target = request[h].target
    BY DEF ConfigureTakesEffect
  <2>1. Applied(h) /\ Epoch(h) = sessionGeneration
    BY DEF PhaseInv, PhaseOf, Settled, Applied, Configured, Epoch
  <2> QED  BY <2>1, NoneIsNoRequest DEF EffectInv, InEffect
<1> QED
  BY <1>1, InitType, NextType, InitPhase, NextPhase, InitEffect, NextEffect, PTL DEF Spec

-----------------------------------------------------------------------------
(* What is pinned. *)

OneChooses(s) == \A h \in Handlers \ {s} : Uses[h] \subseteq {"refresh", "getCurrent"}

SessionListed ==
    /\ \A run \in runs : Listed(run)
    /\ loadedVersion # None => Listed(loadedVersion)

\* The pinned bytes: of the loaded version or newer, and once in its root.
Pinned ==
    loadedArtifactCache # None =>
        /\ loadedVersion # None
        /\ loadedArtifactCache.run.target = loadedVersion.target
        /\ NotNewer(loadedVersion.target, loadedArtifactCache.manifest,
                    loadedArtifactCache.runResults)
        /\ NotOlder(loadedArtifactCache.manifest, loadedArtifactCache.runResults, loadedVersion)

\* A read under way, and that it is for the loaded version if it was a choice.
ReadingOf(p) ==
    pc[p] = "reading" =>
        /\ Listed(job[p].run)
        /\ NotNewer(job[p].run.target, job[p].manifest, job[p].runResults)
        /\ ReadFor(job[p].manifest, job[p].run.token.manifest)
        /\ ReadFor(job[p].runResults, job[p].run.token.runResults)
        /\ ~Fetches(p) => loadedVersion = job[p].run

VersionInv == StoreInv /\ SessionListed /\ Pinned /\ \A p \in Processes : ReadingOf(p)

-----------------------------------------------------------------------------
(* Parts of the invariant that a step leaves alone. *)

LEMMA StillListed ==
    ASSUME TypeInv, VersionInv, StoreKept
    PROVE  StoreInv' /\ \A run : Listed(run) => Listed(run)'
BY StoreKeepsInv, ListedStays DEF TypeInv, VersionInv

LEMMA UntouchedReading ==
    ASSUME TypeInv, VersionInv, StoreKept, NEW q \in Processes, Untouched(q),
           pc[q] = "reading" /\ ~Fetches(q) => loadedVersion' = loadedVersion
    PROVE  ReadingOf(q)'
<1> USE Disjoint
<1>1. SUFFICES ASSUME pc[q] = "reading" PROVE ReadingOf(q)'
  BY DEF ReadingOf, Untouched
<1>2. /\ job[q] \in Job /\ job[q].run \in Run
      /\ job'[q] = job[q] /\ pc'[q] = pc[q]
  BY <1>1 DEF TypeInv, ControlInv, Untouched
<1>3. /\ job[q].manifest \in Version /\ job[q].runResults \in Version
      /\ job[q].run.target \in Targets
  BY <1>2 DEF Job, Run
<1>4. ReadingOf(q)
  BY DEF VersionInv
<1>5. NotNewer(job[q].run.target, job[q].manifest, job[q].runResults)'
  <2> DEFINE t == job[q].run.target
             m == job[q].manifest
             r == job[q].runResults
  <2>1. NotNewer(t, m, r) /\ t \in Targets /\ m \in Version /\ r \in Version
    BY <1>1, <1>3, <1>4 DEF ReadingOf
  <2>2. StoreTypeOK /\ StoreInv
    BY DEF TypeInv, VersionInv
  <2> HIDE DEF t, m, r
  <2>3. \A u \in Targets, n \in Version, l \in Version :
           NotNewer(u, n, l) => /\ Seen(n, store'[u].manifest, store'[u].lastRun)
                                /\ Seen(l, store'[u].runResults, store'[u].lastRun)
    BY <2>2, SeenStays DEF NotNewer
  <2>4. /\ Seen(m, store'[t].manifest, store'[t].lastRun)
        /\ Seen(r, store'[t].runResults, store'[t].lastRun)
    BY <2>1, <2>3
  <2> QED  BY <1>2, <2>4 DEF NotNewer, t, m, r
<1>6. Listed(job[q].run)'
  BY <1>1, <1>2, <1>4, StillListed DEF ReadingOf
<1>7. Fetches(q)' = Fetches(q)
  BY DEF Fetches, Untouched
<1>8. ~Fetches(q) => loadedVersion' = job[q].run
  BY <1>1, <1>4 DEF ReadingOf
<1> QED  BY <1>1, <1>2, <1>4, <1>5, <1>6, <1>7, <1>8 DEF ReadingOf, ReadFor

LEMMA PinnedStays ==
    ASSUME TypeInv, VersionInv, StoreKept, UNCHANGED <<loadedVersion, loadedArtifactCache>>
    PROVE  Pinned'
<1>1. SUFFICES ASSUME loadedArtifactCache # None PROVE Pinned'
  BY DEF Pinned
<1>2. loadedVersion \in Run /\ loadedArtifactCache \in Payload /\ Pinned
  BY <1>1 DEF TypeInv, SessionTypeOK, VersionInv, Pinned
<1>3. NotNewer(loadedVersion.target, loadedArtifactCache.manifest,
               loadedArtifactCache.runResults)'
  <2> DEFINE t == loadedVersion.target
             m == loadedArtifactCache.manifest
             r == loadedArtifactCache.runResults
  <2>1. NotNewer(t, m, r) /\ t \in Targets /\ m \in Version /\ r \in Version
    BY <1>1, <1>2 DEF Pinned, Run, Payload
  <2>2. StoreTypeOK /\ StoreInv
    BY DEF TypeInv, VersionInv
  <2> HIDE DEF t, m, r
  <2>3. \A u \in Targets, n \in Version, l \in Version :
           NotNewer(u, n, l) => /\ Seen(n, store'[u].manifest, store'[u].lastRun)
                                /\ Seen(l, store'[u].runResults, store'[u].lastRun)
    BY <2>2, SeenStays DEF NotNewer
  <2>4. /\ Seen(m, store'[t].manifest, store'[t].lastRun)
        /\ Seen(r, store'[t].runResults, store'[t].lastRun)
    BY <2>1, <2>3
  <2> QED  BY <2>4 DEF NotNewer, t, m, r
<1> QED  BY <1>1, <1>2, <1>3 DEF Pinned, NotOlder

\* A step that commits and pins nothing, and after which p is not reading.
LEMMA Uncommitted ==
    ASSUME TypeInv, VersionInv, StoreKept, NEW p \in Processes, OnlyTouches(p),
           UNCHANGED <<loadedVersion, loadedArtifactCache>>,
           \A run \in runs' : run \in runs \/ Listed(run)',
           ReadingOf(p)'
    PROVE  VersionInv'
<1>1. SessionListed'
  BY StillListed DEF VersionInv, SessionListed
<1>2. \A q \in Processes : ReadingOf(q)'
  BY UntouchedReading DEF OnlyTouches
<1> QED  BY <1>1, <1>2, StillListed, PinnedStays DEF VersionInv

LEMMA SettledVersion ==
    ASSUME TypeInv, VersionInv, StoreKept, NEW p \in Processes, NEW outcome \in Settled,
           Settle(p, outcome), UNCHANGED <<runs, loadedVersion, loadedArtifactCache>>
    PROVE  VersionInv'
<1>1. OnlyTouches(p) /\ pc'[p] = outcome
  BY SettleStep DEF TypeInv, ControlInv
<1>2. ReadingOf(p)'
  BY <1>1 DEF ReadingOf, Settled
<1> QED  BY <1>1, <1>2, Uncommitted

-----------------------------------------------------------------------------
(* Choices. *)

\* While s or Boot chooses, no other read was made for a choice.
Alone(p) == \A q \in Processes \ {p} : ~(pc[q] = "reading" /\ ~Fetches(q))

LEMMA ChooserIsAlone ==
    ASSUME TypeInv, PhaseInv, NEW s, OneChooses(s), NEW p \in Processes,
           \/ p = Boot /\ pc[Boot] # "returned"
           \/ p = s /\ pc[Boot] = "returned"
    PROVE  Alone(p)
<1> USE Disjoint
<1> SUFFICES ASSUME NEW q \in Processes, q # p, pc[q] = "reading", ~Fetches(q)
             PROVE  FALSE
  BY DEF Alone
<1>1. CASE q = Boot
  BY <1>1
<1>2. CASE q \in Handlers /\ q = s
  BY <1>2, UnderwayAfterBoot
<1>3. CASE q \in Handlers /\ q # s
  <2>1. request[q] \in Request /\ request[q] # None
    BY <1>3, NoneIsNoRequest DEF TypeInv, ControlInv, Busy
  <2>2. request[q].op \in Uses[q] /\ request[q].op # "refresh"
    BY <1>3, <2>1 DEF PhaseInv, PhaseOf
  <2>3. request[q].op = "getCurrent"
    BY <1>3, <2>2 DEF OneChooses
  <2> QED  BY <1>3, <2>3 DEF Fetches
<1> QED  BY <1>1, <1>2, <1>3

\* Only s has asked for what chooses.
LEMMA ChooserIs ==
    ASSUME TypeInv, PhaseInv, NEW s, OneChooses(s), NEW h \in Handlers, pc[h] \in Busy,
           request[h].op \in {"configure", "accept", "switch"}
    PROVE  h = s
<1>1. request[h] # None
  BY NoneIsNoRequest DEF TypeInv, ControlInv
<1>2. request[h].op \in Uses[h]
  BY <1>1 DEF PhaseInv, PhaseOf
<1>3. h # s => Uses[h] \subseteq {"refresh", "getCurrent"}
  BY DEF OneChooses
<1> QED  BY <1>2, <1>3

\* A read starts: nothing is read yet.
LEMMA NewReading ==
    ASSUME TypeInv, VersionInv, UNCHANGED storeVars, NEW p \in Processes, NEW run,
           Listed(run), ReadSelected(p, run),
           (Fetches(p) /\ request' = request) \/ loadedVersion' = run
    PROVE  OnlyTouches(p) /\ ReadingOf(p)' /\ request' = request
<1> USE Disjoint
<1>1. run \in Run /\ run.target \in Targets
  BY DEF Listed, Run
<1>2. /\ OnlyTouches(p) /\ pc'[p] = "reading" /\ request' = request
      /\ job'[p] = NewJob(run.target, sessionGeneration, CurrentRunId, run)
  BY <1>1, ReadSelectedStep DEF TypeInv, ControlInv
<1>3. sessionGeneration \in Nat
  BY DEF TypeInv, SessionTypeOK
<1>4. job'[p].run = run /\ job'[p].manifest = 0 /\ job'[p].runResults = 0
  BY <1>1, <1>2, <1>3, NewJobType
<1>5. Listed(run)' /\ NotNewer(run.target, 0, 0)'
  <2>1. store' = store
    BY DEF storeVars
  <2>2. /\ store[run.target].manifest \in Nat /\ store[run.target].runResults \in Nat
        /\ store[run.target].lastRun \in Nat
    BY <1>1, StoreAssumption DEF TypeInv, StoreTypeOK, Contents, Version
  <2>3. NotNewer(run.target, 0, 0)
    BY <2>2 DEF NotNewer, Seen
  <2> QED  BY <2>1, <2>3 DEF Listed, NotNewer
<1>6. Fetches(p) => Fetches(p)'
  BY <1>2 DEF Fetches
<1> QED  BY <1>2, <1>4, <1>5, <1>6 DEF ReadingOf, ReadFor

\* A run is chosen, its version committed and its read started.
LEMMA ChoiceVersion ==
    ASSUME TypeInv, VersionInv, UNCHANGED storeVars, NEW p \in Processes, NEW run,
           Listed(run), CommitVersion(run), ReadSelected(p, run), Alone(p),
           runs' = runs \/ runs' = {run}
    PROVE  VersionInv'
<1>1. StoreKept
  BY DEF StoreKept
<1>2. loadedVersion' = run /\ loadedArtifactCache' = None
  BY DEF CommitVersion
<1>3. OnlyTouches(p) /\ ReadingOf(p)'
  BY <1>2, NewReading
<1>4. \A q \in Processes : ReadingOf(q)'
  BY <1>1, <1>3, UntouchedReading DEF Alone, OnlyTouches
<1>5. SessionListed'
  BY <1>1, <1>2, StillListed DEF VersionInv, SessionListed
<1>6. Pinned'
  BY <1>2 DEF Pinned
<1> QED  BY <1>1, <1>4, <1>5, <1>6, StillListed DEF VersionInv

-----------------------------------------------------------------------------
(* The steps. *)

LEMMA StartVersion ==
    ASSUME TypeInv, PhaseInv, VersionInv, NEW s, OneChooses(s), NEW h \in Handlers, Start(h)
    PROVE  VersionInv'
<1> USE Disjoint
<1>1. UNCHANGED storeVars /\ StoreKept
  BY DEF Start, RefuseUnready, StartConfigure, StartRefresh, RejectSelect, StartSelect,
         StartGetCurrent, StoreKept
<1>2. CASE UNCHANGED <<runs, loadedVersion, loadedArtifactCache>>
            /\ \E outcome \in Settled : Settle(h, outcome)
  BY <1>1, <1>2, SettledVersion
<1>3. CASE (StartConfigure(h) /\ request[h].target # None) \/ (StartRefresh(h) /\ Remote)
  <2>1. UNCHANGED <<runs, loadedVersion, loadedArtifactCache>>
    BY <1>3 DEF StartConfigure, StartRefresh, sessionVars
  <2>2. OnlyTouches(h) /\ pc'[h] # "reading"
    <3>1. CASE StartConfigure(h) /\ request[h].target # None
      <4>1. /\ pc' = [pc EXCEPT ![h] = "discovering"] /\ UNCHANGED request
            /\ \E new : job' = [job EXCEPT ![h] = new]
        BY <3>1 DEF StartConfigure
      <4> QED  BY <4>1 DEF TypeInv, ControlInv, ControlTypeOK, OnlyTouches, Untouched
    <3>2. CASE StartRefresh(h) /\ Remote
      <4>1. pc' = [pc EXCEPT ![h] = "joined"] /\ UNCHANGED <<request, job>>
        BY <3>2 DEF StartRefresh
      <4> QED  BY <4>1 DEF TypeInv, ControlInv, ControlTypeOK, OnlyTouches, Untouched
    <3> QED  BY <1>3, <3>1, <3>2
  <2> QED  BY <1>1, <2>1, <2>2, Uncommitted DEF ReadingOf
<1>4. CASE StartSelect(h)
  <2>1. PICK run \in runs : CommitVersion(run) /\ ReadSelected(h, run)
    BY <1>4 DEF StartSelect
  <2>2. h = s /\ pc[Boot] = "returned"
    BY <1>4, ChooserIs DEF StartSelect, Selects, Ready, Busy
  <2>3. Alone(h)
    BY <2>2, ChooserIsAlone
  <2>4. Listed(run) /\ runs' = runs
    BY <1>4, <2>1 DEF StartSelect, VersionInv, SessionListed
  <2> QED  BY <1>1, <2>1, <2>3, <2>4, ChoiceVersion
<1>5. CASE StartGetCurrent(h) /\ ~AnswersAtOnce
  <2>1. PICK run \in runs : ReadSelected(h, run)
    BY <1>5 DEF StartGetCurrent
  <2>2. UNCHANGED <<runs, loadedVersion, loadedArtifactCache>>
    BY <1>5 DEF StartGetCurrent, sessionVars
  <2>3. Fetches(h)
    BY <1>5 DEF StartGetCurrent, Ready, Fetches
  <2>4. Listed(run) /\ request' = request
    BY <2>1 DEF VersionInv, SessionListed, ReadSelected
  <2>5. OnlyTouches(h) /\ ReadingOf(h)'
    BY <1>1, <2>1, <2>3, <2>4, NewReading
  <2> QED  BY <1>1, <2>2, <2>5, Uncommitted
<1>6. CASE RefuseUnready(h) \/ RejectSelect(h)
  BY <1>2, <1>6 DEF RefuseUnready, RejectSelect, sessionVars, Settled
<1>7. CASE StartConfigure(h) /\ request[h].target = None
  BY <1>2, <1>7 DEF StartConfigure, sessionVars, Settled
<1>8. CASE (StartRefresh(h) /\ ~Remote) \/ (StartGetCurrent(h) /\ AnswersAtOnce)
  BY <1>2, <1>8 DEF StartRefresh, StartGetCurrent, sessionVars, Settled
<1> QED  BY <1>3, <1>4, <1>5, <1>6, <1>7, <1>8 DEF Start

LEMMA DiscoveriesVersion ==
    ASSUME TypeInv, PhaseInv, VersionInv, NEW s, OneChooses(s), NEW p \in Processes,
           Discovers(p) \/ BootDiscovers
    PROVE  VersionInv'
<1> USE Disjoint
<1>1. ASSUME NEW q \in Processes, pc[q] = "discovering", UNCHANGED storeVars, Alone(q),
             NEW run \in DiscoveredRuns(job[q].target), ApplySelected(q, run)
      PROVE  VersionInv'
  <2>1. job[q].target \in Targets
    BY <1>1 DEF TypeInv, ControlInv, Job
  <2>2. Listed(run)
    BY <2>1, DiscoveredAreListed DEF TypeInv, VersionInv
  <2> QED  BY <1>1, <2>2, ChoiceVersion DEF ApplySelected
<1>2. CASE ConfigureDiscovers(p)
  <2>1. p \in Handlers /\ pc[p] = "discovering" /\ UNCHANGED storeVars
    BY <1>2 DEF ConfigureDiscovers
  <2>2. pc[Boot] = "returned" /\ p = s
    BY <2>1, UnderwayAfterBoot, ChooserIs DEF PhaseInv, PhaseOf, Busy
  <2>3. Alone(p)
    BY <2>2, ChooserIsAlone
  <2>4. CASE \E run \in DiscoveredRuns(job[p].target) : ApplySelected(p, run)
    BY <1>1, <2>1, <2>3, <2>4
  <2>5. CASE \E outcome \in Settled : Settle(p, outcome) /\ UNCHANGED sessionVars
    BY <2>1, <2>5, SettledVersion DEF StoreKept, sessionVars
  <2> QED  BY <1>2, <2>4, <2>5 DEF ConfigureDiscovers, Settled
<1>3. CASE DiscoveryFails(p)
  BY <1>3, SettledVersion DEF DiscoveryFails, StoreKept, sessionVars, Settled
<1>4. CASE BootDiscovers
  <2>1. pc[Boot] = "discovering" /\ UNCHANGED storeVars
    BY <1>4 DEF BootDiscovers
  <2>2. Alone(Boot)
    BY <2>1, ChooserIsAlone
  <2>3. CASE \E run \in DiscoveredRuns(job[Boot].target) : ApplySelected(Boot, run)
    BY <1>1, <2>1, <2>2, <2>3
  <2>4. CASE Settle(Boot, "returned")
             /\ UNCHANGED <<runs, selectedRunId, loadedVersion, loadedArtifactCache>>
    BY <2>1, <2>4, SettledVersion DEF StoreKept, Settled
  <2> QED  BY <1>4, <2>3, <2>4 DEF BootDiscovers
<1> QED  BY <1>2, <1>3, <1>4 DEF Discovers

LEMMA RefreshVersion ==
    ASSUME TypeInv, VersionInv, RefreshStep
    PROVE  VersionInv'
<1> USE Disjoint
<1>1. StoreKept /\ UNCHANGED <<loadedVersion, loadedArtifactCache>>
  BY DEF RefreshStep, RefreshDiscovers, RefreshFails, ApplyRefreshed, sessionVars, StoreKept
<1>2. \A run \in runs' : run \in runs \/ Listed(run)
  <2>1. CASE RefreshFails
    BY <2>1 DEF RefreshFails, sessionVars
  <2>2. CASE RefreshDiscovers
    <3>1. refresh.target \in Targets
      BY <2>2 DEF RefreshDiscovers, TypeInv, ControlInv, ControlTypeOK, RefreshJob
    <3>2. \A run \in DiscoveredRuns(refresh.target) : Listed(run)
      BY <3>1, DiscoveredAreListed DEF TypeInv, VersionInv
    <3> QED  BY <2>2, <3>2 DEF RefreshDiscovers, ApplyRefreshed, sessionVars
  <2> QED  BY <2>1, <2>2 DEF RefreshStep
<1>3. SessionListed'
  BY <1>1, <1>2, StillListed DEF VersionInv, SessionListed
<1>4. \E ok \in BOOLEAN : SettleRefresh(ok)
  BY DEF RefreshStep, RefreshDiscovers, RefreshFails
<1>5. \A q \in Processes : Untouched(q) \/ pc'[q] = "returned"
  BY <1>4, SettleRefreshStep DEF TypeInv, ControlInv
<1>6. \A q \in Processes : ReadingOf(q)'
  <2> SUFFICES ASSUME NEW q \in Processes PROVE ReadingOf(q)'
    OBVIOUS
  <2>1. CASE Untouched(q)
    BY <1>1, <2>1, UntouchedReading
  <2>2. CASE pc'[q] = "returned"
    BY <2>2 DEF ReadingOf
  <2> QED  BY <1>5, <2>1, <2>2
<1> QED  BY <1>1, <1>3, <1>6, StillListed, PinnedStays DEF VersionInv

LEMMA ReadsVersion ==
    ASSUME TypeInv, VersionInv, NEW p \in Processes, Reads(p)
    PROVE  VersionInv'
<1> USE Disjoint
<1>1. /\ pc[p] = "reading" /\ StoreKept /\ ReadingOf(p)
      /\ job[p] \in Job /\ job[p].run \in Run /\ job[p].run.target = job[p].target
  BY DEF Reads, ReadManifest, ReadRunResults, ReadFails, FinishRead, StoreKept,
         TypeInv, ControlInv, VersionInv
<1>2. CASE ReadManifest(p) \/ ReadRunResults(p)
  <2>1. UNCHANGED <<runs, loadedVersion, loadedArtifactCache>> /\ store' = store
    BY <1>2 DEF ReadManifest, ReadRunResults, sessionVars, storeVars
  <2>2. OnlyTouches(p) /\ pc'[p] = "reading" /\ request' = request
        /\ job'[p].run = job[p].run
    BY <1>1, <1>2, FileStep
  <2>3. /\ NotNewer(job[p].run.target, job'[p].manifest, job'[p].runResults)
        /\ ReadFor(job'[p].manifest, job[p].run.token.manifest)
        /\ ReadFor(job'[p].runResults, job[p].run.token.runResults)
    <3>1. /\ Listed(job[p].run)
          /\ NotNewer(job[p].run.target, job[p].manifest, job[p].runResults)
          /\ ReadFor(job[p].manifest, job[p].run.token.manifest)
          /\ ReadFor(job[p].runResults, job[p].run.token.runResults)
      BY <1>1 DEF ReadingOf
    <3>2. job[p].run.target \in Targets /\ StoreTypeOK /\ StoreInv
      BY <1>1 DEF Run, TypeInv, VersionInv
    <3>3. /\ Seen(store[job[p].run.target].manifest, store[job[p].run.target].manifest,
                  store[job[p].run.target].lastRun)
          /\ Seen(store[job[p].run.target].runResults, store[job[p].run.target].runResults,
                  store[job[p].run.target].lastRun)
      BY <3>2, ReadIsSeen
    <3>4. /\ ReadFor(store[job[p].run.target].manifest, job[p].run.token.manifest)
          /\ ReadFor(store[job[p].run.target].runResults, job[p].run.token.runResults)
      BY <3>1, <3>2, ReadIsNotOlder DEF ReadFor
    <3> QED  BY <1>1, <1>2, <3>1, <3>3, <3>4, FileStep DEF NotNewer
  <2>4. ReadingOf(p)'
    <3>1. Listed(job[p].run)
      BY <1>1 DEF ReadingOf
    <3>2. Listed(job[p].run)'
      BY <2>1, <2>2, <3>1 DEF Listed, NotNewer
    <3>3. NotNewer(job[p].run.target, job[p].manifest, job[p].runResults)'
      BY <2>1, <2>2, <2>3 DEF NotNewer
    <3>4. Fetches(p)' = Fetches(p) /\ (~Fetches(p) => loadedVersion' = job[p].run)
      BY <1>1, <2>1, <2>2 DEF Fetches, ReadingOf
    <3> QED  BY <2>2, <2>3, <3>2, <3>3, <3>4 DEF ReadingOf
  <2> QED  BY <1>1, <2>1, <2>2, <2>4, Uncommitted
<1>3. CASE ReadFails(p)
  BY <1>1, <1>3, SettledVersion DEF ReadFails, sessionVars, Settled
<1>4. CASE FinishRead(p)
  <2>1. OnlyTouches(p) /\ pc'[p] = "returned"
    BY <1>4, FinishStep
  <2>2. UNCHANGED <<runs, loadedVersion, storeVars>>
    BY <1>4 DEF FinishRead
  <2>3. ReadingOf(p)'
    BY <2>1 DEF ReadingOf
  <2>4. CASE UNCHANGED loadedArtifactCache
    BY <1>1, <2>1, <2>2, <2>3, <2>4, Uncommitted
  <2>5. CASE loadedArtifactCache' # loadedArtifactCache
    <3> DEFINE read == [run |-> job[p].run, manifest |-> job[p].manifest,
                        runResults |-> job[p].runResults]
    <3>1. loadedArtifactCache' = read /\ (Fetches(p) => PinsFetched(p))
      BY <1>4, <2>5 DEF FinishRead
    <3>2. loadedVersion = job[p].run
      BY <1>1, <3>1 DEF ReadingOf, PinsFetched
    <3>3. job[p].manifest # 0 /\ job[p].runResults # 0
      BY <1>4 DEF FinishRead
    <3>4. NotOlder(job[p].manifest, job[p].runResults, job[p].run)
      BY <1>1, <3>3 DEF ReadingOf, ReadFor, NotOlder
    <3>5. NotNewer(job[p].run.target, job[p].manifest, job[p].runResults)
      BY <1>1 DEF ReadingOf
    <3>6. NotNewer(loadedVersion.target, loadedArtifactCache.manifest,
                   loadedArtifactCache.runResults)'
      BY <2>2, <3>1, <3>2, <3>5 DEF NotNewer, storeVars
    <3>7. loadedVersion # None
      BY <1>1, <3>2, NoneIsNoRequest
    <3>8. Pinned'
      BY <2>2, <3>1, <3>2, <3>4, <3>6, <3>7 DEF Pinned
    <3>9. SessionListed'
      BY <1>1, <2>2, StillListed DEF VersionInv, SessionListed
    <3>10. \A q \in Processes : ReadingOf(q)'
      BY <1>1, <2>1, <2>2, <2>3, UntouchedReading DEF OnlyTouches
    <3> QED  BY <1>1, <3>8, <3>9, <3>10, StillListed DEF VersionInv
  <2> QED  BY <2>4, <2>5
<1> QED  BY <1>2, <1>3, <1>4 DEF Reads

LEMMA NextVersion ==
    ASSUME NEW s, OneChooses(s)
    PROVE  TypeInv /\ PhaseInv /\ VersionInv /\ [Next]_vars => VersionInv'
<1> SUFFICES ASSUME TypeInv, PhaseInv, VersionInv, [Next]_vars PROVE VersionInv'
  OBVIOUS
<1>1. CASE StoreStep \/ UNCHANGED vars
  <2>1. StoreKept /\ UNCHANGED <<runs, loadedVersion, loadedArtifactCache, pc, job, request>>
    BY <1>1 DEF StoreStep, StoreKept, vars, sessionVars, controlVars
  <2>2. \A q \in Processes : ReadingOf(q)'
    BY <2>1, UntouchedReading DEF Untouched
  <2>3. SessionListed'
    BY <2>1, StillListed DEF VersionInv, SessionListed
  <2> QED  BY <2>1, <2>2, <2>3, StillListed, PinnedStays DEF VersionInv
<1>2. ASSUME NEW h \in Handlers, Send(h) PROVE VersionInv'
  <2>1. OnlyTouches(h) /\ pc'[h] = "awaitingReady"
        /\ UNCHANGED <<storeVars, runs, loadedVersion, loadedArtifactCache>>
    BY <1>2, SendStep DEF sessionVars
  <2> QED  BY <2>1, Uncommitted, Disjoint DEF ReadingOf, StoreKept
<1> QED
  BY <1>1, <1>2, StartVersion, DiscoveriesVersion, ReadsVersion, RefreshVersion, Disjoint
     DEF Next

LEMMA InitVersion == Init => VersionInv
<1> SUFFICES ASSUME Init PROVE VersionInv
  OBVIOUS
<1>1. StoreInv
  BY StoreInitInv DEF Init
<1>2. \A p \in Processes : pc[p] # "reading"
  BY DEF Init
<1> QED  BY <1>1, <1>2 DEF Init, VersionInv, SessionListed, Pinned, ReadingOf

-----------------------------------------------------------------------------
\* The pinned payload is of the root and of at least the version that is
\* called loaded (loadedVersionToken), whatever polls, fetches and dbt
\* invocations overlap with the one tab that chooses.
THEOREM CacheBelongsToVersionAlways ==
    ASSUME NEW s, OneChooses(s)
    PROVE  Spec => []CacheBelongsToVersion
<1>1. VersionInv => CacheBelongsToVersion
  <2> SUFFICES ASSUME VersionInv, loadedArtifactCache # None
               PROVE  /\ loadedVersion # None
                      /\ loadedArtifactCache.run.target = loadedVersion.target
                      /\ loadedVersion.token.manifest <= loadedArtifactCache.manifest
                      /\ loadedVersion.token.runResults <= loadedArtifactCache.runResults
    BY DEF CacheBelongsToVersion
  <2> QED  BY DEF VersionInv, Pinned, NotOlder
<1> QED
  BY <1>1, InitType, NextType, InitPhase, NextPhase, InitVersion, NextVersion, PTL DEF Spec

\* While the root still shows the version that is called loaded, and so no
\* pending run is offered, the pinned bytes are exactly those of that version.
THEOREM UnchangedVersionIsExactAlways ==
    ASSUME NEW s, OneChooses(s)
    PROVE  Spec => []UnchangedVersionIsExact
<1>1. TypeInv /\ VersionInv => UnchangedVersionIsExact
  <2> SUFFICES ASSUME TypeInv, VersionInv, loadedArtifactCache # None, loadedVersion # None,
                      VersionToken(store[loadedVersion.target]) = loadedVersion.token
               PROVE  /\ loadedArtifactCache.manifest = loadedVersion.token.manifest
                      /\ loadedArtifactCache.runResults = loadedVersion.token.runResults
    BY DEF UnchangedVersionIsExact
  <2>1. /\ Listed(loadedVersion) /\ loadedArtifactCache \in Payload /\ Pinned
    BY DEF VersionInv, SessionListed, TypeInv, SessionTypeOK
  <2>2. loadedArtifactCache.manifest \in Version /\ loadedArtifactCache.runResults \in Version
    BY <2>1 DEF Payload
  <2> QED  BY <2>1, <2>2, UnchangedIsExact DEF Pinned, TypeInv
<1> QED
  BY <1>1, InitType, NextType, InitPhase, NextPhase, InitVersion, NextVersion, PTL DEF Spec

=============================================================================
