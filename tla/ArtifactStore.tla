---------------------------- MODULE ArtifactStore ----------------------------
(***************************************************************************)
(* The artifact roots the program reads: a local dbt target directory, or  *)
(* an object-store prefix.  A dbt invocation overwrites manifest.json and  *)
(* then run_results.json in place, under the same two names, without any   *)
(* lock the reader could take.  The store is outside the repository; what  *)
(* is modelled is what packages/core/src/io/artifact-discovery.ts and      *)
(* artifact-workspace/load-pipeline.ts read from it: whether both files    *)
(* are listed, the version token joined from their mtime/etag/generation,  *)
(* and which invocation wrote the bytes a read returns.                    *)
(***************************************************************************)
EXTENDS Naturals

CONSTANTS Targets,      \* artifact roots, as trimmed target strings
          None,         \* the program's null
          MaxRuns,      \* bound: dbt invocations per root
          MaxFaults     \* bound: failed requests, unparsable files and removals

ASSUME StoreAssumption ==
    /\ None \notin Targets
    /\ MaxRuns \in Nat
    /\ MaxFaults \in Nat

VARIABLES store,        \* root -> which invocation wrote each file (0: absent)
          faults        \* I/O failures and removals so far

storeVars == <<store, faults>>

Version == 0 .. MaxRuns
Contents == [manifest: Version, runResults: Version, lastRun: Version]

\* The version token joins the mtime and etag of both files, so it changes
\* exactly when one of the two is rewritten.
Token == [manifest: Version, runResults: Version]

\* A resolved run; its id is always "current" (one root, one pair).
Run == [target: Targets, token: Token]

\* No run is told from every run.
ASSUME NoneIsNoRun == None \notin Run

\* Both required files are in the listing; otherwise discovery fails and the
\* list of runs is empty.
Discovered(contents) == contents.manifest # 0 /\ contents.runResults # 0

\* Mutant of VersionToken: made from the manifest alone.
TokenOfManifest(contents) ==
    [manifest |-> contents.manifest, runResults |-> contents.manifest]

VersionToken(contents) ==
    [manifest |-> contents.manifest, runResults |-> contents.runResults]

\* discoverSource(): the runs found at root t, at most one.
DiscoveredRuns(t) ==
    IF Discovered(store[t])
    THEN {[target |-> t, token |-> VersionToken(store[t])]}
    ELSE {}

StoreTypeOK ==
    /\ store \in [Targets -> Contents]
    /\ faults \in 0 .. MaxFaults

\* Each root is empty, or holds the pair of one finished invocation.
StoreInit ==
    /\ store \in [Targets -> {[manifest |-> n, runResults |-> n, lastRun |-> n] :
                                n \in Version \cap {0, 1}}]
    /\ faults = 0

\* A dbt invocation starts and writes its manifest.
PublishManifest(t) ==
    /\ store[t].lastRun < MaxRuns
    /\ store' = [store EXCEPT ![t].manifest = store[t].lastRun + 1,
                              ![t].lastRun = store[t].lastRun + 1]
    /\ UNCHANGED faults

\* ... and finishes by writing its run results.
PublishRunResults(t) ==
    /\ store[t].manifest = store[t].lastRun
    /\ store[t].runResults # store[t].manifest
    /\ store' = [store EXCEPT ![t].runResults = store[t].lastRun]
    /\ UNCHANGED faults

\* The root is emptied (dbt clean, a bucket lifecycle rule).
RemoveArtifacts(t) ==
    /\ faults < MaxFaults
    /\ store[t].manifest # 0
    /\ store' = [store EXCEPT ![t].manifest = 0, ![t].runResults = 0]
    /\ faults' = faults + 1

StoreNext ==
    \E t \in Targets :
        \/ PublishManifest(t)
        \/ PublishRunResults(t)
        \/ RemoveArtifacts(t)

\* One request fails: the network, permissions, or a file that is caught half
\* written and does not parse.
RequestFault ==
    /\ faults < MaxFaults
    /\ faults' = faults + 1
    /\ UNCHANGED store

=============================================================================
