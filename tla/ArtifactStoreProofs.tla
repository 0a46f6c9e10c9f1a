------------------------- MODULE ArtifactStoreProofs -------------------------
(***************************************************************************)
(* What a version token that was listed once says of the files from then   *)
(* on.  Files are only ever replaced by those of a later dbt invocation,   *)
(* or removed; so a version that was seen is never newer than what a later *)
(* read returns, and when the token is found unchanged the files in        *)
(* between were those it names.  The proofs about the two sessions that    *)
(* read the store rest on these lemmas.                                    *)
(***************************************************************************)
EXTENDS ArtifactStore, TLAPS

\* dbt writes the manifest of an invocation before its run results.
StoreInv ==
    \A t \in Targets :
        /\ store[t].manifest \in {0, store[t].lastRun}
        /\ store[t].runResults <= store[t].lastRun

\* Invocation n is none that a file will still be replaced by.
Seen(n, file, lastRun) == n <= lastRun /\ (file # 0 => n <= file)

\* The files of invocations m and r of root t were, at some time, there.
NotNewer(t, m, r) ==
    /\ Seen(m, store[t].manifest, store[t].lastRun)
    /\ Seen(r, store[t].runResults, store[t].lastRun)

\* A run that was listed: both files were there.
Listed(run) ==
    /\ run \in Run
    /\ run.token.manifest # 0 /\ run.token.runResults # 0
    /\ NotNewer(run.target, run.token.manifest, run.token.runResults)

\* The invocations m and r are those of the run's token or later ones.
NotOlder(m, r, run) == run.token.manifest <= m /\ run.token.runResults <= r

\* A file that was read is of the version it was read for or newer.
ReadFor(n, listed) == n # 0 => listed <= n

LEMMA StoreInitInv == StoreInit => StoreInv
<1> SUFFICES ASSUME StoreInit, NEW t \in Targets
             PROVE  /\ store[t].manifest \in {0, store[t].lastRun}
                    /\ store[t].runResults <= store[t].lastRun
  BY DEF StoreInv
<1>1. PICK n \in Version \cap {0, 1} :
         store[t] = [manifest |-> n, runResults |-> n, lastRun |-> n]
  BY DEF StoreInit
<1> QED  BY <1>1, StoreAssumption DEF Version

StoreKept == StoreNext \/ RequestFault \/ UNCHANGED storeVars

LEMMA StoreKeepsType ==
    ASSUME StoreTypeOK, StoreKept
    PROVE  StoreTypeOK'
<1> USE StoreAssumption DEF StoreTypeOK, Version, Contents
<1>1. ASSUME NEW t \in Targets, PublishManifest(t) PROVE StoreTypeOK'
  <2>1. store[t].lastRun + 1 \in 0 .. MaxRuns
    BY <1>1 DEF PublishManifest
  <2> QED  BY <1>1, <2>1 DEF PublishManifest
<1>2. ASSUME NEW t \in Targets, PublishRunResults(t) PROVE StoreTypeOK'
  BY <1>2 DEF PublishRunResults
<1>3. ASSUME NEW t \in Targets, RemoveArtifacts(t) PROVE StoreTypeOK'
  <2>1. 0 \in 0 .. MaxRuns
    OBVIOUS
  <2>2. store' \in [Targets -> [manifest: 0 .. MaxRuns, runResults: 0 .. MaxRuns,
                                lastRun: 0 .. MaxRuns]]
    BY <1>3, <2>1 DEF RemoveArtifacts
  <2>3. faults' \in 0 .. MaxFaults
    BY <1>3 DEF RemoveArtifacts
  <2> QED  BY <2>2, <2>3
<1>4. CASE RequestFault \/ UNCHANGED storeVars
  BY <1>4 DEF RequestFault, storeVars
<1> QED  BY <1>1, <1>2, <1>3, <1>4 DEF StoreKept, StoreNext

LEMMA StoreKeepsInv ==
    ASSUME StoreTypeOK, StoreInv, StoreKept
    PROVE  StoreInv'
<1> USE StoreAssumption DEF StoreTypeOK, Version, Contents, StoreInv
<1>1. ASSUME NEW t \in Targets, PublishManifest(t) PROVE StoreInv'
  BY <1>1 DEF PublishManifest
<1>2. ASSUME NEW t \in Targets, PublishRunResults(t) PROVE StoreInv'
  BY <1>2 DEF PublishRunResults
<1>3. ASSUME NEW t \in Targets, RemoveArtifacts(t) PROVE StoreInv'
  BY <1>3 DEF RemoveArtifacts
<1>4. CASE RequestFault \/ UNCHANGED storeVars
  BY <1>4 DEF RequestFault, storeVars
<1> QED  BY <1>1, <1>2, <1>3, <1>4 DEF StoreKept, StoreNext

\* What was seen once is never newer than what is there.
LEMMA SeenStays ==
    ASSUME StoreTypeOK, StoreInv, StoreKept, NEW u \in Targets,
           NEW m \in Version, NEW r \in Version, NotNewer(u, m, r)
    PROVE  NotNewer(u, m, r)'
<1> USE StoreAssumption DEF StoreTypeOK, Version, Contents, StoreInv, NotNewer, Seen
<1>1. ASSUME NEW t \in Targets, PublishManifest(t) PROVE NotNewer(u, m, r)'
  BY <1>1 DEF PublishManifest
<1>2. ASSUME NEW t \in Targets, PublishRunResults(t) PROVE NotNewer(u, m, r)'
  BY <1>2 DEF PublishRunResults
<1>3. ASSUME NEW t \in Targets, RemoveArtifacts(t) PROVE NotNewer(u, m, r)'
  BY <1>3 DEF RemoveArtifacts
<1>4. CASE RequestFault \/ UNCHANGED storeVars
  BY <1>4 DEF RequestFault, storeVars
<1> QED  BY <1>1, <1>2, <1>3, <1>4 DEF StoreKept, StoreNext

LEMMA ListedStays ==
    ASSUME StoreTypeOK, StoreInv, StoreKept, NEW run, Listed(run)
    PROVE  Listed(run)'
<1>1. /\ run.target \in Targets
      /\ run.token.manifest \in Version /\ run.token.runResults \in Version
  BY DEF Listed, Run, Token
<1>2. NotNewer(run.target, run.token.manifest, run.token.runResults)'
  BY <1>1, SeenStays DEF Listed
<1> QED  BY <1>2 DEF Listed

\* discoverSource lists what is there.
LEMMA DiscoveredAreListed ==
    ASSUME StoreTypeOK, StoreInv, NEW t \in Targets, NEW run \in DiscoveredRuns(t)
    PROVE  Listed(run) /\ run.target = t
<1>1. run = [target |-> t, token |-> VersionToken(store[t])] /\ Discovered(store[t])
  BY DEF DiscoveredRuns
<1>2. run \in Run /\ run.target = t
  BY <1>1 DEF StoreTypeOK, Contents, Run, Token, VersionToken
<1>3. store[t].manifest = run.token.manifest /\ store[t].runResults = run.token.runResults
  BY <1>1 DEF VersionToken
<1>4. NotNewer(t, store[t].manifest, store[t].runResults)
  BY <1>1, StoreAssumption
     DEF NotNewer, Seen, StoreTypeOK, StoreInv, Contents, Version, Discovered
<1> QED  BY <1>1, <1>2, <1>3, <1>4 DEF Listed, Discovered

\* A read returns what was listed before it, or something newer.
LEMMA ReadIsNotOlder ==
    ASSUME StoreTypeOK, StoreInv, NEW run, Listed(run)
    PROVE  /\ store[run.target].manifest # 0
                => run.token.manifest <= store[run.target].manifest
           /\ store[run.target].runResults # 0
                => run.token.runResults <= store[run.target].runResults
BY DEF Listed, NotNewer, Seen

\* ... and what it returns has then been seen.
LEMMA ReadIsSeen ==
    ASSUME StoreTypeOK, StoreInv, NEW t \in Targets
    PROVE  /\ store[t].manifest \in Version /\ store[t].runResults \in Version
           /\ Seen(store[t].manifest, store[t].manifest, store[t].lastRun)
           /\ Seen(store[t].runResults, store[t].runResults, store[t].lastRun)
BY StoreAssumption DEF Seen, StoreTypeOK, StoreInv, Contents, Version

\* The token that is listed is still the run's: bytes read for it are exact.
LEMMA UnchangedIsExact ==
    ASSUME StoreTypeOK, NEW run, Listed(run), NEW m \in Version, NEW r \in Version,
           NotNewer(run.target, m, r), NotOlder(m, r, run),
           VersionToken(store[run.target]) = run.token
    PROVE  m = run.token.manifest /\ r = run.token.runResults
<1>1. /\ store[run.target].manifest = run.token.manifest
      /\ store[run.target].runResults = run.token.runResults
  BY DEF VersionToken
<1>2. run.token.manifest \in Nat /\ run.token.runResults \in Nat /\ m \in Nat /\ r \in Nat
  BY StoreAssumption DEF Listed, Run, Token, Version
<1> QED  BY <1>1, <1>2 DEF Listed, NotNewer, NotOlder, Seen

=============================================================================
