--------------------------- MODULE ArtifactSession ---------------------------
(***************************************************************************)
(* What an artifact session promises its users, whatever queues, promises, *)
(* polls and caches are behind it: there is at most one bound root; the    *)
(* snapshot in use is of that root; binding a root starts from what is     *)
(* saved for it or from nothing; a snapshot is only replaced by one that   *)
(* is not older; and at most Capacity snapshots are saved.                 *)
(***************************************************************************)
EXTENDS Naturals, FiniteSets

CONSTANTS Targets, None, MaxRuns, Capacity

VARIABLES target,       \* the bound root, or None
          snapshot,     \* the version in use, or None
          saved,        \* root -> the version saved for it, or None
          latest        \* root -> the newest dbt invocation there

vars == <<target, snapshot, saved, latest>>

Version == 0 .. MaxRuns
Token == [manifest: Version, runResults: Version]
Snapshot == [target: Targets, token: Token]

Init ==
    /\ target \in Targets \cup {None}
    /\ snapshot = None
    /\ saved = [t \in Targets |-> None]
    /\ latest \in [Targets -> Version]

\* Some saved snapshots are dropped.
Drop(dropped) == [t \in Targets |-> IF t \in dropped THEN None ELSE saved[t]]

\* dbt publishes at a root.
Publish(t) ==
    /\ latest[t] < MaxRuns
    /\ latest' = [latest EXCEPT ![t] = @ + 1]
    /\ UNCHANGED <<target, snapshot, saved>>

Bind(t) ==
    /\ target' = t
    /\ \E dropped \in SUBSET Targets : saved' = Drop(dropped)
    /\ snapshot' = saved'[t]
    /\ UNCHANGED latest

Unbind ==
    /\ target' = None
    /\ snapshot' = None
    /\ UNCHANGED <<saved, latest>>

\* Everything in memory is given up; the root stays bound.
Clear ==
    /\ snapshot' = None
    /\ saved' = Drop(Targets)
    /\ UNCHANGED <<target, latest>>

\* Not older, file by file.
NotOlder(token1, token2) ==
    /\ token1.manifest >= token2.manifest
    /\ token1.runResults >= token2.runResults

\* A version of the bound root is loaded.
Adopt(token) ==
    /\ target # None
    /\ token.manifest <= latest[target]
    /\ token.runResults <= latest[target]
    /\ snapshot # None => NotOlder(token, snapshot.token)
    /\ snapshot' = [target |-> target, token |-> token]
    /\ \/ Capacity = 0 /\ saved' = saved
       \/ /\ Capacity > 0
          /\ \E dropped \in SUBSET (Targets \ {target}) :
                saved' = [Drop(dropped) EXCEPT ![target] = snapshot']
          /\ Cardinality({t \in Targets : saved'[t] # None}) <= Capacity
    /\ UNCHANGED <<target, latest>>

Next ==
    \/ \E t \in Targets : Publish(t) \/ Bind(t)
    \/ Unbind
    \/ Clear
    \/ \E token \in Token : Adopt(token)

Spec == Init /\ [][Next]_vars
=============================================================================
