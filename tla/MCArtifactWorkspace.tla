------------------------- MODULE MCArtifactWorkspace -------------------------
(***************************************************************************)
(* Instances of ArtifactWorkspace for TLC.  McpOperations is what the MCP  *)
(* server calls (packages/mcp/src/tools); PublicOperations is the whole    *)
(* class, of which selectRun, acceptPendingRun and listRuns have no caller *)
(* in the repository and initialize() has only the CLI.                    *)
(***************************************************************************)
EXTENDS ArtifactWorkspace, TLC

McpOperations == {"setTarget", "unsetTarget", "clearCachedTargets", "refresh",
                  "getLoadedWorkspace"}
PublicOperations == McpOperations \cup
                    {"initialize", "listRuns", "selectRun", "acceptPendingRun"}

PendingOperations == {"setTarget", "getLoadedWorkspace", "refresh", "acceptPendingRun"}

\* Roots and clients are interchangeable; used by the runs without liveness.
Symmetry == Permutations(Targets) \cup Permutations(Clients)

=============================================================================
