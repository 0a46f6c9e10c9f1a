----------------------- MODULE MCArtifactSourceService -----------------------
(***************************************************************************)
(* Instances of ArtifactSourceService for TLC.  OneTab is a page that      *)
(* waits for each answer before its next request, its poll timer, and a    *)
(* second tab that only fetches the artifacts.  In TwoTabs two pages       *)
(* configure the same server, at any time, while it is polled.             *)
(***************************************************************************)
EXTENDS ArtifactSourceService, TLC

CONSTANTS tab, otherTab, timer

OneTab == (tab :> {"configure", "accept", "switch"})
          @@ (otherTab :> {"getCurrent"}) @@ (timer :> {"refresh"})

TwoTabs == (tab :> {"configure"}) @@ (otherTab :> {"configure"})
           @@ (timer :> {"refresh"})

PolledTab == (tab :> {"configure", "accept"}) @@ (timer :> {"refresh"})

Polled == (tab :> {"configure"}) @@ (timer :> {"refresh"})

=============================================================================
