---------------------------- MODULE ExplorerTree ----------------------------
(***************************************************************************)
(* The explorer of the Inventory view (lib/analysis-workspace/             *)
(* explorer-tree.ts, hooks use-analysis-workspace-explorer-pane.tsx and    *)
(* use-inventory-explorer-expansion.ts) and the tests of the selected      *)
(* asset (AssetTestsSection.tsx).                                          *)
(*                                                                         *)
(* The tree is not built node by node: a branch is the labels that lead to *)
(* it, a leaf is its resource and the branches above it are the prefixes   *)
(* of its path.  The order of the rows is left out.  An event of the page  *)
(* is one step: its handler, the render and the effects that expand        *)
(* branches.  Names, labels and words are numbers, 0 the missing one.      *)
(***************************************************************************)
EXTENDS Integers, Sequences, FiniteSets, FiniteSetsExt

CONSTANTS
    Catalogs,       \* analyses: [resources, upstreamOf, project, executed (packages)]
    Searches,       \* what the search box is given: sets of words
    Statuses,       \* bound: the statuses, types and materializations that
    PickedTypes,    \* the filters are used with
    PickedMaterializations

VARIABLES
    catalog,        \* the analysis on the page
    explorer        \* assetViewState
explorerVars == <<catalog, explorer>>

Missing == 0
(* Resources have ids. *)
ASSUME CatalogsOfResources ==
    \A cat \in Catalogs : IsFiniteSet(cat.resources) /\ \A r \in cat.resources : r.id # Missing
Modes == {"project", "database"}
IsTest(r) == r.type \in {"test", "unit_test"}

-----------------------------------------------------------------------------
(* How the tests of a resource went; a test that did not run counts for nothing. *)
TestTones == {"positive", "danger", "warning", "skipped"}
TestsOf(cat, id, resources) == {t \in resources : IsTest(t) /\ id \in cat.upstreamOf[t.id]}
BuildResourceTestStats(cat, id, resources) ==
    [tone \in TestTones |->
        Cardinality({t \in TestsOf(cat, id, resources) : t.tone = tone})]
StatsHaveAttention(stats) == stats["danger"] + stats["warning"] + stats["skipped"] > 0

(* What the Tests section of an asset says, of all the tests of the analysis. *)
SelectedAssetEvidence(cat, id) ==
    LET tests == TestsOf(cat, id, cat.resources)
    IN [total |-> Cardinality(tests),
        passing |-> Cardinality({t \in tests : t.tone = "positive"}),
        attention |-> Cardinality({t \in tests : t.tone \in {"warning", "danger"}})]
QualityPosture(evidence) ==
    CASE evidence.total = 0 -> "No attached tests"
      [] evidence.total > 0 /\ evidence.attention > 0 -> "Attention needed"
      [] OTHER -> "All attached tests passing"

-----------------------------------------------------------------------------
(* The project: the one of the manifest, or the package most executions are of (the first of *)
(* several).                                                                                  *)
ExecutionsOf(cat, package) == {i \in DOMAIN cat.executed : cat.executed[i] = package}
DeriveProjectName(cat) ==
    LET packages == {cat.executed[i] : i \in DOMAIN cat.executed} \ {Missing}
        Precedes(p, q) ==
            \/ Cardinality(ExecutionsOf(cat, p)) > Cardinality(ExecutionsOf(cat, q))
            \/ /\ Cardinality(ExecutionsOf(cat, p)) = Cardinality(ExecutionsOf(cat, q))
               /\ Min(ExecutionsOf(cat, p)) <= Min(ExecutionsOf(cat, q))
    IN IF packages = {} THEN Missing
       ELSE CHOOSE p \in packages : \A q \in packages : Precedes(p, q)
ExplorerProject(cat) == IF cat.project # Missing THEN cat.project ELSE DeriveProjectName(cat)

(* The resources of the mode, and those of them that the filters keep. *)
Scoped(cat, mode) ==
    IF mode = "database" \/ ExplorerProject(cat) = Missing THEN cat.resources
    ELSE {r \in cat.resources : r.package = ExplorerProject(cat)}
MatchesAssetStatus(cat, r, scoped, status) ==
    CASE status = "all" -> TRUE
      [] status = "issues" -> \/ r.tone = "danger"
                              \/ StatsHaveAttention(BuildResourceTestStats(cat, r.id, scoped))
      [] OTHER -> r.tone = status
Listed(cat, view) ==
    {r \in Scoped(cat, view.mode) :
        /\ MatchesAssetStatus(cat, r, Scoped(cat, view.mode), view.status)
        /\ view.types = {} \/ r.type \in view.types
        /\ view.materializations = {} \/ r.materialization \in view.materializations
        /\ view.query \subseteq r.words}

-----------------------------------------------------------------------------
(* The tree of them.  A resource without a file, or without a schema, has no place in it. *)
TreePath(cat, mode, r) ==
    IF mode = "project"
    THEN IF r.file = <<>> THEN <<>> ELSE <<ExplorerProject(cat)>> \o SubSeq(r.file, 1, Len(r.file) - 1)
    ELSE IF r.database = Missing \/ r.schema = Missing THEN <<>>
         ELSE <<r.database, r.schema, r.package>>
Branch(mode, path) == [mode |-> mode, path |-> path]
AncestorBranches(cat, view, r) ==
    LET path == TreePath(cat, view.mode, r)
    IN {Branch(view.mode, SubSeq(path, 1, n)) : n \in 1 .. Len(path)}
TreeLeaves(cat, view) ==
    {r \in Listed(cat, view) : ~IsTest(r) /\ TreePath(cat, view.mode, r) # <<>>}
CollectBranchIds(cat, view) ==
    UNION {AncestorBranches(cat, view, r) : r \in TreeLeaves(cat, view)}
ProjectRoot(cat) == Branch("project", <<ExplorerProject(cat)>>)
LeavesUnder(cat, view, branch) ==
    {r \in TreeLeaves(cat, view) : branch \in AncestorBranches(cat, view, r)}

(* The rows: of a branch, and of a leaf, when every branch above it is expanded. *)
VisibleBranches(cat, view) ==
    {b \in CollectBranchIds(cat, view) :
        \A n \in 1 .. Len(b.path) - 1 : Branch(b.mode, SubSeq(b.path, 1, n)) \in view.expanded}
VisibleLeaves(cat, view) ==
    {r \in TreeLeaves(cat, view) : AncestorBranches(cat, view, r) \subseteq view.expanded}

(* The badge of a row: a leaf shows the tests that are listed, a branch those of the leaves *)
(* below it that have a badge.                                                               *)
LeafStats(cat, view, r) == BuildResourceTestStats(cat, r.id, Listed(cat, view))
HasBadge(cat, view, r) == StatsHaveAttention(LeafStats(cat, view, r))
SumOfStats(cat, view, leaves) ==
    [tone \in TestTones |-> MapThenSumSet(LAMBDA r : LeafStats(cat, view, r)[tone],
                                          {r \in leaves : HasBadge(cat, view, r)})]
(* Mutant of BranchStats: only the leaves right under the branch. *)
BranchStatsOfChildren(cat, view, branch) ==
    SumOfStats(cat, view, {r \in LeavesUnder(cat, view, branch) :
                              TreePath(cat, view.mode, r) = branch.path})
BranchStats(cat, view, branch) == SumOfStats(cat, view, LeavesUnder(cat, view, branch))

-----------------------------------------------------------------------------
(* The effects: the first one shows the selected asset when the selection or the tree is a new *)
(* one; the second one opens the project when nothing is selected and nothing is open.         *)
TreeInput(view) == <<view.mode, view.status, view.types, view.materializations, view.query>>
(* Mutant of RunsFirstEffect: a tree of other filters is not noticed. *)
RunsOnSelection(before, after) ==
    before.selected # after.selected \/ before.mode # after.mode
RunsFirstEffect(before, after) ==
    before.selected # after.selected \/ TreeInput(before) # TreeInput(after)
AncestorsOfSelected(cat, view) ==
    UNION {AncestorBranches(cat, view, r) : r \in {l \in TreeLeaves(cat, view) : l.id = view.selected}}
OpensProject(cat, view) ==
    /\ view.mode = "project" /\ view.selected = Missing
    /\ view.expanded \cap CollectBranchIds(cat, view) = {}
    /\ ProjectRoot(cat) \in CollectBranchIds(cat, view)
AfterEffects(cat, view, first) ==
    CASE first /\ view.selected # Missing ->
             [view EXCEPT !.expanded = @ \cup AncestorsOfSelected(cat, view)]
      [] OpensProject(cat, view) -> [view EXCEPT !.expanded = @ \cup {ProjectRoot(cat)}]
      [] OTHER -> view

FirstView(selected) ==
    [mode |-> "project", status |-> "all", types |-> {}, materializations |-> {}, query |-> {},
     expanded |-> {}, selected |-> selected]
Ids(cat) == {r.id : r \in cat.resources}
ExplorerStart(cat, selected) ==
    /\ catalog = cat
    /\ explorer = AfterEffects(cat, FirstView(selected), TRUE)

Becomes(view) ==
    /\ explorer' = AfterEffects(catalog, view, RunsFirstEffect(explorer, view))
    /\ UNCHANGED catalog
Toggled(set, value) == IF value \in set THEN set \ {value} ELSE set \cup {value}

SetMode == \E mode \in Modes : Becomes([explorer EXCEPT !.mode = mode])
SetStatus == \E status \in Statuses : Becomes([explorer EXCEPT !.status = status])
ToggleType == \E r \in Scoped(catalog, explorer.mode) :
    /\ r.type \in PickedTypes
    /\ Becomes([explorer EXCEPT !.types = Toggled(@, r.type)])
TogglePill == \E r \in Scoped(catalog, explorer.mode) :
    /\ r.materialization \in PickedMaterializations
    /\ Becomes([explorer EXCEPT !.materializations = Toggled(@, r.materialization)])
SearchTree == \E query \in Searches : Becomes([explorer EXCEPT !.query = query])
ToggleBranch == \E b \in VisibleBranches(catalog, explorer) :
    Becomes([explorer EXCEPT !.expanded = Toggled(@, b)])
SelectLeaf == \E r \in VisibleLeaves(catalog, explorer) :
    Becomes([explorer EXCEPT !.selected = r.id])
(* From another view, from the lineage, or by Back and Forward. *)
SelectElsewhere == \E id \in Ids(catalog) \cup {Missing} :
    Becomes([explorer EXCEPT !.selected = id])
ShowAnalysis == \E cat \in Catalogs :
    /\ catalog' = cat
    /\ explorer' = AfterEffects(cat, explorer, TRUE)

ExplorerNext ==
    \/ SetMode \/ SetStatus \/ ToggleType \/ TogglePill \/ SearchTree
    \/ ToggleBranch \/ SelectLeaf \/ SelectElsewhere \/ ShowAnalysis

-----------------------------------------------------------------------------
(* After a change of the selection, of a filter, of the mode or of the analysis, the selected  *)
(* asset is a row one can see, if it is in the tree at all                                     *)
(* (use-inventory-explorer-expansion.ts:28).                                                   *)
SelectedIsRevealed ==
    [][\/ explorer'.selected # explorer.selected
       \/ TreeLeaves(catalog, explorer)' # TreeLeaves(catalog, explorer)
       \/ explorer'.mode # explorer.mode
       => \A r \in TreeLeaves(catalog, explorer)' :
              r.id = explorer'.selected => r \in VisibleLeaves(catalog, explorer)']_explorerVars

(* While no filter is set, whoever looks for trouble finds it from the top of the tree: each   *)
(* asset that the filter "issues" would keep because of its tests has a badge, so has every    *)
(* branch above it, and no other branch has one (explorer-tree.ts:281, utils.ts:165).  And an  *)
(* asset whose tests section asks for attention has a badge, unless the test is of another     *)
(* package.                                                                                    *)
Unfiltered(view) == view = [FirstView(view.selected) EXCEPT !.mode = view.mode, !.expanded = view.expanded]
IssuesAreMarked ==
    Unfiltered(explorer) =>
        LET scoped == Scoped(catalog, explorer.mode)
            leaves == TreeLeaves(catalog, explorer)
            InTrouble(r) == /\ r.tone # "danger"
                            /\ MatchesAssetStatus(catalog, r, scoped, "issues")
        IN /\ \A r \in leaves : InTrouble(r) => HasBadge(catalog, explorer, r)
           /\ \A b \in CollectBranchIds(catalog, explorer) :
                  StatsHaveAttention(BranchStats(catalog, explorer, b)) <=>
                      \E r \in LeavesUnder(catalog, explorer, b) : HasBadge(catalog, explorer, r)
           /\ \A r \in leaves :
                  /\ QualityPosture(SelectedAssetEvidence(catalog, r.id)) = "Attention needed"
                  /\ TestsOf(catalog, r.id, catalog.resources) \subseteq scoped
                  => HasBadge(catalog, explorer, r)
=============================================================================
