---------------------------- MODULE WorkspaceUrl ----------------------------
(***************************************************************************)
(* Navigation of the page: the state of the views, the URL the page pushes *)
(* for it, and the browser's history (web hooks/use-workspace-url-state.ts,*)
(* components/AppShell/workspace-url-sync.ts and app-navigation.ts, with   *)
(* the controls of the views that change this state).                      *)
(*                                                                         *)
(* A handler, its render and the effects that push the URL are one step.   *)
(* A parameter that is not in the URL is "" (a depth: -1).                 *)
(***************************************************************************)
EXTENDS Integers, Sequences, SequencesExt, FiniteSets

CONSTANTS
    Assets,         \* unique ids of resources
    Executions,     \* those of them that ran
    FirstPages,     \* what the page may be opened with: [url, metrics (has the run some?)]
    Depths,         \* the lineage depths that the selector and the preferences are set to
    Steppers,       \* the steppers that are used, of "up" and "down"
    PickedLenses,   \* the lenses that the lineage and the preferences are set to
    MaxHistory      \* bound: entries of the history

VARIABLES
    nav,            \* activeView and what the views keep of assets, runs, timeline and lineage
    preferences,    \* inventoryDefaults
    metricsAvailable, \* does the run have adapter metrics?
    history,        \* the entries, each with what was shown when it was written
    position        \* of the current entry
urlVars == <<nav, preferences, metricsAvailable, history, position>>

Views == {"health", "inventory", "runs", "timeline", "settings"}
Tabs == {"summary", "lineage", "sql", "runtime", "tests"}
Kinds == {"all", "models", "tests", "seeds", "snapshots", "operations"}
Lenses == {"status", "type", "coverage"}
NoDepth == -1
(* The settings and selectors offer depths that a URL keeps (SettingsView.tsx:485); the URL of *)
(* the first page may have any.                                                                *)
ASSUME ControlsOfLineage ==
    /\ Depths \subseteq 0 .. 10 /\ Steppers \subseteq {"up", "down"} /\ PickedLenses \subseteq Lenses
    /\ \A page \in FirstPages :
           {page.url.up, page.url.down} \subseteq Nat \cup {NoDepth} /\ page.metrics \in BOOLEAN
NoParameters == [view |-> "", tab |-> "", resource |-> "", assetTab |-> "", selected |-> "",
                 kind |-> "", adapter |-> "", up |-> NoDepth, down |-> NoDepth, allDeps |-> "",
                 lens |-> "", q |-> ""]
OrElse(value, default) == IF value = "" THEN default ELSE value
Known(value, values) == IF value \in values THEN value ELSE ""

-----------------------------------------------------------------------------
(* Reading a URL, with the names of older versions. *)
ResolveView(raw) ==
    CASE raw \in {"catalog", "dependencies", "lineage", "search", "discover"} -> "inventory"
      [] raw \in {"execution", "quality"} -> "runs"
      [] raw \in Views -> raw
      [] OTHER -> "health"
OlderViews == {"overview", "catalog", "execution", "quality", "dependencies", "search", "lineage",
               "discover"}
ParseView(url) ==
    CASE url.view = "runs" /\ url.tab = "timeline" -> "timeline"
      [] url.view # "runs" /\ url.view \in Views \cup OlderViews -> ResolveView(url.view)
      [] url.view = "runs" /\ url.tab # "timeline" -> "runs"
      [] OTHER -> ""
ImpliesLineageTab(url) == url.view \in {"lineage", "dependencies"}
ParseAssetTab(url) ==
    CASE url.assetTab \in Tabs -> url.assetTab
      [] url.assetTab \notin Tabs /\ ImpliesLineageTab(url) -> "lineage"
      [] OTHER -> "summary"
ShowsAdapter(url) == url.adapter # "0"
ClampDepth(depth) == IF depth > 10 THEN 10 ELSE IF depth < 0 THEN 0 ELSE depth
DepthOr(depth, default) == IF depth = NoDepth THEN default ELSE depth
LineageOf(url, defaults) ==
    [root |-> url.resource,
     node |-> IF ParseAssetTab(url) = "lineage" THEN OrElse(url.selected, url.resource)
              ELSE url.resource,
     up |-> DepthOr(url.up, defaults.up), down |-> DepthOr(url.down, defaults.down),
     allDeps |-> IF url.allDeps = "" THEN defaults.allDeps ELSE url.allDeps = "1",
     lens |-> OrElse(Known(url.lens, Lenses), defaults.lens)]
Clamped(lineage) == [lineage EXCEPT !.up = ClampDepth(@), !.down = ClampDepth(@)]
BuiltIn == [up |-> 2, down |-> 2, allDeps |-> FALSE, lens |-> "type"]
SelectedFor(url, views) == IF ParseView(url) \in views THEN url.selected ELSE ""

(* The first page takes the depths of its URL as they are. *)
InitialNavigation(url) ==
    [view |-> OrElse(ParseView(url), "health"), resource |-> url.resource,
     tab |-> ParseAssetTab(url), query |-> IF ParseView(url) = "inventory" THEN url.q ELSE "",
     kind |-> OrElse(Known(url.kind, Kinds), "all"), execution |-> SelectedFor(url, {"runs"}),
     adapter |-> ParseView(url) = "runs" /\ ShowsAdapter(url),
     bar |-> SelectedFor(url, {"runs", "timeline"}), lineage |-> LineageOf(url, preferences)]

(* Mutant of ApplySearch: the tab stays as it is. *)
ApplySearchKeepingTab(url) ==
    [nav EXCEPT !.view = OrElse(ParseView(url), @), !.resource = url.resource,
                !.query = IF ParseView(url) = "inventory" THEN url.q ELSE @,
                !.kind = OrElse(Known(url.kind, Kinds), @), !.execution = SelectedFor(url, {"runs"}),
                !.adapter = IF ParseView(url) = "runs" THEN ShowsAdapter(url) ELSE @,
                !.bar = SelectedFor(url, {"timeline"}),
                !.lineage = Clamped(LineageOf(url, BuiltIn))]
(* After Back and Forward: what the URL says, over what the views keep otherwise.  Its defaults *)
(* of the lineage are the built-in ones, not the preferences.                                   *)
ApplySearch(url) ==
    [nav EXCEPT !.view = OrElse(ParseView(url), @), !.resource = url.resource,
                !.tab = ParseAssetTab(url),
                !.query = IF ParseView(url) = "inventory" THEN url.q ELSE @,
                !.kind = OrElse(Known(url.kind, Kinds), @), !.execution = SelectedFor(url, {"runs"}),
                !.adapter = IF ParseView(url) = "runs" THEN ShowsAdapter(url) ELSE @,
                !.bar = SelectedFor(url, {"timeline"}),
                !.lineage = Clamped(LineageOf(url, BuiltIn))]

-----------------------------------------------------------------------------
(* Writing one: only the parameters of the view, whatever the URL had before. *)
InventoryUrl(n) ==
    LET common == [NoParameters EXCEPT !.resource = n.resource, !.assetTab = n.tab, !.q = n.query]
    IN IF n.tab # "lineage" THEN common
       ELSE [common EXCEPT !.selected = n.lineage.node, !.up = n.lineage.up,
                           !.down = n.lineage.down, !.lens = n.lineage.lens,
                           !.allDeps = IF n.lineage.allDeps THEN "1" ELSE "0"]
RunsUrl(n) == [NoParameters EXCEPT !.kind = n.kind, !.selected = n.execution,
                                   !.adapter = IF n.adapter THEN "" ELSE "0"]
TimelineUrl(n) == [NoParameters EXCEPT !.selected = n.bar]
BuildNextUrl(n) ==
    LET parameters == CASE n.view = "inventory" -> InventoryUrl(n)
                        [] n.view = "runs" -> RunsUrl(n)
                        [] n.view = "timeline" -> TimelineUrl(n)
                        [] OTHER -> NoParameters
    IN [parameters EXCEPT !.view = n.view]

(* What a reader sees of the state of a view. *)
Nothing == <<>>
Shown(n) ==
    CASE n.view = "inventory" ->
             <<"inventory", n.resource, n.tab, n.query,
               IF n.tab = "lineage"
               THEN <<n.lineage.up, n.lineage.down, n.lineage.allDeps, n.lineage.lens>>
               ELSE Nothing>>
      [] n.view = "runs" -> <<"runs", n.kind, n.execution, n.adapter /\ metricsAvailable>>
      [] n.view = "timeline" -> <<"timeline", n.bar>>
      [] OTHER -> <<n.view>>

(* pushState: what was ahead of the entry is gone. *)
Entry(url, shown) == [url |-> url, shown |-> shown]
Pushed(entries, entry) ==
    IF entry.url = Last(entries).url THEN entries ELSE Append(entries, entry)
Push(entries, n) == Pushed(entries, Entry(BuildNextUrl(n), Shown(n)))
(* The Runs view takes its metrics back when the run has none, in a render of its own. *)
SettledView(n) ==
    IF n.view = "runs" /\ n.adapter /\ ~metricsAvailable THEN [n EXCEPT !.adapter = FALSE] ELSE n
(* After a state: one push for it, another one for the state it settles in.  The entries ahead *)
(* of the current one stay unless something is pushed.                                         *)
Written(entries, at, pushed) ==
    /\ IF Len(pushed) = at THEN history' = entries ELSE history' = pushed
    /\ position' = Len(pushed)
    /\ Len(history') <= MaxHistory
Settles(entries, at, n, settled) ==
    /\ nav' = settled
    /\ Written(entries, at, Push(Push(SubSeq(entries, 1, at), n), settled))
Write(entries, at, n) == Settles(entries, at, n, SettledView(n))

UrlStart(page) ==
    /\ metricsAvailable = page.metrics
    /\ preferences = BuiltIn
    /\ nav = InitialNavigation(page.url)
    /\ history = <<Entry(page.url, Nothing)>>
    /\ position = 1
UrlUnchanged == UNCHANGED <<preferences, metricsAvailable>>

Show(n) == Write(history, position, n) /\ UrlUnchanged
(* The first effects of the page. *)
Mounted == Len(history) > 1 \/ BuildNextUrl(SettledView(nav)) = history[1].url
Mount == ~Mounted /\ Show(nav)

-----------------------------------------------------------------------------
(* handleNavigateTo: an option that is not given is "". *)
NavigateTo(view, resource, execution, tab) ==
    Show([nav EXCEPT !.view = view,
                     !.resource = OrElse(resource, @),
                     !.tab = IF resource # "" \/ view = "inventory" THEN OrElse(tab, @) ELSE @,
                     !.lineage = IF resource = "" THEN @
                                 ELSE [@ EXCEPT !.root = resource, !.node = resource],
                     !.execution = OrElse(execution, @), !.bar = OrElse(execution, @)])
OpenView == \E view \in Views : Mounted /\ Show([nav EXCEPT !.view = view])
OpenResource == \E r \in Assets : Mounted /\ NavigateTo("inventory", r, "", "summary")
OpenLineage == \E r \in Executions :
    nav.view = "runs" /\ Mounted /\ NavigateTo("inventory", r, "", "lineage")
OpenInTimeline == \E r \in Executions :
    nav.view \in {"inventory", "runs"} /\ Mounted /\ NavigateTo("timeline", r, r, "")
OpenRun == \E e \in Executions : nav.view = "inventory" /\ Mounted /\ NavigateTo("runs", "", e, "")

(* The explorer, the lineage graph and the picker of the empty inventory. *)
InInventory == nav.view = "inventory" /\ Mounted
SelectInExplorer == \E r \in Assets : InInventory /\ Show([nav EXCEPT !.resource = r])
SelectInLineage == \E r \in Assets :
    /\ InInventory /\ nav.resource # ""
    /\ Show([nav EXCEPT !.resource = r, !.tab = "lineage", !.lineage.node = r])
PickLineage == \E r \in Assets :
    /\ InInventory /\ nav.resource = ""
    /\ Show([nav EXCEPT !.resource = r, !.tab = "lineage", !.lineage.root = r, !.lineage.node = r])
SearchInventory == \E q \in {"", "q"} : InInventory /\ Show([nav EXCEPT !.query = q])
SetLineage ==
    /\ InInventory /\ nav.resource # ""
    /\ \/ \E depth \in Depths : Show([nav EXCEPT !.lineage.up = depth, !.lineage.down = depth,
                                              !.lineage.allDeps = FALSE])
       \/ Show([nav EXCEPT !.lineage.allDeps = TRUE])
       \/ \E side \in Steppers, by \in {-1, 1} :
              /\ ~nav.lineage.allDeps
              /\ IF by = 1 THEN nav.lineage[side] < 3 ELSE nav.lineage[side] > 1
              /\ Show([nav EXCEPT !.lineage[side] = @ + by])
       \/ \E lens \in PickedLenses : Show([nav EXCEPT !.lineage.lens = lens])

(* The Runs and Timeline views. *)
SetKind == \E kind \in {"all", "tests"} :
    nav.view = "runs" /\ Mounted /\ Show([nav EXCEPT !.kind = kind])
SelectRow == \E e \in Executions : nav.view = "runs" /\ Mounted /\ Show([nav EXCEPT !.execution = e])
ToggleAdapter == /\ nav.view = "runs" /\ Mounted /\ metricsAvailable
                 /\ Show([nav EXCEPT !.adapter = ~@])
SelectBar == \E e \in Executions \cup {""} :
    nav.view = "timeline" /\ Mounted /\ Show([nav EXCEPT !.bar = e])

(* Settings: the preferences are the state of the lineage from then on. *)
ChangePreferences ==
    \E depth \in Depths, lens \in PickedLenses :
        LET chosen == [up |-> depth, down |-> depth, allDeps |-> FALSE, lens |-> lens]
        IN /\ nav.view = "settings" /\ Mounted /\ chosen # preferences
           /\ preferences' = chosen
           /\ Write(history, position,
                    [nav EXCEPT !.lineage.up = depth, !.lineage.down = depth,
                                !.lineage.allDeps = FALSE, !.lineage.lens = lens])
           /\ UNCHANGED metricsAvailable

(* Back and Forward. *)
Traverses(to) ==
    /\ to \in DOMAIN history
    /\ Write(history, to, ApplySearch(history[to].url))
    /\ UrlUnchanged
Back == Mounted /\ Traverses(position - 1)
Forward == Mounted /\ Traverses(position + 1)

UrlNext ==
    \/ Mount \/ OpenView \/ OpenResource \/ OpenLineage \/ OpenInTimeline \/ OpenRun
    \/ SelectInExplorer \/ SelectInLineage \/ PickLineage \/ SearchInventory \/ SetLineage
    \/ SetKind \/ SelectRow \/ ToggleAdapter \/ SelectBar \/ ChangePreferences \/ Back \/ Forward

-----------------------------------------------------------------------------
(* Back and Forward onto an entry that the page wrote show what the page showed when it wrote  *)
(* it: the view, the asset and its tab, the filter, the selected execution, the columns and    *)
(* the depth and lens of the lineage, whatever was changed since; only a depth above 10, which *)
(* the page can have been opened with, comes back as 10 (workspace-url-sync.ts:163, 196,       *)
(* app-navigation.ts:177).                                                                     *)
LandsOn(to) == Traverses(to) /\ history[to].shown # Nothing
Restored(shown) ==
    IF shown[1] = "inventory" /\ shown[5] # Nothing
    THEN <<shown[1], shown[2], shown[3], shown[4],
           <<ClampDepth(shown[5][1]), ClampDepth(shown[5][2]), shown[5][3], shown[5][4]>>>>
    ELSE shown
BackShowsWhatWasLeft ==
    [][\A to \in {position - 1, position + 1} :
           LandsOn(to) => Shown(nav') = Restored(history[to].shown)]_urlVars
=============================================================================
