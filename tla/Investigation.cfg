SPECIFICATION Spec
CONSTANTS
    Bundles <- MCBundles
    QueryDepths <- MCQueryDepths
    Listings <- MCListings
    Searched <- MCSearched
    BatchSize = 1
    RunAnalyses <- MCRunAnalyses
    Questions <- MCQuestions
    MaxRequests = 3
    MaxReveals = 2
    Assets = {"a", "b"}
    Executions = {"b"}
    FirstPages <- MCFirstPages
    Depths = {3}
    Steppers = {"down"}
    PickedLenses = {"status"}
    MaxHistory = 3
    Catalogs <- MCCatalogs
    Searches <- MCSearches
    Statuses = {"all", "issues"}
    PickedTypes = {"model"}
    PickedMaterializations = {2}
    LineageGraphs <- MCLineageGraphs
    LensModes = {"type", "status"}
    DepthButtons = {1, 2}
    TimelineRuns <- MCTimelineRuns
    TimelineDefaults <- MCTimelineDefaults
    TimelineQueries <- MCTimelineQueries
    TimelineStatuses = {"error"}
    TimelineTypes = {"model"}
    PointerXs <- MCPointerXs
    PointerYs <- MCPointerYs
    BrushPoints <- MCBrushPoints
    MaxClicks = 3
    ChartW = 24
    MinBrushWindow = 2
    MaxDirectEdges = 2
    MaxExtendedEdges = 3
    Names <- MCNames
    Openings <- MCOpenings
    MaxPublications = 2
    MaxReadFaults = 1
INVARIANTS
    DependenciesAreReachable
    CriticalPathIsExecutedChain
    TimelineIsConsistent
    PagesPartitionMatches
    SearchIsDiscoverable
    ResolvedIsUnambiguousBest
    ResultsAreCurrent
    IssuesAreMarked
    LineageIsConnected
    TimelineShowsNeighbourhood
    RowsAreFound
    EntriesAgree
    OpenedIsStored
PROPERTIES
    BackShowsWhatWasLeft
    SelectedIsRevealed
    DragKeepsWindow
CHECK_DEADLOCK FALSE
