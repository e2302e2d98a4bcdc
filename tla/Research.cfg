SPECIFICATION MCSpec
CONSTANTS
    Engines <- MCEngines
    Markets = {"Kalshi"}
    ExplorerOn = TRUE
    Urls = {"a", "b", "c", "d", "e"}
    Rankings <- MCRankings
    MaxRanked = 5
    MaxCycles = 3
    MinTargets = 2
INVARIANTS
    BundleIsFinal
    CyclesKeepWhatTheyRead
PROPERTIES
    ResearchEnds
    IsOnePass
CHECK_DEADLOCK FALSE
