SPECIFICATION Spec
CONSTANTS
    a = a
    b = b
    c = c
    Questions <- MCQuestions
    NumTournaments = 2
    Home <- MCHome
    OpenAt <- MCOpenAt
    CloseAt <- MCCloseAt
    ExplicitPos <- MCExplicitPos
    Concurrency = 2
    WorkerIds = {w1, w2}
    Main = Main
    Nobody = Nobody
    RunTimeLimit = 5
    QuestionTimeout = 2
    DiscoveryInterval = 1
    ListingMayFail = TRUE
    Horizon = 6
SYMMETRY WorkerSymmetry
INVARIANTS
    FailureExitsNonzero
