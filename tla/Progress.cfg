SPECIFICATION ProgressSpec
CONSTANTS
    Chats = {a, b}
    Threads = {}
    Compressions = {d}
    Others = {e}
    Calls <- AllCalls
    Kind <- KindOf
    Questions <- OneQuestion
    Question <- QuestionOf
    Permits = 1
    Streams = 2
    Models = 1
    Rungs = 1
    Tries = 2
    q1 = q1
    q2 = q2
    NumTournaments = 2
    Concurrency = 2
    RunTimeLimit = 3
    QuestionTimeout = 1
    DiscoveryInterval = 1
    ListingMayFail = TRUE
    Horizon = 4
    WorkerIds = {w1, w2}
    Main = Main
    Nobody = Nobody
INVARIANTS
    OutageIsMetOnce
PROPERTIES
    AllCallsEnd
    RunEnds
