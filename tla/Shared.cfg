SPECIFICATION SharedSpec
CONSTANTS
    Scrapes <- MCScrapes
    Resolution <- MCResolution
    Cap = 3
    Reserve = 2
    EnableResolution = TRUE
    Slots = 3
    MaxCost = 2
    MaxAttempts = 2
    r1 = r1
    r2 = r2
    g1 = g1
    g2 = g2
    Callers = {a, b, c}
    LoopTasks = {a, b}
    NoGate = NoGate
    Interval = 2
    Backoffs = {1, 3}
    MaxTries = 2
    Horizon = 2
    Calls = {1, 2, 3, 4}
    Kind <- MCKind
    Paid <- MCPaid
    LastAttempt = 2
    Sizes = {2, 3}
    Outputs = {3}
    InputLimit = 4
    OutputLimit = 4
    ReservedTokens = 2
    Expected = 2
    Fetches = {f1, f2, f3}
    Urls <- PageAndQuote
    Key <- OwnKeys
    HasAdapter = {quote}
    Full = 3
    page = page
    quote = quote
    tab1 = tab1
    tab2 = tab2
SYMMETRY SharedSymmetry
INVARIANTS
    BooksBalance
    CreditsAreHeld
    SlotsAreRespected
    RowsFollowTheCall
    LimitsHold
    OneFetchPerKey
    BestPageIsServed
