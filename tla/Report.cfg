SPECIFICATION ReportSpec
CONSTANTS
    Pool <- MCPool
    HeteroModel = "sonnet"
    Backup = "backup"
    NoModel = "none"
    Unusable = Unusable
    Specs <- MCSpecs
    Questions <- MCQuestions
    Numbers <- MCNumbers
    OptionNumbers <- MCOptionNumbers
    Renderings <- MCRenderings
    Options = 2
    Parts = 6
    Geometries <- MCGeometries
    ReplySets <- MCReplySets
    Nothing = Nothing
    MaxComponents = 2
    InboundDefault = 8
    Percent = 1
    MaxSlip = 2
    Reports <- MCReports
    Budget = 6
    ChunkOff = 3
    ChunkQwen = 2
    CallsOff = 2
    CallsQwen = 3
    MinTarget = 2
    Concurrency = 2
    AuditLines = 2
    AuditValues = 2
    SourceLists <- MCSourceLists
    PageLengths = {0, 2, 4, 6, 7}
    MaxInput = 6
    KeptOf <- MCKept
    Header = 1
    Overhead = 2
    MaxCalls = 2
    Webs <- MCWebs
    Page = "p"
    Nowhere = Nowhere
    MinRows = 3
    MaxHops = 3
    MaxFrames = 2
    MaxBundles = 1
    MaxCandidates = 2
    Trailing = 4
    MinTrail = 3
    SampleRows = 9
    Payloads <- MCPayloads
    Site <- MCSite
    Requests <- MCRequests
    Turns = 4
    MaxPages = 4
    MaxLinks = 2
    TextChars = 3
    MaxResult = 6
    MaxConversation = 16
    Trimmed = 2
    Notice = 1
    Queries <- MCQueries
    Alike <- MCAlike
    PlanSets <- MCPlanSets
    SearchedSets <- MCSearchedSets
    MaxItems = 3
    PoolCap = 2
    PoolTop = 2
    Sections <- MCSections
    Room = 10
    MinSection = 2
    Callers = {c1, c2}
    Prompts = {p1, p2}
    MaxPlans = 3
    MaxCached = 2
INVARIANTS
    CountedOnce
    WeightsFollowTheModelThatRan
    UsableRunsDecide
    MassIsKept
    SubmissionIsAccepted
    BriefIsComplete
    CondensingEndsClean
    ScrapeIsAccountedFor
    SeriesIsFaithful
    ConversationIsTrimmed
    CapsAreFair
    PlansAreShared
CHECK_DEADLOCK FALSE
