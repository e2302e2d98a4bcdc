SPECIFICATION Spec
CONSTANTS
    Chats = {a}
    Threads = {t}
    Compressions = {d}
    Others = {}
    Calls <- AllCalls
    Kind <- KindOf
    Questions <- OneQuestion
    Question <- QuestionOf
    Permits = 1
    Streams = 2
    Models = 2
    Rungs = 2
    Tries = 2
SYMMETRY CallSymmetry
INVARIANTS
    NothingLeaks
    RequestsBounded
    NoCircularWait
