SPECIFICATION Spec
CONSTANTS
    Chats = {a, b}
    Threads = {}
    Compressions = {d, e}
    Others = {}
    Calls <- AllCalls
    Kind <- KindOf
    Questions <- OneQuestion
    Question <- QuestionOf
    Permits = 2
    Streams = 2
    Models = 1
    Rungs = 1
    Tries = 1
INVARIANTS
    NoCircularWait
