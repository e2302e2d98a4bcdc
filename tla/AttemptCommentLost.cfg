SPECIFICATION Spec
CONSTANTS
    Questions = {q1}
    Permits = 1
    MaxTries = 2
    MaxAttempts = 2
    SkipPrevious = TRUE
    SubmitPrediction = TRUE
INVARIANTS
    CommentIsPosted
