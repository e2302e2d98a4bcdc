SPECIFICATION LibrarySpec
CONSTANTS
  Questions = {q1}
  Permits = 1
  MaxTries = 2
  MaxAttempts = 3
  SkipPrevious = TRUE
  SubmitPrediction = TRUE
  NumQuestions = 2
  AttemptsAt <- MCAttempts
  CallsOf <- MCCallsOf
  MaxCalls = 2
  MaxFaults = 1
  LibraryQuestions = {1, 2, 3}
  QuestionOf <- MCQuestionOf
  Abstained = {2}
  Gone = {1}
  MaxChecks = 2
  PageSize = 1
  MaxMisses = 1
INVARIANTS
    MetaculusAgrees
    OneForecastUnlessOvertaken
    LibraryIsConsistent
    PassScoresAll
PROPERTIES
    ReachesTheLibrary
    AllAreScoredInTheEnd
