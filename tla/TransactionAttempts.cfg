\* One transaction at the largest number of retries the configuration accepts.
SPECIFICATION AttemptsFairSpec
CONSTANT MaxAttempts = 6
PROPERTIES
    ImplementsOutcome
    Ends
CHECK_DEADLOCK FALSE
