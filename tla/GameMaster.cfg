\* Two requests for one permit, a circuit that opens after two failures.
SPECIFICATION GameMasterSpec
CONSTANTS
    f1 = f1
    f2 = f2
    Requests = {r1, r2}
    Backends = {"fake", "disabled", "open_ai_compatible"}
    MaxConcurrency = 1
    MaxAttempts = 2
    MaxTokens = 3
    Threshold = 2
    OpenFor = 2
    Deadline = 2
    Facts = {f1, f2}
    Candidates <- MCCandidates
    Usages <- MCUsages
    NoTime = NoTime
INVARIANTS
    OpenedByFailures
PROPERTIES
    RequestsEnd
    CircuitIsTriedAgain
CHECK_DEADLOCK FALSE
