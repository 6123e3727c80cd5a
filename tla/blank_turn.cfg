CONSTANTS
    Request = {1}
    Turn = 1
    Calls <- AllCalls
    MaxBytes = 3
    MaxChunk = 2
    Inputs <- AllInputs
    Workloads <- RequestWorkloads
    EmbedTimeout = 8
    RetryPause = 1
    ExtractionTimeout = 25
    BatchTimeout = 10
    Patience = 60
    Horizon = 70
SPECIFICATION TurnRequestSpec
CHECK_DEADLOCK FALSE
INVARIANTS
    InvalidBodiesGet4xx
