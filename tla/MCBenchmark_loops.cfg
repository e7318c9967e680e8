SPECIFICATION Spec
CONSTANTS
    Warmups = {11, 12}
    Requests = {1, 2, 3}
    Concurrency = 2
    Chunks <- MCChunks
    MaxChunks = 2
    NONE = NONE
INVARIANTS
    LoadAsSpecified
    QuietAfterwards
    ReportFaithful
CHECK_DEADLOCK FALSE
