SPECIFICATION FairWatcherSpec
CONSTANTS
    CHUNK = 2
    DeployBlock = 1
    BatchSizes = {1, 2}
    Overrides = {0, 1}
    RpcFails = TRUE
    SimulateFails = TRUE
    MaxBlock = 3
    MaxCrashes = 2
INVARIANTS
    ProcessedSettled
    SkippedOnlyByFailure
PROPERTIES
    SettledUnlessFailed
