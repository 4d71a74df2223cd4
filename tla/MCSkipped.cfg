SPECIFICATION LuckyWatcherSpec
CONSTANTS
    CHUNK = 2
    DeployBlock = 1
    BatchSizes = {1}
    Overrides = {0}
    RpcFails = FALSE
    SimulateFails = TRUE
    MaxBlock = 3
    MaxCrashes = 0
PROPERTIES
    NoneSkipped
