\* Construction, start and stop over every configuration of MCInputConfigs.
CONSTANTS
    w1 = w1
    w2 = w2
    Workers <- MCWorkers
    InputConfigs <- MCInputConfigs
    DefaultGasPrice = 1
    BlockChainVersion = 7
    MaxExtraData = 32
    DefaultExtraLen = 20
    NilPrice = NilPrice
    NoVersion = NoVersion
SPECIFICATION Spec
INVARIANTS
    TypeOK
    StopOrderExceptMinerPool
    PeerBudgetHonoured
    ConstructedState
PROPERTIES
    VersionNeverDowngrades
    WorkersExitAfterStop
