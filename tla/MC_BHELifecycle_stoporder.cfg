\* StopOrder with every user of a subsystem, the miner of the pool included.
CONSTANTS
    w1 = w1
    w2 = w2
    Workers <- MCWorkers
    InputConfigs <- MCInputConfigs
    DefaultGasPrice = 1
    BlockChainVersion = 7
    MaxExtraData = 32
    DefaultExtraLen = 20
    NilPrice = NilPrice
    NoVersion = NoVersion
SPECIFICATION Spec
INVARIANT
    StopOrder
