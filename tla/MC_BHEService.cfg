\* MinerQuietAfterStop: a miner.Start spawned before Stop runs after it.
CONSTANTS
    p1 = p1
    a1 = a1
    z = z
    w1 = w1
    Proc <- MCProc
    Addr <- MCAddr
    Workers <- MCWorkers
    ThreadArgs <- MCThreadArgs
    InputConfigs <- MCInputConfigs
    Zero = z
    FirstAccount = a1
    LocalWallets = {a1}
    Locals = {}
    EngineKind = "ethash"
    InitEtherbase = z
    GasPrice = 2
    PoolPrice0 = 1
    MaxCalls = 2
    DefaultGasPrice = 1
    BlockChainVersion = 7
    MaxExtraData = 32
    DefaultExtraLen = 20
    NilPrice = NilPrice
    NoVersion = NoVersion
SPECIFICATION Spec
INVARIANT
    MinerQuietAfterStop
