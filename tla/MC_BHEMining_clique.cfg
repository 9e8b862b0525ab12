\* Clique engine: StartMining binds a signer through the account manager.
CONSTANTS
    p1 = p1
    p2 = p2
    a1 = a1
    a2 = a2
    z = z
    Proc <- MCProc
    Addr <- MCAddr
    Zero = z
    FirstAccount = a1
    LocalWallets = {a1}
    Locals = {a2}
    EngineKind = "clique"
    InitEtherbase = z
    GasPrice = 2
    PoolPrice0 = 1
    ThreadArgs <- MCThreadArgs
    MaxCalls = 4
SPECIFICATION Spec
SYMMETRY MCSymmetry
INVARIANT
    MiningPreconditions
PROPERTY
    ImplementsAbstractMining
