\* Violation run: INVARIANT SingleLaunch
CONSTANTS
    p1 = p1
    p2 = p2
    a1 = a1
    a2 = a2
    z = z
    Proc <- MCProc
    Addr <- MCAddr
    Zero = z
    FirstAccount = a1
    LocalWallets = {a1}
    Locals = {a2}
    EngineKind = "ethash"
    InitEtherbase = z
    GasPrice = 2
    PoolPrice0 = 1
    ThreadArgs <- MCThreadArgs
    MaxCalls = 3
SPECIFICATION Spec
SYMMETRY MCSymmetry
INVARIANT SingleLaunch
