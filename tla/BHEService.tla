------------------------------ MODULE BHEService ------------------------------
(***************************************************************************)
(* The service's lifecycle (BHELifecycle) and its mining control surface   *)
(* (BHEMining) in one system: the API goroutines call the mining surface   *)
(* while the service is up, their started goroutines (and the spawned      *)
(* miner.Start) run on whatever Stop does, and Stop's call s.miner.Stop()  *)
(* (src/bhe/backend.go line 547) is the lifecycle step that also stops the *)
(* mining loop.                                                            *)
(***************************************************************************)
EXTENDS Naturals

CONSTANTS
    Proc, Addr, Zero, FirstAccount, LocalWallets, Locals, EngineKind,
    InitEtherbase, GasPrice, PoolPrice0, ThreadArgs, MaxCalls,
    DefaultGasPrice, BlockChainVersion, MaxExtraData, DefaultExtraLen,
    NilPrice, NoVersion, InputConfigs, Workers

VARIABLES
    etherbase, threads, signer, poolPrice, acceptTxs, mining, coinbase,
    pendStart, pc, eb, calls, lastCtl, reorg,
    phase, res, input, cfg, dbVersion, pmPeers, workers

M == INSTANCE BHEMining
L == INSTANCE BHELifecycle

\* What the composition needs of its constants: what the mining surface
\* and the lifecycle each assume of theirs.  The theorems about BHEService
\* take it as their hypothesis.
ServiceAssumption ==
    M!ConstAssumption /\ L!ConfigAssumption /\ L!LifecycleAssumption

\* The state each component owns.
miningVars == <<etherbase, threads, signer, poolPrice, acceptTxs, mining,
               coinbase, pendStart, pc, eb, calls, lastCtl, reorg>>
lifecycleVars == <<phase, res, input, cfg, dbVersion, pmPeers, workers>>

Init == M!Init /\ L!Init

AddrOrZero == Addr \cup {Zero}

\* The node serves API calls between New's return and Stop.
Serving == {"ready", "started", "start_failed"}

\* A new API call starts only while the service serves.
ApiCall ==
    /\ phase \in Serving
    /\ \E p \in Proc :
          \/ \E th \in ThreadArgs : M!StartMining(p, th)
          \/ M!StopMining(p)
          \/ \E a \in AddrOrZero : M!SetBHEerbase(p, a)
    /\ UNCHANGED lifecycleVars

\* A call already under way and the spawned miner.Start go on whatever the
\* lifecycle does; the protocol manager reports sync while it runs, and the
\* chain asks shouldPreserve while it runs.
MiningStep ==
    /\ \/ \E p \in Proc :
             \/ M!SmCheck(p) \/ M!SmPrice(p) \/ M!SmEtherbase(p)
             \/ M!SmAccount(p) \/ M!SmAuthorize(p) \/ M!SmSpawn(p)
             \/ M!StStop(p) \/ M!SeMiner(p)
       \/ \E a \in AddrOrZero : M!MinerStart(a)
       \/ res["pm"] = "running" /\ M!SyncDone
       \/ res["chain"] = "running" /\ M!Reorg
    /\ UNCHANGED lifecycleVars

\* Stop's call s.miner.Stop() stops the mining loop.
StopMiner ==
    /\ phase = "stop_miner"
    /\ \E i \in 1..9 : L!StopStep(i)
    /\ mining' = FALSE
    /\ lastCtl' = "stop"
    /\ UNCHANGED <<etherbase, threads, signer, poolPrice, acceptTxs, coinbase,
                   pendStart, pc, eb, calls, reorg>>

\* Every other lifecycle step leaves the mining state alone.
LifecycleStep ==
    /\ L!Next
    /\ phase # "stop_miner" \/ phase' = "stop_miner"
    /\ UNCHANGED miningVars

Next == ApiCall \/ MiningStep \/ StopMiner \/ LifecycleStep

vars == <<miningVars, lifecycleVars>>

Spec == Init /\ [][Next]_vars

\* Spec 4.2 orders Stop as: stop the pool, stop the mining loop, then stop
\* the chain, and spec 2 allows one live mining loop per service.  Once
\* Stop has stopped the chain, the mining loop is not running.
MinerQuietAfterStop ==
    res["chain"] = "stopped" => ~mining

\* Composed with the lifecycle, with calls under way during Stop and Stop's
\* own s.miner.Stop(), the mining surface still never runs or spawns a
\* miner without the pool price, acceptTxs and, under clique, a local
\* signer (spec 4.3).
ServiceMiningSafe == M!MiningPreconditions

\* Composed with the lifecycle, the mining surface still implements the
\* abstract mining controller: Stop's s.miner.Stop() is its StopMiner step.
ServiceImplementsAbstractMining == M!ImplementsAbstractMining
=============================================================================
