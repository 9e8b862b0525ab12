--------------------------- MODULE BHEService_proofs ---------------------------
(***************************************************************************)
(* The mining surface's guarantees survive its composition with the        *)
(* service's lifecycle.  Every step of BHEService either is a step of      *)
(* BHEMining, or leaves the mining state alone, or is Stop's call          *)
(* s.miner.Stop() (line 546), which only stops the miner.  So the          *)
(* inductive invariant of BHEMining_proofs, and its refinement mapping,    *)
(* carry over; the one new step needs its own argument.                    *)
(***************************************************************************)
EXTENDS BHEService, TLAPS

MP == INSTANCE BHEMining_proofs
LP == INSTANCE BHELifecycle_proofs

\* The lemmas of BHEMining_proofs and BHELifecycle_proofs hold under the
\* assumptions of their modules, which ServiceAssumption states for the
\* constants of BHEService; the lemmas below that need them take it as a
\* hypothesis.
USE DEF ServiceAssumption, M!ConstAssumption, MP!ConstAssumption,
    M!AddrOrZero, MP!AddrOrZero, M!EngineKinds, MP!EngineKinds,
    L!ConfigAssumption, LP!ConfigAssumption, L!LifecycleAssumption,
    LP!LifecycleAssumption, L!ConfigFields, LP!ConfigFields, L!SyncModes,
    LP!SyncModes

(***************************************************************************)
(* M (in BHEService) and MP (here) instantiate the same module with the    *)
(* same constants and variables, so their operators agree; the provers     *)
(* see this only once both are expanded to the variables.                  *)
(***************************************************************************)
LEMMA SameInit == M!Init <=> MP!Init
  BY DEF M!Init, MP!Init, M!InitThreads, MP!InitThreads, M!AddrOrZero,
         MP!AddrOrZero

LEMMA SameNext == M!Next <=> MP!Next
  BY DEF M!Next, MP!Next, M!StartMining, MP!StartMining, M!SmCheck,
      MP!SmCheck, M!SmPrice, MP!SmPrice, M!SmEtherbase, MP!SmEtherbase,
      M!SmAccount, MP!SmAccount, M!SmAuthorize, MP!SmAuthorize,
      M!SmSpawn, MP!SmSpawn, M!StopMining, MP!StopMining, M!StStop,
      MP!StStop, M!SetBHEerbase, MP!SetBHEerbase, M!SeMiner, MP!SeMiner,
      M!MinerStart, MP!MinerStart, M!SyncDone, MP!SyncDone, M!Reorg,
      MP!Reorg, M!ShouldPreserve, MP!ShouldPreserve, M!IsLocalBlock,
      MP!IsLocalBlock, M!Quiescent, MP!Quiescent, M!Goto, MP!Goto,
      M!Threaded, MP!Threaded, M!AddrOrZero, MP!AddrOrZero, M!vars,
      MP!vars

LEMMA SamePreconditions == M!MiningPreconditions <=> MP!MiningPreconditions
  BY DEF M!MiningPreconditions, MP!MiningPreconditions

LEMMA SameAbstract ==
    /\ M!Abs!Init <=> MP!Abs!Init
    /\ M!Abs!Next <=> MP!Abs!Next
    /\ M!Abs!absVars = MP!Abs!absVars
  BY DEF M!Threaded, MP!Threaded, M!InitThreads, MP!InitThreads, M!Abs!Init, MP!Abs!Init, M!Abs!Next, MP!Abs!Next, M!Abs!SetThreads,
      MP!Abs!SetThreads, M!Abs!PropagatePrice, MP!Abs!PropagatePrice,
      M!Abs!Authorize, MP!Abs!Authorize, M!Abs!AcceptTxs,
      MP!Abs!AcceptTxs, M!Abs!StartMiner, MP!Abs!StartMiner,
      M!Abs!StopMiner, MP!Abs!StopMiner, M!Abs!SetCoinbase,
      MP!Abs!SetCoinbase, M!Abs!absVars, MP!Abs!absVars

\* What Stop's s.miner.Stop() does to the mining state.
MinerStopped ==
    /\ mining' = FALSE
    /\ lastCtl' = "stop"
    /\ UNCHANGED <<etherbase, threads, signer, poolPrice, acceptTxs, coinbase,
                   pendStart, pc, eb, calls, reorg>>

\* Seen from the mining state, a step of the service is a step of
\* BHEMining, a stutter, or Stop's s.miner.Stop().
LEMMA MiningView ==
    [Next]_vars => [M!Next]_miningVars \/ MinerStopped
<1> SUFFICES ASSUME [Next]_vars PROVE [M!Next]_miningVars \/ MinerStopped
  OBVIOUS
<1>1. CASE ApiCall
  BY <1>1 DEF ApiCall, M!Next, AddrOrZero, M!AddrOrZero
<1>2. CASE MiningStep
  BY <1>2 DEF MiningStep, M!Next, AddrOrZero, M!AddrOrZero
<1>3. CASE StopMiner
  BY <1>3 DEF StopMiner, MinerStopped
<1>4. CASE LifecycleStep
  BY <1>4 DEF LifecycleStep
<1>5. CASE UNCHANGED vars
  BY <1>5 DEF vars
<1>6. QED
  BY <1>1, <1>2, <1>3, <1>4, <1>5 DEF Next

\* Stopping the miner keeps the mining invariant: it only clears the
\* running flag, and what a pending start needs is untouched.
LEMMA MinerStoppedKeepsIInv == MP!IInv /\ MinerStopped => MP!IInv'
<1> SUFFICES ASSUME MP!IInv, MinerStopped PROVE MP!IInv'
  OBVIOUS
<1>1. MP!TypeOK'
  BY DEF MP!IInv, MP!TypeOK, MinerStopped
<1>2. MP!MiningPreconditions'
  BY DEF MP!IInv, MP!MiningPreconditions, MinerStopped
<1>3. QED
  BY <1>1, <1>2 DEF MP!IInv, MinerStopped

\* Stopping the miner is the abstract controller's StopMiner step.
LEMMA MinerStoppedRefines ==
    MinerStopped => [M!Abs!Next]_(M!Abs!absVars)
  BY DEF MinerStopped, M!Abs!Next, M!Abs!StopMiner, M!Abs!absVars

LEMMA ServiceIInvInit ==
    ASSUME ServiceAssumption PROVE Init => MP!IInv
<1>1. MP!Init => MP!IInv
  BY MP!IInvInit
<1>2. QED
  BY <1>1, SameInit DEF Init

LEMMA ServiceIInvStep ==
    ASSUME ServiceAssumption PROVE MP!IInv /\ [Next]_vars => MP!IInv'
<1> SUFFICES ASSUME MP!IInv, [Next]_vars PROVE MP!IInv'
  OBVIOUS
<1>1. CASE [M!Next]_miningVars
  BY <1>1, SameNext, MP!IInvStep DEF miningVars, MP!vars
<1>2. CASE MinerStopped
  BY <1>2, MinerStoppedKeepsIInv
<1>3. QED
  BY <1>1, <1>2, MiningView

\* With the lifecycle beside it, calls under way during Stop and Stop's
\* own s.miner.Stop(), the mining surface never runs or spawns a miner
\* without the pool price, acceptTxs and, under clique, a local signer
\* (ServiceMiningSafe), for every value of the constants that satisfies
\* ServiceAssumption.
THEOREM ServiceMiningSafeProved ==
    ASSUME ServiceAssumption PROVE Spec => []ServiceMiningSafe
<1>1. MP!IInv => ServiceMiningSafe
  BY SamePreconditions DEF MP!IInv, ServiceMiningSafe
<1>2. Init => MP!IInv
  BY ServiceIInvInit
<1>3. MP!IInv /\ [Next]_vars => MP!IInv'
  BY ServiceIInvStep
<1>4. QED
  BY <1>1, <1>2, <1>3, PTL DEF Spec

\* The composed service implements the abstract mining controller
\* (ServiceImplementsAbstractMining): Stop's s.miner.Stop() is an abstract
\* StopMiner step and every other step maps as in BHEMining.
THEOREM ServiceRefinement ==
    ASSUME ServiceAssumption PROVE Spec => ServiceImplementsAbstractMining
<1>1. Init => M!Abs!Init
  BY MP!AbsInit, SameInit, SameAbstract DEF Init
<1>2. MP!IInv /\ [Next]_vars => [M!Abs!Next]_(M!Abs!absVars)
  <2> SUFFICES ASSUME MP!IInv, [Next]_vars
               PROVE  [M!Abs!Next]_(M!Abs!absVars)
    OBVIOUS
  <2>1. CASE [M!Next]_miningVars
    <3>1. [MP!AbsNext]_MP!AbsVars
      BY <2>1, SameNext, MP!AbsStep DEF miningVars, MP!vars
    <3>2. QED
      BY <3>1, SameAbstract DEF MP!AbsNext, MP!AbsVars, M!Abs!absVars, MP!Abs!absVars
  <2>2. CASE MinerStopped
    BY <2>2, MinerStoppedRefines
  <2>3. QED
    BY <2>1, <2>2, MiningView
<1>3. Spec => []MP!IInv
  <2>1. Init => MP!IInv
    BY ServiceIInvInit
  <2>2. MP!IInv /\ [Next]_vars => MP!IInv'
    BY ServiceIInvStep
  <2>3. QED
    BY <2>1, <2>2, PTL DEF Spec
<1>4. QED
  BY <1>1, <1>2, <1>3, PTL DEF Spec, ServiceImplementsAbstractMining,
     M!ImplementsAbstractMining, M!Abs!Spec

(***************************************************************************)
(* The lifecycle side.  L (in BHEService) and LP (here) agree as M and MP  *)
(* do; every service step is a lifecycle step or leaves the lifecycle      *)
(* alone, so the invariant of BHELifecycle_proofs carries over unchanged.  *)
(***************************************************************************)
LEMMA SameLifecycleInit == L!Init <=> LP!Init
  BY DEF L!Init, LP!Init, L!Res, LP!Res

LEMMA SameLifecycleNext == L!Next <=> LP!Next
  BY DEF L!NewConfig, LP!NewConfig, L!NewOpenDb, LP!NewOpenDb, L!NewVersion,
         LP!NewVersion, L!NewChain, LP!NewChain, L!NewProtocolManager,
         LP!NewProtocolManager, L!NewDiscovery, LP!NewDiscovery,
         L!AddLesServer, LP!AddLesServer, L!Start, LP!Start, L!StopBegin,
         LP!StopBegin, L!StopStep, LP!StopStep, L!BloomServe,
         LP!BloomServe, L!BloomDone, LP!BloomDone, L!BloomExit,
         LP!BloomExit, L!Terminated, LP!Terminated, L!Set, LP!Set, L!Fail,
         LP!Fail, L!SyncModeCheck, LP!SyncModeCheck, L!RedistributeCaches,
         LP!RedistributeCaches, L!SanitizeGasPrice, LP!SanitizeGasPrice,
         L!VersionCheck, LP!VersionCheck, L!PeerBudget, LP!PeerBudget,
         L!StopPhases, LP!StopPhases, L!StopTarget, LP!StopTarget, L!vars,
         LP!vars, L!Next, LP!Next

LEMMA LifecycleView == [Next]_vars => [L!Next]_lifecycleVars
<1> SUFFICES ASSUME [Next]_vars PROVE [L!Next]_lifecycleVars
  OBVIOUS
<1>1. CASE ApiCall \/ MiningStep
  BY <1>1 DEF ApiCall, MiningStep, lifecycleVars
<1>2. CASE StopMiner
  BY <1>2 DEF StopMiner, L!Next
<1>3. CASE LifecycleStep
  BY <1>3 DEF LifecycleStep
<1>4. CASE UNCHANGED vars
  BY <1>4 DEF vars, lifecycleVars
<1>5. QED
  BY <1>1, <1>2, <1>3, <1>4 DEF Next

\* With the mining calls and the spawned miner.Start running beside it,
\* and with s.miner.Stop() shared with the mining surface, Stop still
\* stops every subsystem after all of its users except the pool, which the
\* miner outlives for the one call between s.txPool.Stop() and
\* s.miner.Stop() (StopOrderExceptMinerPool of BHELifecycle), for every
\* configuration and every set of workers.
THEOREM ServiceStopOrder ==
    ASSUME ServiceAssumption PROVE Spec => []L!StopOrderExceptMinerPool
<1>1. Init => LP!IInv
  <2>1. LP!Init => LP!IInv
    BY LP!IInvInit
  <2>2. QED
    BY <2>1, SameLifecycleInit DEF Init
<1>2. LP!IInv /\ [Next]_vars => LP!IInv'
  <2> SUFFICES ASSUME LP!IInv, [Next]_vars PROVE LP!IInv'
    OBVIOUS
  <2>1. [LP!Next]_LP!vars
    BY LifecycleView, SameLifecycleNext DEF lifecycleVars, LP!vars
  <2>2. QED
    BY <2>1, LP!IInvStep
<1>3. LP!IInv => L!StopOrderExceptMinerPool
  <2>1. LP!IInv => LP!StopOrderExceptMinerPool
    BY LP!StopOrderOfIInv
  <2>2. QED
    BY <2>1 DEF L!StopOrderExceptMinerPool, LP!StopOrderExceptMinerPool,
                L!Uses, LP!Uses
<1>4. QED
  BY <1>1, <1>2, <1>3, PTL DEF Spec
=============================================================================
