--------------------------- MODULE BHEMining_proofs ---------------------------
(***************************************************************************)
(* Proofs about the mining control surface, for every value of the         *)
(* constants that satisfies ConstAssumption.                               *)
(***************************************************************************)
EXTENDS BHEMining, TLAPS

(***************************************************************************)
(* MiningPreconditions is not inductive: a goroutine at sm_spawn is about  *)
(* to add a miner.Start, so what the spawn needs must already hold while   *)
(* the goroutine is on its way there.  IInv says so per goroutine: past    *)
(* SmPrice the pool has the miner's price, past the address resolution eb  *)
(* is set, and at sm_spawn under clique a local signer is bound.  The      *)
(* values that only ever move one way (the pool price, acceptTxs, a bound  *)
(* signer) keep these facts true under the other goroutines' steps.        *)
(***************************************************************************)
PastPrice == {"sm_eb", "sm_acct", "sm_auth", "sm_spawn"}

IInv ==
    /\ TypeOK
    /\ MiningPreconditions
    /\ \A p \in Proc : pc[p] \in PastPrice => poolPrice = GasPrice
    /\ \A p \in Proc : pc[p] \in {"sm_auth", "sm_spawn"} => eb[p] # Zero
    /\ \A p \in Proc : (pc[p] = "sm_spawn" /\ EngineKind = "clique")
                          => signer \in LocalWallets

USE ConstAssumption DEF ConstAssumption

\* Every step preserves the type invariant.
LEMMA TypeOKStep == TypeOK /\ [Next]_vars => TypeOK'
<1> SUFFICES ASSUME TypeOK, [Next]_vars PROVE TypeOK'
  OBVIOUS
<1> USE DEF TypeOK, Goto, Labels
<1>1. ASSUME NEW p \in Proc, NEW th \in ThreadArgs, StartMining(p, th)
      PROVE TypeOK'
  BY <1>1 DEF StartMining
<1>2. ASSUME NEW p \in Proc, SmCheck(p) PROVE TypeOK'
  BY <1>2 DEF SmCheck
<1>3. ASSUME NEW p \in Proc, SmPrice(p) PROVE TypeOK'
  BY <1>3 DEF SmPrice
<1>4. ASSUME NEW p \in Proc, SmEtherbase(p) PROVE TypeOK'
  BY <1>4 DEF SmEtherbase
<1>5. ASSUME NEW p \in Proc, SmAccount(p) PROVE TypeOK'
  BY <1>5 DEF SmAccount, AddrOrZero
<1>6. ASSUME NEW p \in Proc, SmAuthorize(p) PROVE TypeOK'
  BY <1>6 DEF SmAuthorize, AddrOrZero
<1>7. ASSUME NEW p \in Proc, SmSpawn(p) PROVE TypeOK'
  BY <1>7 DEF SmSpawn
<1>8. ASSUME NEW p \in Proc, StopMining(p) PROVE TypeOK'
  BY <1>8 DEF StopMining
<1>9. ASSUME NEW p \in Proc, StStop(p) PROVE TypeOK'
  BY <1>9 DEF StStop
<1>10. ASSUME NEW p \in Proc, NEW a \in AddrOrZero, SetBHEerbase(p, a)
       PROVE TypeOK'
  BY <1>10 DEF SetBHEerbase
<1>11. ASSUME NEW p \in Proc, SeMiner(p) PROVE TypeOK'
  BY <1>11 DEF SeMiner
<1>12. ASSUME NEW a \in AddrOrZero, MinerStart(a) PROVE TypeOK'
  BY <1>12 DEF MinerStart
<1>13. CASE SyncDone \/ Quiescent \/ UNCHANGED vars
  BY <1>13 DEF SyncDone, Quiescent, vars
<1>15. CASE Reorg
  BY <1>15 DEF Reorg, ShouldPreserve, IsLocalBlock, AddrOrZero
<1>14. QED
  BY <1>1, <1>2, <1>3, <1>4, <1>5, <1>6, <1>7, <1>8, <1>9, <1>10, <1>11,
     <1>12, <1>13, <1>15 DEF Next

\* The initial state is well typed.
LEMMA TypeOKInit == Init => TypeOK
<1> SUFFICES ASSUME Init PROVE TypeOK
  OBVIOUS
<1>1. threads \in ThreadArgs \cup {-1, 0}
  BY DEF Init, InitThreads
<1>2. pendStart \in [AddrOrZero -> Nat] /\ pc \in [Proc -> Labels]
      /\ eb \in [Proc -> AddrOrZero]
  BY DEF Init, Labels, AddrOrZero
<1>3. /\ calls \in 0..MaxCalls
      /\ lastCtl \in {"none", "start", "stop"}
      /\ reorg \in [author : AddrOrZero, preserved : BOOLEAN]
  BY DEF Init, AddrOrZero
<1>4. QED
  BY <1>1, <1>2, <1>3 DEF Init, TypeOK, AddrOrZero

\* Type correctness: every variable of the mining control surface keeps its
\* type in every reachable state, for every value of the constants.
THEOREM TypeCorrect == Spec => []TypeOK
<1>1. QED
  BY TypeOKInit, TypeOKStep, PTL DEF Spec

\* IInv holds initially: no goroutine is past any step.
LEMMA IInvInit == Init => IInv
<1> SUFFICES ASSUME Init PROVE IInv
  OBVIOUS
<1>1. TypeOK
  BY TypeOKInit
<1>2. MiningPreconditions
  BY DEF Init, MiningPreconditions, AddrOrZero
<1>3. \A p \in Proc : pc[p] = "idle"
  BY DEF Init
<1>4. QED
  BY <1>1, <1>2, <1>3 DEF IInv, PastPrice

\* Every step preserves IInv: one step per action, each closing the
\* conjuncts the action can disturb.
LEMMA IInvStep == IInv /\ [Next]_vars => IInv'
<1> SUFFICES ASSUME IInv, [Next]_vars PROVE IInv'
  OBVIOUS
<1>0. TypeOK'
  BY TypeOKStep DEF IInv
<1> USE <1>0 DEF IInv, TypeOK, MiningPreconditions, PastPrice, Goto
<1>1. ASSUME NEW p \in Proc, NEW th \in ThreadArgs, StartMining(p, th)
      PROVE IInv'
  BY <1>1 DEF StartMining
<1>2. ASSUME NEW p \in Proc, SmCheck(p) PROVE IInv'
  BY <1>2 DEF SmCheck
<1>3. ASSUME NEW p \in Proc, SmPrice(p) PROVE IInv'
  BY <1>3 DEF SmPrice
<1>4. ASSUME NEW p \in Proc, SmEtherbase(p) PROVE IInv'
  BY <1>4 DEF SmEtherbase
<1>5. ASSUME NEW p \in Proc, SmAccount(p) PROVE IInv'
  BY <1>5 DEF SmAccount
<1>6. ASSUME NEW p \in Proc, SmAuthorize(p) PROVE IInv'
  BY <1>6 DEF SmAuthorize
<1>7. ASSUME NEW p \in Proc, SmSpawn(p) PROVE IInv'
  BY <1>7 DEF SmSpawn, AddrOrZero
<1>8. ASSUME NEW p \in Proc, StopMining(p) PROVE IInv'
  BY <1>8 DEF StopMining
<1>9. ASSUME NEW p \in Proc, StStop(p) PROVE IInv'
  BY <1>9 DEF StStop
<1>10. ASSUME NEW p \in Proc, NEW a \in AddrOrZero, SetBHEerbase(p, a)
       PROVE IInv'
  BY <1>10 DEF SetBHEerbase
<1>11. ASSUME NEW p \in Proc, SeMiner(p) PROVE IInv'
  BY <1>11 DEF SeMiner
<1>12. ASSUME NEW a \in AddrOrZero, MinerStart(a) PROVE IInv'
  BY <1>12 DEF MinerStart, AddrOrZero
<1>13. CASE SyncDone \/ Quiescent \/ UNCHANGED vars
  BY <1>13 DEF SyncDone, Quiescent, vars
<1>15. CASE Reorg
  BY <1>15 DEF Reorg, ShouldPreserve, IsLocalBlock, AddrOrZero
<1>14. QED
  BY <1>1, <1>2, <1>3, <1>4, <1>5, <1>6, <1>7, <1>8, <1>9, <1>10, <1>11,
     <1>12, <1>13, <1>15 DEF Next

\* A running or starting miner was started by a StartMining that finished
\* every step before the spawn (MiningPreconditions), in every behaviour and
\* for every number of goroutines, addresses and calls.
THEOREM MiningSafe == Spec => []MiningPreconditions
<1>1. IInv => MiningPreconditions
  BY DEF IInv
<1>2. QED
  BY <1>1, IInvInit, IInvStep, PTL DEF Spec

-----------------------------------------------------------------------------
(***************************************************************************)
(* Refinement: every step of the goroutines maps to a step of the abstract *)
(* controller or leaves its six variables alone.  The only step whose     *)
(* abstract guard is not its own is the spawned miner.Start; IInv's       *)
(* MiningPreconditions conjunct supplies it.                               *)
(***************************************************************************)
AbsNext == Abs!Next

AbsVars == Abs!absVars

LEMMA AbsInit == Init => Abs!Init
<1>1. QED
  BY DEF Init, Abs!Init

LEMMA AbsStep == IInv /\ [Next]_vars => ([AbsNext]_AbsVars)
<1> SUFFICES ASSUME IInv, [Next]_vars PROVE [AbsNext]_AbsVars
  OBVIOUS
<1> USE DEF IInv, TypeOK, Goto, AbsVars, Abs!absVars
<1>1. ASSUME NEW p \in Proc, NEW th \in ThreadArgs, StartMining(p, th)
      PROVE [AbsNext]_AbsVars
  <2>1. CASE Threaded
    <3>1. Abs!SetThreads
      BY <1>1, <2>1 DEF StartMining, Abs!SetThreads
    <3>2. QED
      BY <3>1 DEF AbsNext, Abs!Next
  <2>2. CASE ~Threaded
    BY <1>1, <2>2 DEF StartMining
  <2>3. QED
    BY <2>1, <2>2
<1>2. ASSUME NEW p \in Proc, SmPrice(p) PROVE [AbsNext]_AbsVars
  <2>1. Abs!PropagatePrice
    BY <1>2 DEF SmPrice, Abs!PropagatePrice
  <2>2. QED
    BY <2>1 DEF AbsNext, Abs!Next
<1>3. ASSUME NEW p \in Proc, SmAuthorize(p) PROVE [AbsNext]_AbsVars
  <2>1. CASE EngineKind = "clique" /\ eb[p] \in LocalWallets
    <3>1. Abs!Authorize
      BY <1>3, <2>1 DEF SmAuthorize, Abs!Authorize
    <3>2. QED
      BY <3>1 DEF AbsNext, Abs!Next
  <2>2. CASE ~(EngineKind = "clique" /\ eb[p] \in LocalWallets)
    BY <1>3, <2>2 DEF SmAuthorize
  <2>3. QED
    BY <2>1, <2>2
<1>4. ASSUME NEW p \in Proc, SmSpawn(p) PROVE [AbsNext]_AbsVars
  <2>1. Abs!AcceptTxs
    BY <1>4 DEF SmSpawn, Abs!AcceptTxs
  <2>2. QED
    BY <2>1 DEF AbsNext, Abs!Next
<1>5. ASSUME NEW p \in Proc, StopMining(p) PROVE [AbsNext]_AbsVars
  <2>1. CASE Threaded
    <3>1. Abs!SetThreads
      BY <1>5, <2>1 DEF StopMining, Abs!SetThreads
    <3>2. QED
      BY <3>1 DEF AbsNext, Abs!Next
  <2>2. CASE ~Threaded
    BY <1>5, <2>2 DEF StopMining
  <2>3. QED
    BY <2>1, <2>2
<1>6. ASSUME NEW p \in Proc, StStop(p) PROVE [AbsNext]_AbsVars
  <2>1. Abs!StopMiner
    BY <1>6 DEF StStop, Abs!StopMiner
  <2>2. QED
    BY <2>1 DEF AbsNext, Abs!Next
<1>7. ASSUME NEW p \in Proc, SeMiner(p) PROVE [AbsNext]_AbsVars
  <2>1. Abs!SetCoinbase
    BY <1>7 DEF SeMiner, Abs!SetCoinbase, AddrOrZero
  <2>2. QED
    BY <2>1 DEF AbsNext, Abs!Next
<1>8. ASSUME NEW a \in AddrOrZero, MinerStart(a) PROVE [AbsNext]_AbsVars
  <2>1. a \in Addr
    BY <1>8 DEF MinerStart, MiningPreconditions, AddrOrZero
  <2>2. acceptTxs = 1 /\ poolPrice = GasPrice
        /\ (EngineKind = "clique" => signer \in LocalWallets)
    BY <1>8, <2>1 DEF MinerStart, MiningPreconditions
  <2>3. Abs!StartMiner
    BY <1>8, <2>1, <2>2 DEF MinerStart, Abs!StartMiner
  <2>4. QED
    BY <2>3 DEF AbsNext, Abs!Next
<1>9. CASE SyncDone
  <2>1. Abs!AcceptTxs
    BY <1>9 DEF SyncDone, Abs!AcceptTxs
  <2>2. QED
    BY <2>1 DEF AbsNext, Abs!Next
<1>10. ASSUME NEW p \in Proc,
              \/ SmCheck(p) \/ SmEtherbase(p) \/ SmAccount(p)
              \/ \E a \in AddrOrZero : SetBHEerbase(p, a)
       PROVE UNCHANGED AbsVars
  BY <1>10 DEF SmCheck, SmEtherbase, SmAccount, SetBHEerbase
<1>11. CASE Reorg \/ Quiescent \/ UNCHANGED vars
  BY <1>11 DEF Reorg, Quiescent, vars
<1>12. QED
  BY <1>1, <1>2, <1>3, <1>4, <1>5, <1>6, <1>7, <1>8, <1>9, <1>10, <1>11
  DEF Next

\* The goroutines of StartMining, StopMining and SetBHEerbase and the
\* spawned miner.Start implement the abstract mining controller
\* (ImplementsAbstractMining), for every value of the constants.
THEOREM Refinement == Spec => ImplementsAbstractMining
<1>1. Spec => []IInv
  BY IInvInit, IInvStep, PTL DEF Spec
<1>2. QED
  BY <1>1, AbsInit, AbsStep, PTL DEF Spec, ImplementsAbstractMining, Abs!Spec, AbsNext, AbsVars

=============================================================================
