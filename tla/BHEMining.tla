------------------------------ MODULE BHEMining ------------------------------
(***************************************************************************)
(* The mining control surface of the full-node service (src/bhe/backend.go):*)
(* StartMining, StopMining, SetBHEerbase and the mining-address resolution *)
(* BHEerbase(), called concurrently by API goroutines, together with the    *)
(* goroutine `go s.miner.Start(eb)` that StartMining spawns.                *)
(*                                                                         *)
(* Every access to state shared between goroutines is a step of its own:   *)
(* a critical section of s.lock (a single read or write of s.BHEerbase) is *)
(* one atomic step, so the RWMutex itself needs no state.  The miner, the  *)
(* engine, the pool and the protocol manager are collaborators outside     *)
(* src/; they appear only through the state this file reads and writes.   *)
(***************************************************************************)
EXTENDS Integers, FiniteSets, Functions

CONSTANTS
    Proc,          \* API goroutines calling the mining control surface
    Addr,          \* non-zero account addresses
    Zero,          \* common.Address{}, the unset address
    FirstAccount,  \* wallets[0].Accounts()[0].Address, or Zero if there is none
    LocalWallets,  \* addresses for which accountManager.Find returns a wallet
    Locals,        \* config.TxPool.Locals, the trusted local accounts
    EngineKind,    \* the engine CreateConsensusEngine returned (fixed for life)
    InitEtherbase, \* config.Miner.BHEerbase
    GasPrice,      \* s.gasPrice (never written by this file after New)
    PoolPrice0,    \* the pool's own initial minimum price
    ThreadArgs,    \* thread counts passed to StartMining
    MaxCalls       \* bound on the number of API calls in a behaviour

\* The engines of CreateConsensusEngine: clique, or one of the ethash modes.
EngineKinds == {"clique", "ethash", "fake", "test", "shared"}

AddrOrZero == Addr \cup {Zero}

ASSUME ConstAssumption ==
    /\ Proc # {}
    /\ Zero \notin Addr
    /\ FirstAccount \in AddrOrZero
    /\ LocalWallets \subseteq Addr
    /\ Locals \subseteq Addr
    /\ FirstAccount # Zero => FirstAccount \in LocalWallets
    /\ EngineKind \in EngineKinds
    /\ InitEtherbase \in AddrOrZero
    /\ GasPrice # PoolPrice0
    /\ ThreadArgs \subseteq Int
    /\ MaxCalls \in Nat

VARIABLES
    etherbase,   \* s.BHEerbase, guarded by s.lock
    threads,     \* the ethash engine's thread setting (SetThreads)
    signer,      \* the address clique.Authorize bound, Zero if none
    poolPrice,   \* the pool's minimum price (txPool.SetGasPrice)
    acceptTxs,   \* protocolManager.acceptTxs
    mining,      \* miner.Mining()
    coinbase,    \* the miner's coinbase (miner.SetBHEerbase / miner.Start)
    pendStart,   \* goroutines `go s.miner.Start(eb)` not yet run, per eb
    pc,          \* where each API goroutine is
    eb,          \* each goroutine's local eb (StartMining) or argument (SetBHEerbase)
    calls,       \* API calls begun so far
    lastCtl,     \* history: "start" at the last spawn, "stop" at the last miner.Stop
    reorg        \* the last shouldPreserve decision: the block's author, the result

vars == <<etherbase, threads, signer, poolPrice, acceptTxs, mining, coinbase,
          pendStart, pc, eb, calls, lastCtl, reorg>>

Labels == {"idle", "sm_check", "sm_price", "sm_eb", "sm_acct", "sm_auth",
           "sm_spawn", "st_stop", "se_miner"}

\* Clique has no SetThreads; every ethash mode has (the `threaded` assertion).
Threaded == EngineKind # "clique"

\* CreateConsensusEngine disables CPU mining in the production ethash mode.
InitThreads == IF EngineKind = "ethash" THEN -1 ELSE 0

Init ==
    /\ etherbase = InitEtherbase
    /\ threads = InitThreads
    /\ signer = Zero
    /\ poolPrice = PoolPrice0
    /\ acceptTxs = 0
    /\ mining = FALSE
    /\ coinbase = Zero
    /\ pendStart = [a \in AddrOrZero |-> 0]
    /\ pc = [p \in Proc |-> "idle"]
    /\ eb = [p \in Proc |-> Zero]
    /\ calls = 0
    /\ lastCtl = "none"
    /\ reorg = [author |-> Zero, preserved |-> FALSE]

Goto(p, l) == pc' = [pc EXCEPT ![p] = l]

(***************************************************************************)
(* StartMining(threads), lines 418-459.                                    *)
(***************************************************************************)
\* Mutant of StartMining: the thread count is passed on without 0 -> -1.
StartMiningNoZeroMap(p, th) ==
    /\ pc[p] = "idle"
    /\ calls < MaxCalls
    /\ calls' = calls + 1
    /\ threads' = IF Threaded THEN th ELSE threads
    /\ Goto(p, "sm_check")
    /\ UNCHANGED <<etherbase, signer, poolPrice, acceptTxs, mining, coinbase,
                   pendStart, eb, lastCtl, reorg>>

\* Entry: rescale the engine's threads when it is threaded (0 means -1).
StartMining(p, th) ==
    /\ pc[p] = "idle"
    /\ calls < MaxCalls
    /\ calls' = calls + 1
    /\ threads' = IF Threaded THEN (IF th = 0 THEN -1 ELSE th) ELSE threads
    /\ Goto(p, "sm_check")
    /\ UNCHANGED <<etherbase, signer, poolPrice, acceptTxs, mining, coinbase,
                   pendStart, eb, lastCtl, reorg>>

\* if !s.IsMining(): a running miner makes the call return nil here.
SmCheck(p) ==
    /\ pc[p] = "sm_check"
    /\ Goto(p, IF mining THEN "idle" ELSE "sm_price")
    /\ UNCHANGED <<etherbase, threads, signer, poolPrice, acceptTxs, mining,
                   coinbase, pendStart, eb, calls, lastCtl, reorg>>

\* price := s.gasPrice under RLock; s.txPool.SetGasPrice(price).
SmPrice(p) ==
    /\ pc[p] = "sm_price"
    /\ poolPrice' = GasPrice
    /\ Goto(p, "sm_eb")
    /\ UNCHANGED <<etherbase, threads, signer, acceptTxs, mining, coinbase,
                   pendStart, eb, calls, lastCtl, reorg>>

(***************************************************************************)
(* s.BHEerbase(), lines 329-350, as called from StartMining: the field is  *)
(* read under RLock; when it is unset the first account is looked up and   *)
(* written back under Lock in a second, separate critical section.         *)
(***************************************************************************)
SmEtherbase(p) ==
    /\ pc[p] = "sm_eb"
    /\ IF etherbase # Zero
         THEN /\ eb' = [eb EXCEPT ![p] = etherbase]
              /\ Goto(p, "sm_auth")
         ELSE /\ Goto(p, "sm_acct")
              /\ UNCHANGED eb
    /\ UNCHANGED <<etherbase, threads, signer, poolPrice, acceptTxs, mining,
                   coinbase, pendStart, calls, lastCtl, reorg>>

\* No account: "BHEerbase missing" is returned and mining does not start.
SmAccount(p) ==
    /\ pc[p] = "sm_acct"
    /\ IF FirstAccount # Zero
         THEN /\ etherbase' = FirstAccount
              /\ eb' = [eb EXCEPT ![p] = FirstAccount]
              /\ Goto(p, "sm_auth")
         ELSE /\ Goto(p, "idle")
              /\ UNCHANGED <<etherbase, eb>>
    /\ UNCHANGED <<threads, signer, poolPrice, acceptTxs, mining, coinbase,
                   pendStart, calls, lastCtl, reorg>>

\* Mutant of SmAuthorize: the `wallet == nil || err != nil` check dropped.
SmAuthorizeNoWalletCheck(p) ==
    /\ pc[p] = "sm_auth"
    /\ signer' = IF EngineKind = "clique" THEN eb[p] ELSE signer
    /\ Goto(p, "sm_spawn")
    /\ UNCHANGED <<etherbase, threads, poolPrice, acceptTxs, mining, coinbase,
                   pendStart, eb, calls, lastCtl, reorg>>

\* Under clique: Find the wallet of eb ("signer missing" if none), Authorize.
SmAuthorize(p) ==
    /\ pc[p] = "sm_auth"
    /\ IF EngineKind = "clique"
         THEN IF eb[p] \in LocalWallets
                THEN /\ signer' = eb[p]
                     /\ Goto(p, "sm_spawn")
                ELSE /\ Goto(p, "idle")
                     /\ UNCHANGED signer
         ELSE /\ Goto(p, "sm_spawn")
              /\ UNCHANGED signer
    /\ UNCHANGED <<etherbase, threads, poolPrice, acceptTxs, mining, coinbase,
                   pendStart, eb, calls, lastCtl, reorg>>

\* Mutant of SmSpawn: the miner is started without the acceptTxs store.
SmSpawnNoAccept(p) ==
    /\ pc[p] = "sm_spawn"
    /\ pendStart' = [pendStart EXCEPT ![eb[p]] = @ + 1]
    /\ lastCtl' = "start"
    /\ Goto(p, "idle")
    /\ UNCHANGED <<etherbase, threads, signer, poolPrice, acceptTxs, mining,
                   coinbase, eb, calls, reorg>>

\* atomic.StoreUint32(&acceptTxs, 1); go s.miner.Start(eb); return nil.
SmSpawn(p) ==
    /\ pc[p] = "sm_spawn"
    /\ acceptTxs' = 1
    /\ pendStart' = [pendStart EXCEPT ![eb[p]] = @ + 1]
    /\ lastCtl' = "start"
    /\ Goto(p, "idle")
    /\ UNCHANGED <<etherbase, threads, signer, poolPrice, mining, coinbase,
                   eb, calls, reorg>>

(***************************************************************************)
(* StopMining(), lines 463-473: SetThreads(-1), then miner.Stop().         *)
(***************************************************************************)
StopMining(p) ==
    /\ pc[p] = "idle"
    /\ calls < MaxCalls
    /\ calls' = calls + 1
    /\ threads' = IF Threaded THEN -1 ELSE threads
    /\ Goto(p, "st_stop")
    /\ UNCHANGED <<etherbase, signer, poolPrice, acceptTxs, mining, coinbase,
                   pendStart, eb, lastCtl, reorg>>

StStop(p) ==
    /\ pc[p] = "st_stop"
    /\ mining' = FALSE
    /\ lastCtl' = "stop"
    /\ Goto(p, "idle")
    /\ UNCHANGED <<etherbase, threads, signer, poolPrice, acceptTxs, coinbase,
                   pendStart, eb, calls, reorg>>

(***************************************************************************)
(* SetBHEerbase(a), lines 407-413: write the field under Lock, then pass   *)
(* the address to the miner outside the lock.                              *)
(***************************************************************************)
SetBHEerbase(p, a) ==
    /\ pc[p] = "idle"
    /\ calls < MaxCalls
    /\ calls' = calls + 1
    /\ etherbase' = a
    /\ eb' = [eb EXCEPT ![p] = a]
    /\ Goto(p, "se_miner")
    /\ UNCHANGED <<threads, signer, poolPrice, acceptTxs, mining, coinbase,
                   pendStart, lastCtl, reorg>>

SeMiner(p) ==
    /\ pc[p] = "se_miner"
    /\ coinbase' = eb[p]
    /\ Goto(p, "idle")
    /\ UNCHANGED <<etherbase, threads, signer, poolPrice, acceptTxs, mining,
                   pendStart, eb, calls, lastCtl, reorg>>

(***************************************************************************)
(* The spawned goroutine runs miner.Start(eb): the miner takes eb as its   *)
(* coinbase and starts.                                                    *)
(***************************************************************************)
MinerStart(a) ==
    /\ pendStart[a] > 0
    /\ pendStart' = [pendStart EXCEPT ![a] = @ - 1]
    /\ coinbase' = a
    /\ mining' = TRUE
    /\ UNCHANGED <<etherbase, threads, signer, poolPrice, acceptTxs, pc, eb,
                   calls, lastCtl, reorg>>

(***************************************************************************)
(* The chain's reorg goroutine calls shouldPreserve(block), lines 357-404: *)
(* never under clique; otherwise isLocalBlock, where an Author error means *)
(* "not local" and the author is compared with s.BHEerbase as read under   *)
(* RLock (not with the resolved address) and with config.TxPool.Locals.   *)
(***************************************************************************)
IsLocalBlock(author, authorOk) ==
    authorOk /\ (author = etherbase \/ author \in Locals)

ShouldPreserve(author, authorOk) ==
    EngineKind # "clique" /\ IsLocalBlock(author, authorOk)

Reorg ==
    \E author \in AddrOrZero, authorOk \in BOOLEAN :
        /\ reorg' = [author |-> author,
                     preserved |-> ShouldPreserve(author, authorOk)]
        /\ UNCHANGED <<etherbase, threads, signer, poolPrice, acceptTxs, mining,
                       coinbase, pendStart, pc, eb, calls, lastCtl>>

\* The protocol manager sets acceptTxs once the initial sync is done.
SyncDone ==
    /\ acceptTxs = 0
    /\ acceptTxs' = 1
    /\ UNCHANGED <<etherbase, threads, signer, poolPrice, mining, coinbase,
                   pendStart, pc, eb, calls, lastCtl, reorg>>

\* The call bound is reached and every goroutine has finished: the model
\* stops here (the bound, not the code, ends the behaviour).
Quiescent ==
    /\ calls = MaxCalls
    /\ \A p \in Proc : pc[p] = "idle"
    /\ \A a \in AddrOrZero : pendStart[a] = 0
    /\ UNCHANGED vars

Next ==
    \/ \E p \in Proc :
          \/ \E th \in ThreadArgs : StartMining(p, th)
          \/ SmCheck(p) \/ SmPrice(p) \/ SmEtherbase(p) \/ SmAccount(p)
          \/ SmAuthorize(p) \/ SmSpawn(p)
          \/ StopMining(p) \/ StStop(p)
          \/ \E a \in AddrOrZero : SetBHEerbase(p, a)
          \/ SeMiner(p)
    \/ \E a \in AddrOrZero : MinerStart(a)
    \/ SyncDone
    \/ Reorg
    \/ Quiescent

Spec == Init /\ [][Next]_vars

-----------------------------------------------------------------------------
(***************************************************************************)
(* Properties.                                                             *)
(***************************************************************************)

TypeOK ==
    /\ etherbase \in AddrOrZero
    /\ threads \in ThreadArgs \cup {-1, 0}
    /\ signer \in AddrOrZero
    /\ poolPrice \in {PoolPrice0, GasPrice}
    /\ acceptTxs \in {0, 1}
    /\ mining \in BOOLEAN
    /\ coinbase \in AddrOrZero
    /\ pendStart \in [AddrOrZero -> Nat]
    /\ pc \in [Proc -> Labels]
    /\ eb \in [Proc -> AddrOrZero]
    /\ calls \in 0..MaxCalls
    /\ lastCtl \in {"none", "start", "stop"}
    /\ reorg \in [author : AddrOrZero, preserved : BOOLEAN]

\* A miner that runs, or is about to run, was started by a StartMining that
\* got through every step before the spawn: the pool has the miner's price,
\* the sync layer accepts transactions, no miner.Start was ever spawned for
\* the unset address, and under clique a signer with a local wallet is
\* bound.  Each of these is written by an earlier step of a StartMining
\* goroutine that other goroutines interleave with.
MiningPreconditions ==
    /\ pendStart[Zero] = 0
    /\ (mining \/ \E a \in Addr : pendStart[a] > 0) =>
          /\ acceptTxs = 1
          /\ poolPrice = GasPrice
          /\ EngineKind = "clique" => signer \in LocalWallets

\* Spec 4.3 and 8: calling StartMining twice without an intervening
\* StopMining never launches a second mining loop.  Stated on the
\* goroutines StartMining spawns: at most one miner.Start is in flight, and
\* none while the miner already runs.
SingleLaunch ==
    SumFunction(pendStart) + (IF mining THEN 1 ELSE 0) <= 1

\* Spec 4.3: StopMining stops the mining loop.  Once the last mining
\* control step is a miner.Stop, the miner is not running: no miner.Start
\* requested by an earlier StartMining takes effect after it.
StopIsFinal ==
    lastCtl = "stop" => ~mining

\* Spec 3: the resolution order is explicit value, then first account.  The
\* account lookup of BHEerbase() only fills an unset address: a non-zero
\* s.BHEerbase is changed by SetBHEerbase and by no other step.
NoSilentEtherbaseOverwrite ==
    [][(etherbase # Zero /\ etherbase' # etherbase) =>
         \E p \in Proc : pc[p] = "idle" /\ pc'[p] = "se_miner"]_vars

\* Spec 2 and 3: the lock-guarded field is the sole source of truth for the
\* mining address, which has at most one active value, and the lock
\* totally orders the writes.  Concurrent SetBHEerbase calls may reach the
\* miner in any order, but once the last call under way has returned, the
\* miner credits the address the field holds.
CoinbaseFollowsEtherbase ==
    [][/\ \E p \in Proc : pc[p] = "se_miner" /\ pc'[p] = "idle"
       /\ \A q \in Proc : pc'[q] # "se_miner"
       => coinbase' = etherbase']_vars

\* Spec 4.3: isLocalBlock is true when the author equals the resolved mining
\* address or is a trusted local.  A resolved address is never the unset
\* address, so a block is preserved only for an author that is a real
\* account, whatever s.BHEerbase holds when the reorg runs.
PreserveOnlyResolved ==
    reorg.preserved => reorg.author \in Addr

\* The abstract mining controller, seen through the same variables.
Abs == INSTANCE BHEMiningAbstract
           WITH Clique <- (EngineKind = "clique"), Threaded <- Threaded,
                InitThreads <- InitThreads

\* StartMining, StopMining, SetBHEerbase and the spawned miner.Start, with
\* all their interleavings, implement the abstract controller: every step
\* either changes one setting as BHEMiningAbstract allows or none.
ImplementsAbstractMining == Abs!Spec
=============================================================================
