--------------------------- MODULE BHEMiningAbstract ---------------------------
(***************************************************************************)
(* What the mining control surface of src/bhe/backend.go promises the      *)
(* miner and the engine, with no goroutines, locks or pending starts: each *)
(* step changes one observable setting.  The miner is only ever started    *)
(* with a non-zero coinbase, after the pool has the miner's gas price,     *)
(* the sync layer accepts transactions and, under clique, a signer with a  *)
(* local wallet is bound; a threaded engine is never left at 0 threads     *)
(* ("all CPUs") by a mining call; the price, the accept flag and a bound   *)
(* signer are never taken back.                                            *)
(***************************************************************************)
EXTENDS Integers

CONSTANTS
    Addr, Zero, LocalWallets,
    Clique,       \* the engine is clique (it has Authorize, no SetThreads)
    Threaded,     \* the engine has SetThreads
    InitThreads, ThreadArgs, GasPrice, PoolPrice0

VARIABLES mining, coinbase, threads, signer, poolPrice, acceptTxs

absVars == <<mining, coinbase, threads, signer, poolPrice, acceptTxs>>

Init ==
    /\ mining = FALSE
    /\ coinbase = Zero
    /\ threads = InitThreads
    /\ signer = Zero
    /\ poolPrice = PoolPrice0
    /\ acceptTxs = 0

\* A mining call sets the engine's threads; 0 is never what it leaves.
SetThreads ==
    /\ Threaded
    /\ threads' \in (ThreadArgs \ {0}) \cup {-1}
    /\ UNCHANGED <<mining, coinbase, signer, poolPrice, acceptTxs>>

PropagatePrice ==
    /\ poolPrice' = GasPrice
    /\ UNCHANGED <<mining, coinbase, threads, signer, acceptTxs>>

Authorize ==
    /\ Clique
    /\ signer' \in LocalWallets
    /\ UNCHANGED <<mining, coinbase, threads, poolPrice, acceptTxs>>

AcceptTxs ==
    /\ acceptTxs' = 1
    /\ UNCHANGED <<mining, coinbase, threads, signer, poolPrice>>

StartMiner ==
    /\ acceptTxs = 1
    /\ poolPrice = GasPrice
    /\ Clique => signer \in LocalWallets
    /\ mining' = TRUE
    /\ coinbase' \in Addr
    /\ UNCHANGED <<threads, signer, poolPrice, acceptTxs>>

StopMiner ==
    /\ mining' = FALSE
    /\ UNCHANGED <<coinbase, threads, signer, poolPrice, acceptTxs>>

SetCoinbase ==
    /\ coinbase' \in Addr \cup {Zero}
    /\ UNCHANGED <<mining, threads, signer, poolPrice, acceptTxs>>

Next ==
    \/ SetThreads \/ PropagatePrice \/ Authorize \/ AcceptTxs
    \/ StartMiner \/ StopMiner \/ SetCoinbase

Spec == Init /\ [][Next]_absVars
=============================================================================
