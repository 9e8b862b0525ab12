----------------------------- MODULE BHELifecycle -----------------------------
(***************************************************************************)
(* Construction, start and stop of the full-node service                   *)
(* (src/bhe/backend.go: New, AddLesServer, Start, Stop) and the bloom      *)
(* retrieval workers Start launches.  Each subsystem the service owns is a *)
(* resource that is absent, created, running (owns goroutines) or stopped. *)
(* New is one goroutine; its steps follow the code's order and every call  *)
(* that can fail is a disjunct ending in "failed".  The bloom workers run  *)
(* beside Stop.                                                            *)
(***************************************************************************)
EXTENDS BHEConfig

CONSTANTS
    InputConfigs,  \* the configurations New may be given (records, see below)
    Workers        \* the bloom service goroutines (bloomServiceThreads)

\* A configuration: sync mode, miner gas price, the pruning flag and the
\* three trie/snapshot cache budgets, the skip-version-check flag, the
\* version marker found in the database, the outcome of SetupGenesisBlock
\* ("ok", "compat" for a ConfigCompatError, "error" for any other), and the
\* light-server settings with the p2p server's MaxPeers.
ConfigFields ==
    {"sync", "gasPrice", "noPruning", "clean", "dirty", "snapshot", "skip",
     "stored", "genesis", "lightServ", "lightPeers", "maxPeers"}

ASSUME LifecycleAssumption ==
    /\ InputConfigs # {}
    /\ \A c \in InputConfigs :
          /\ DOMAIN c = ConfigFields
          /\ c.sync \in SyncModes
          /\ (c.gasPrice = NilPrice \/ c.gasPrice \in Int)
          /\ c.noPruning \in BOOLEAN /\ c.skip \in BOOLEAN
          /\ {c.clean, c.dirty, c.snapshot, c.lightServ, c.lightPeers,
              c.maxPeers} \subseteq Nat
          /\ (c.stored = NoVersion \/ c.stored \in Nat)
          /\ c.genesis \in {"ok", "compat", "error"}

\* The owned subsystems: chain database, consensus engine, bloom indexer,
\* blockchain, transaction pool, protocol manager, miner, light server,
\* bloom request handlers and the event mux (the node's, stopped by Stop).
Res == {"db", "engine", "bloomIdx", "chain", "pool", "pm", "miner", "les",
        "bloomH", "mux"}

ResStates == {"none", "created", "running", "stopped"}

\* Which subsystem uses which: a user must be stopped before what it uses.
\* The handles each constructor is given: the chain gets the database and
\* the engine, the bloom indexer the database and the chain, the pool the
\* chain, the protocol manager the pool, engine, chain and database, the
\* miner the service itself (its engine, chain and pool, line 191), the
\* light server the chain and the pool.
Uses == {<<"chain", "db">>, <<"bloomIdx", "db">>, <<"pm", "db">>,
         <<"chain", "engine">>, <<"miner", "engine">>, <<"pm", "engine">>,
         <<"pool", "chain">>, <<"pm", "chain">>, <<"miner", "chain">>,
         <<"bloomIdx", "chain">>, <<"pm", "pool">>, <<"miner", "pool">>,
         <<"les", "chain">>, <<"les", "pool">>}

VARIABLES
    phase,     \* where New, Start or Stop is, or the service's resting state
    res,       \* [Res -> ResStates]
    input,     \* the configuration New was given
    cfg,       \* the configuration after New's sanitation
    dbVersion, \* the version marker in the database
    pmPeers,   \* the peer budget protocolManager.Start was given
    workers    \* each bloom worker: off, idle, serving or exited

vars == <<phase, res, input, cfg, dbVersion, pmPeers, workers>>

NewPhases == {"new_cfg", "new_db", "new_version", "new_chain", "new_pm",
              "new_disc"}
\* Mutant of StopPhases: the chain is stopped before the transaction pool.
StopPhasesChainFirst == <<"stop_pm", "stop_les", "stop_bloom", "stop_chain",
                          "stop_miner", "stop_pool", "stop_engine", "stop_db",
                          "stop_mux">>
\* The calls of Stop (lines 538-550), in order.
StopPhases == <<"stop_pm", "stop_les", "stop_bloom", "stop_pool",
                "stop_miner", "stop_chain", "stop_engine", "stop_db",
                "stop_mux">>
Phases == NewPhases \cup {"failed", "ready", "started", "start_failed",
                          "stopped"} \cup {StopPhases[i] : i \in 1..9}

Init ==
    /\ phase = "new_cfg"
    /\ res = [r \in Res |-> IF r = "mux" THEN "running" ELSE "none"]
    /\ input \in InputConfigs
    /\ cfg = input
    /\ dbVersion = input.stored
    /\ pmPeers = 0
    /\ workers = [w \in Workers |-> "off"]

Set(r, s) == [res EXCEPT ![r] = s]

Fail == phase' = "failed"

(***************************************************************************)
(* New(ctx, config), lines 87-207.                                         *)
(***************************************************************************)
\* Lines 89-108: refuse light or invalid sync, sanitize price and caches.
NewConfig ==
    /\ phase = "new_cfg"
    /\ IF SyncModeCheck(cfg.sync) # "ok"
         THEN Fail /\ UNCHANGED cfg
         ELSE /\ cfg' = RedistributeCaches(
                           [cfg EXCEPT !.gasPrice = SanitizeGasPrice(@)])
              /\ phase' = "new_db"
    /\ UNCHANGED <<res, input, dbVersion, pmPeers, workers>>

\* Lines 111-133: open the database, set up genesis (any error but a
\* ConfigCompatError aborts), then build the service struct, which creates
\* the engine and the bloom indexer (both start goroutines).
NewOpenDb ==
    /\ phase = "new_db"
    /\ \/ Fail /\ UNCHANGED res
       \/ /\ cfg.genesis = "error"
          /\ res' = Set("db", "running")
          /\ Fail
       \/ /\ cfg.genesis # "error"
          /\ res' = [res EXCEPT !["db"] = "running", !["engine"] = "running",
                                !["bloomIdx"] = "running"]
          /\ phase' = "new_version"
    /\ UNCHANGED <<input, cfg, dbVersion, pmPeers, workers>>

\* Lines 135-149: the database version check.
NewVersion ==
    /\ phase = "new_version"
    /\ LET v == VersionCheck(dbVersion, cfg.skip) IN
         IF v = "fatal"
           THEN Fail /\ UNCHANGED dbVersion
           ELSE /\ dbVersion' = IF v = "write" THEN BlockChainVersion
                                ELSE dbVersion
                /\ phase' = "new_chain"
    /\ UNCHANGED <<res, input, cfg, pmPeers, workers>>

\* Lines 150-180: NewBlockChain (may fail), the compat rewind, the bloom
\* indexer attached to the chain, NewTxPool.
NewChain ==
    /\ phase = "new_chain"
    /\ \/ Fail /\ UNCHANGED res
       \/ /\ res' = [res EXCEPT !["chain"] = "running", !["pool"] = "running"]
          /\ phase' = "new_pm"
    /\ UNCHANGED <<input, cfg, dbVersion, pmPeers, workers>>

\* Lines 182-199: NewProtocolManager (may fail), the miner (its update loop
\* runs from here on), the API backend.
NewProtocolManager ==
    /\ phase = "new_pm"
    /\ \/ Fail /\ UNCHANGED res
       \/ /\ res' = [res EXCEPT !["pm"] = "created", !["miner"] = "running"]
          /\ phase' = "new_disc"
    /\ UNCHANGED <<input, cfg, dbVersion, pmPeers, workers>>

\* Lines 201-206: setupDiscovery (may fail), then the service is returned.
NewDiscovery ==
    /\ phase = "new_disc"
    /\ Fail \/ phase' = "ready"
    /\ UNCHANGED <<res, input, cfg, dbVersion, pmPeers, workers>>

\* Lines 72-75: the node registers a light server before starting.
AddLesServer ==
    /\ phase = "ready"
    /\ res["les"] = "none"
    /\ res' = Set("les", "created")
    /\ UNCHANGED <<phase, input, cfg, dbVersion, pmPeers, workers>>

(***************************************************************************)
(* Start(srvr), lines 508-531: the bloom handlers are launched first, then *)
(* the peer budget is checked, then the protocol manager and light server  *)
(* are started.                                                            *)
(***************************************************************************)
Start ==
    /\ phase = "ready"
    /\ LET b == PeerBudget(cfg.lightServ, cfg.lightPeers, cfg.maxPeers) IN
         /\ workers' = [w \in Workers |-> "idle"]
         /\ IF b.ok
              THEN /\ res' = [res EXCEPT !["bloomH"] = "running",
                                         !["pm"] = "running",
                                         !["les"] = IF @ = "created"
                                                      THEN "running" ELSE @]
                   /\ pmPeers' = b.peers
                   /\ phase' = "started"
              ELSE /\ res' = Set("bloomH", "running")
                   /\ phase' = "start_failed"
                   /\ UNCHANGED pmPeers
    /\ UNCHANGED <<input, cfg, dbVersion>>

(***************************************************************************)
(* Stop(), lines 535-552: one step per call, in the code's order; a step   *)
(* on an absent subsystem (no light server) does nothing.                  *)
(***************************************************************************)
\* The subsystem each step of Stop stops.
StopTarget == [stop_pm |-> "pm", stop_les |-> "les", stop_bloom |-> "bloomH",
               stop_pool |-> "pool", stop_miner |-> "miner",
               stop_chain |-> "chain", stop_engine |-> "engine",
               stop_db |-> "db", stop_mux |-> "mux"]

StopBegin ==
    /\ phase \in {"ready", "started", "start_failed"}
    /\ phase' = StopPhases[1]
    /\ UNCHANGED <<res, input, cfg, dbVersion, pmPeers, workers>>

\* Mutant of StopStep: close(s.closeBloomHandler) dropped.
StopStepNoClose(i) ==
    /\ phase = StopPhases[i]
    /\ LET r == StopTarget[StopPhases[i]]
       IN res' = IF r = "bloomH" THEN [res EXCEPT !["bloomIdx"] = "stopped"]
                 ELSE [res EXCEPT ![r] = IF @ = "none" THEN @ ELSE "stopped"]
    /\ phase' = IF i = 9 THEN "stopped" ELSE StopPhases[i + 1]
    /\ UNCHANGED <<input, cfg, dbVersion, pmPeers, workers>>

\* Step i of Stop; stop_bloom closes both the bloom indexer and
\* closeBloomHandler, which the workers poll.
StopStep(i) ==
    /\ phase = StopPhases[i]
    /\ LET r == StopTarget[StopPhases[i]]
           s == [res EXCEPT ![r] = IF @ = "none" THEN @ ELSE "stopped"]
       IN res' = IF r = "bloomH" THEN [s EXCEPT !["bloomIdx"] = "stopped"]
                 ELSE s
    /\ phase' = IF i = 9 THEN "stopped" ELSE StopPhases[i + 1]
    /\ UNCHANGED <<input, cfg, dbVersion, pmPeers, workers>>

(***************************************************************************)
(* A bloom worker (startBloomHandlers, outside src/, modelled from spec    *)
(* 4.4): it selects between closeBloomHandler and a retrieval request; a   *)
(* request is served from the database and the worker polls again.        *)
(***************************************************************************)
BloomServe(w) ==
    /\ workers[w] = "idle"
    /\ workers' = [workers EXCEPT ![w] = "serving"]
    /\ UNCHANGED <<phase, res, input, cfg, dbVersion, pmPeers>>

BloomDone(w) ==
    /\ workers[w] = "serving"
    /\ workers' = [workers EXCEPT ![w] = "idle"]
    /\ UNCHANGED <<phase, res, input, cfg, dbVersion, pmPeers>>

BloomExit(w) ==
    /\ workers[w] = "idle"
    /\ res["bloomH"] = "stopped"
    /\ workers' = [workers EXCEPT ![w] = "exited"]
    /\ UNCHANGED <<phase, res, input, cfg, dbVersion, pmPeers>>

\* A construction that failed, or a service stopped with all workers gone,
\* does nothing more.
Terminated ==
    /\ phase \in {"failed", "stopped"}
    /\ \A w \in Workers : workers[w] \in {"off", "exited"}
    /\ UNCHANGED vars

Next ==
    \/ NewConfig \/ NewOpenDb \/ NewVersion \/ NewChain
    \/ NewProtocolManager \/ NewDiscovery
    \/ AddLesServer \/ Start \/ StopBegin
    \/ \E i \in 1..9 : StopStep(i)
    \/ \E w \in Workers : BloomServe(w) \/ BloomDone(w) \/ BloomExit(w)
    \/ Terminated

\* Stop, once begun, runs to its end; a worker that is serving finishes the
\* request; Go's select picks uniformly among ready cases, so a worker that
\* is idle again and again after the close signal eventually takes it.
Fairness ==
    /\ \A i \in 1..9 : WF_vars(StopStep(i))
    /\ \A w \in Workers : WF_vars(BloomDone(w)) /\ SF_vars(BloomExit(w))

Spec == Init /\ [][Next]_vars /\ Fairness

-----------------------------------------------------------------------------
TypeOK ==
    /\ phase \in Phases
    /\ res \in [Res -> ResStates]
    /\ input \in InputConfigs
    /\ DOMAIN cfg = ConfigFields
    /\ (dbVersion = NoVersion \/ dbVersion \in Nat)
    /\ pmPeers \in Nat
    /\ workers \in [Workers -> {"off", "idle", "serving", "exited"}]

\* Stop's order is correct: no subsystem is stopped while a subsystem that
\* uses it still runs (the protocol manager and the miner before the pool,
\* the pool before the chain, the chain before the engine and the
\* database).
StopOrder ==
    \A u \in Uses : res[u[2]] = "stopped" => res[u[1]] # "running"

\* How far Stop's order is from StopOrder: the one user that outlives what
\* it uses is the miner, over the pool, and only for the one call between
\* s.txPool.Stop() (line 545) and s.miner.Stop() (line 546); every other
\* subsystem is stopped after all of its users.
StopOrderExceptMinerPool ==
    \A u \in Uses : res[u[2]] = "stopped" /\ res[u[1]] = "running" =>
        u = <<"miner", "pool">> /\ phase = "stop_miner"

\* Spec 4.2 (Start): when serving light clients, the reservation must be
\* strictly below MaxPeers.  A protocol manager that runs was given the
\* server's MaxPeers less the reservation, and at least one slot for full
\* peers whenever light clients are served.
PeerBudgetHonoured ==
    res["pm"] = "running" =>
        IF cfg.lightServ > 0
          THEN pmPeers = cfg.maxPeers - cfg.lightPeers /\ pmPeers > 0
          ELSE pmPeers = cfg.maxPeers

\* A service New returned satisfies the spec's construction contract with
\* respect to the configuration it was given: a positive gas price, the
\* dirty cache handed over when pruning is off with at most 1 MB lost to
\* integer division, and the database marked with the code's schema version
\* unless the check was skipped.
ConstructedState ==
    phase \notin NewPhases \cup {"failed"} =>
        /\ cfg.gasPrice \in Nat \ {0}
        /\ cfg.noPruning => cfg.dirty = 0
        /\ CacheLimit(cfg) \in {CacheLimit(input) - 1, CacheLimit(input)}
        /\ ~input.skip => dbVersion = BlockChainVersion

\* Spec 4.2 step 4: the version marker is only ever raised, never lowered.
VersionNeverDowngrades ==
    [][dbVersion' # dbVersion =>
         (dbVersion = NoVersion \/ dbVersion' > dbVersion)]_dbVersion

\* Spec 4.4 and 5: the bloom workers Start launched run until the close
\* signal Stop sends and terminate at their next poll: once Stop has
\* returned, every worker eventually exits.
WorkersExitAfterStop ==
    phase = "stopped" ~> \A w \in Workers : workers[w] \in {"off", "exited"}

\* Spec 4.2: a construction step that fails aborts New and leaves nothing
\* unreachable running.  New returns a nil service on every error path, so
\* a subsystem it already started (the database, the engine, the bloom
\* indexer, the chain, the pool, the miner) can no longer be stopped.
FailedNewLeaks ==
    phase = "failed" => \A r \in Res \ {"mux"} : res[r] # "running"

\* Spec 8: a peer reservation not below MaxPeers makes Start fail and no
\* subsystem starts.  Start launches the bloom handlers before the check.
StartFailureStartsNothing ==
    phase = "start_failed" =>
        /\ res["bloomH"] = "none"
        /\ \A w \in Workers : workers[w] = "off"
=============================================================================
