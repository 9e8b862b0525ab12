-------------------------- MODULE BHELifecycle_proofs --------------------------
(***************************************************************************)
(* Proofs about construction, start and stop, for every set of input       *)
(* configurations and every set of bloom workers that satisfy the          *)
(* modules' assumptions.                                                   *)
(***************************************************************************)
EXTENDS BHELifecycle, BHEConfig_proofs, TLAPS

USE ConfigAssumption, LifecycleAssumption
    DEF ConfigAssumption, LifecycleAssumption

(***************************************************************************)
(* StopOrderExceptMinerPool is not inductive: it speaks of pairs of        *)
(* subsystems and not of where Stop is.  Rank gives the Stop call that     *)
(* stops each subsystem (the bloom indexer is closed by the same call as   *)
(* the handlers) and Cur the number of the next call: 0 before Stop, 10    *)
(* once it returned.  The strengthening says that exactly the subsystems   *)
(* ranked before Cur may be stopped and none of them runs.  Every user but *)
(* the miner is ranked before what it uses, so a stopped subsystem has no  *)
(* running user except the pool, whose user the miner has rank 5: it runs  *)
(* over the stopped pool exactly while Cur is 5.                           *)
(***************************************************************************)
Rank == [pm |-> 1, les |-> 2, bloomH |-> 3, bloomIdx |-> 3, pool |-> 4,
         miner |-> 5, chain |-> 6, engine |-> 7, db |-> 8, mux |-> 9]

Cur ==
    CASE phase = "stop_pm" -> 1    [] phase = "stop_les" -> 2
      [] phase = "stop_bloom" -> 3 [] phase = "stop_pool" -> 4
      [] phase = "stop_miner" -> 5 [] phase = "stop_chain" -> 6
      [] phase = "stop_engine" -> 7 [] phase = "stop_db" -> 8
      [] phase = "stop_mux" -> 9   [] phase = "stopped" -> 10
      [] OTHER -> 0

\* The peer settings New passes through unchanged.
PeerFields ==
    /\ cfg.lightServ = input.lightServ
    /\ cfg.lightPeers = input.lightPeers
    /\ cfg.maxPeers = input.maxPeers

IInv ==
    /\ TypeOK
    /\ PeerFields
    /\ \A r \in Res : res[r] = "stopped" => Rank[r] < Cur
    /\ \A r \in Res : Rank[r] < Cur => res[r] # "running"

\* Every user but the miner of the pool is stopped by an earlier call than
\* what it uses; the miner is stopped by the call after the pool's.
LEMMA UsesRanked ==
    /\ \A u \in Uses \ {<<"miner", "pool">>} : Rank[u[1]] < Rank[u[2]]
    /\ <<"miner", "pool">> \in Uses
    /\ Rank["pool"] = 4 /\ Rank["miner"] = 5
  BY DEF Uses, Rank

\* Cur is 5 exactly between the pool's and the miner's stop calls.
LEMMA CurFive == Cur = 5 => phase = "stop_miner"
  BY DEF Cur

\* Where Stop is, and which subsystem call i stops.
LEMMA StopCalls ==
    \A i \in 1..9 :
        /\ StopPhases[i] \in Phases
        /\ StopTarget[StopPhases[i]] \in Res \ {"bloomIdx"}
        /\ Rank[StopTarget[StopPhases[i]]] = i
        /\ (phase = StopPhases[i]) => Cur = i
  BY DEF StopPhases, StopTarget, Rank, Cur, Res, Phases, NewPhases

\* Two subsystems share a rank only when they are the bloom handlers and
\* the bloom indexer.
LEMMA RankUnique ==
    \A s, t \in Res : Rank[s] = Rank[t] =>
        \/ s = t
        \/ s = "bloomIdx" /\ t = "bloomH"
        \/ s = "bloomH" /\ t = "bloomIdx"
  BY DEF Rank, Res

\* Sanitation keeps the configuration's fields and its peer settings.
LEMMA SanitizeKeepsFields ==
    ASSUME NEW c, DOMAIN c = ConfigFields
    PROVE  LET d == RedistributeCaches([c EXCEPT !.gasPrice =
                                            SanitizeGasPrice(@)])
           IN  /\ DOMAIN d = ConfigFields
               /\ d.lightServ = c.lightServ /\ d.lightPeers = c.lightPeers
               /\ d.maxPeers = c.maxPeers
  BY DEF RedistributeCaches, ConfigFields

\* Before Stop nothing is stopped, since every rank is at least 1.
LEMMA NothingStoppedBefore ==
    ASSUME IInv, Cur = 0 PROVE \A r \in Res : res[r] # "stopped"
  BY DEF IInv, Rank, Res

\* A step that leaves Stop unbegun and stops nothing keeps IInv, provided
\* it keeps the types and the peer settings.
LEMMA QuietStep ==
    ASSUME TypeOK', PeerFields', Cur' = 0,
           \A r \in Res : res'[r] # "stopped"
    PROVE  IInv'
  BY DEF IInv, Rank, Res

LEMMA IInvInit == Init => IInv
<1> SUFFICES ASSUME Init PROVE IInv
  OBVIOUS
<1>1. Cur = 0
  BY DEF Init, Cur
<1>2. TypeOK /\ PeerFields
  BY DEF Init, TypeOK, PeerFields, Phases, NewPhases, ResStates
<1>3. QED
  BY <1>1, <1>2 DEF Init, IInv, Rank, Res

\* One step per action: the steps of New and Start run before Stop and
\* only create or run subsystems; Stop's call i stops the subsystems of
\* rank i; the workers touch no subsystem.
LEMMA IInvStep == IInv /\ [Next]_vars => IInv'
<1> SUFFICES ASSUME IInv, [Next]_vars PROVE IInv'
  OBVIOUS
<1>0. TypeOK /\ PeerFields
  BY DEF IInv
<1> USE <1>0
<1>1. CASE NewConfig
  <2>1. DOMAIN cfg' = ConfigFields /\ PeerFields'
    BY <1>1, SanitizeKeepsFields DEF NewConfig, TypeOK, PeerFields
  <2>2. phase' \in NewPhases \cup {"failed"} /\ UNCHANGED res
    BY <1>1 DEF NewConfig, Fail, NewPhases
  <2>3. Cur = 0 /\ Cur' = 0
    BY <1>1, <2>2 DEF NewConfig, Cur, NewPhases
  <2>4. TypeOK'
    BY <1>1, <2>1, <2>2 DEF NewConfig, TypeOK, Phases
  <2>5. QED
    BY <2>2, <2>3, <2>4, <2>1, NothingStoppedBefore, QuietStep
<1>2. CASE NewOpenDb
  <2>1. Cur = 0 /\ Cur' = 0
    BY <1>2 DEF NewOpenDb, Fail, Cur
  <2>2. \A r \in Res : res[r] # "stopped"
    BY <2>1, NothingStoppedBefore
  <2>3. res' \in [Res -> ResStates] /\ \A r \in Res : res'[r] # "stopped"
    BY <1>2, <2>2 DEF NewOpenDb, Set, TypeOK, ResStates, Res
  <2>4. TypeOK' /\ PeerFields'
    BY <1>2, <2>3 DEF NewOpenDb, Fail, TypeOK, PeerFields, Phases, NewPhases
  <2>5. QED
    BY <2>1, <2>3, <2>4, QuietStep
<1>3. CASE NewVersion
  <2>1. Cur = 0 /\ Cur' = 0
    BY <1>3 DEF NewVersion, Fail, Cur
  <2>2. TypeOK' /\ PeerFields'
    BY <1>3 DEF NewVersion, Fail, TypeOK, PeerFields, Phases, NewPhases
  <2>3. QED
    BY <1>3, <2>1, <2>2, NothingStoppedBefore, QuietStep DEF NewVersion
<1>4. CASE NewChain
  <2>1. Cur = 0 /\ Cur' = 0
    BY <1>4 DEF NewChain, Fail, Cur
  <2>2. \A r \in Res : res[r] # "stopped"
    BY <2>1, NothingStoppedBefore
  <2>3. res' \in [Res -> ResStates] /\ \A r \in Res : res'[r] # "stopped"
    BY <1>4, <2>2 DEF NewChain, TypeOK, ResStates, Res
  <2>4. TypeOK' /\ PeerFields'
    BY <1>4, <2>3 DEF NewChain, Fail, TypeOK, PeerFields, Phases, NewPhases
  <2>5. QED
    BY <2>1, <2>3, <2>4, QuietStep
<1>5. CASE NewProtocolManager
  <2>1. Cur = 0 /\ Cur' = 0
    BY <1>5 DEF NewProtocolManager, Fail, Cur
  <2>2. \A r \in Res : res[r] # "stopped"
    BY <2>1, NothingStoppedBefore
  <2>3. res' \in [Res -> ResStates] /\ \A r \in Res : res'[r] # "stopped"
    BY <1>5, <2>2 DEF NewProtocolManager, TypeOK, ResStates, Res
  <2>4. TypeOK' /\ PeerFields'
    BY <1>5, <2>3 DEF NewProtocolManager, Fail, TypeOK, PeerFields, Phases,
                      NewPhases
  <2>5. QED
    BY <2>1, <2>3, <2>4, QuietStep
<1>6. CASE NewDiscovery
  <2>1. Cur = 0 /\ Cur' = 0
    BY <1>6 DEF NewDiscovery, Fail, Cur
  <2>2. TypeOK' /\ PeerFields'
    BY <1>6 DEF NewDiscovery, Fail, TypeOK, PeerFields, Phases, NewPhases
  <2>3. QED
    BY <1>6, <2>1, <2>2, NothingStoppedBefore, QuietStep DEF NewDiscovery
<1>7. CASE AddLesServer
  <2>1. Cur = 0 /\ Cur' = 0
    BY <1>7 DEF AddLesServer, Cur
  <2>2. \A r \in Res : res[r] # "stopped"
    BY <2>1, NothingStoppedBefore
  <2>3. res' \in [Res -> ResStates] /\ \A r \in Res : res'[r] # "stopped"
    BY <1>7, <2>2 DEF AddLesServer, Set, TypeOK, ResStates, Res
  <2>4. TypeOK' /\ PeerFields'
    BY <1>7, <2>3 DEF AddLesServer, TypeOK, PeerFields
  <2>5. QED
    BY <2>1, <2>3, <2>4, QuietStep
<1>8. CASE Start
  <2>1. Cur = 0 /\ Cur' = 0
    BY <1>8 DEF Start, Cur
  <2>2. \A r \in Res : res[r] # "stopped"
    BY <2>1, NothingStoppedBefore
  <2>3. res' \in [Res -> ResStates] /\ \A r \in Res : res'[r] # "stopped"
    BY <1>8, <2>2 DEF Start, Set, TypeOK, ResStates, Res
  <2>4. pmPeers' \in Nat
    BY <1>8 DEF Start, PeerBudget, TypeOK, PeerFields
  <2>5. TypeOK' /\ PeerFields'
    BY <1>8, <2>3, <2>4 DEF Start, TypeOK, PeerFields, Phases
  <2>6. QED
    BY <2>1, <2>3, <2>5, QuietStep
<1>9. CASE StopBegin
  <2>1. Cur = 0 /\ Cur' = 1
    BY <1>9 DEF StopBegin, Cur, StopPhases
  <2>2. \A r \in Res : res[r] # "stopped"
    BY <2>1, NothingStoppedBefore
  <2>3. TypeOK' /\ PeerFields'
    BY <1>9 DEF StopBegin, TypeOK, PeerFields, StopPhases, Phases
  <2>4. QED
    BY <1>9, <2>1, <2>2, <2>3 DEF StopBegin, IInv, Rank, Res
<1>10. ASSUME NEW i \in 1..9, StopStep(i) PROVE IInv'
  <2> DEFINE r == StopTarget[StopPhases[i]]
  <2>1. Cur = i /\ r \in Res /\ Rank[r] = i
    BY <1>10, StopCalls DEF StopStep
  <2>2. Cur' = i + 1 /\ phase' \in Phases
    BY <1>10 DEF StopStep, StopPhases, Cur, Phases
  <2>b. r # "bloomIdx" /\ (r = "bloomH" => i = 3)
    BY <1>10, <2>1, StopCalls DEF Rank
  <2>3. \A s \in Res : Rank[s] = i => s = r \/ (r = "bloomH" /\ s = "bloomIdx")
    BY <2>1, <2>b, RankUnique DEF Res
  <2>a. LET t == [res EXCEPT ![r] = IF res[r] = "none" THEN res[r]
                                     ELSE "stopped"]
        IN  res' = IF r = "bloomH" THEN [t EXCEPT !["bloomIdx"] = "stopped"]
                   ELSE t
    BY <1>10 DEF StopStep
  <2>4. \A s \in Res : Rank[s] # i => res'[s] = res[s]
    BY <2>a, <2>b, <2>1 DEF TypeOK, Rank
  <2>5. \A s \in Res : Rank[s] = i => res'[s] \in {"stopped", "none"}
    BY <2>a, <2>b, <2>1, <2>3 DEF TypeOK, Res
  <2>6. res' \in [Res -> ResStates]
    BY <1>10, <2>1 DEF StopStep, TypeOK, ResStates, Res
  <2>7. TypeOK' /\ PeerFields'
    BY <1>10, <2>2, <2>6 DEF StopStep, TypeOK, PeerFields
  <2>8. \A s \in Res : Rank[s] \in Nat
    BY DEF Rank, Res
  <2>9. QED
    BY <2>1, <2>2, <2>4, <2>5, <2>7, <2>8 DEF IInv
<1>11. ASSUME NEW w \in Workers, BloomServe(w) \/ BloomDone(w) \/ BloomExit(w)
       PROVE IInv'
  BY <1>11 DEF BloomServe, BloomDone, BloomExit, Cur, IInv, TypeOK, PeerFields
<1>12. CASE Terminated \/ UNCHANGED vars
  BY <1>12 DEF Terminated, vars, Cur, IInv, TypeOK, PeerFields
<1>13. QED
  BY <1>1, <1>2, <1>3, <1>4, <1>5, <1>6, <1>7, <1>8, <1>9, <1>10, <1>11,
     <1>12 DEF Next

(***************************************************************************)
(* ConstructedState is not inductive either: it speaks of the finished     *)
(* service, and the steps of New that reach it read the configuration and *)
(* the version marker that earlier steps wrote.  CInv says what New has    *)
(* done at each phase: before line 95 cfg is the input, from then on it is *)
(* the input as NewConfig sanitized it; the version marker is the stored  *)
(* one until the check of lines 135-149 and, once the check has passed    *)
(* and was not skipped, the code's version.                                *)
(***************************************************************************)
\* The configuration NewConfig leaves (lines 95-107).
Sanitized(c) == RedistributeCaches([c EXCEPT !.gasPrice = SanitizeGasPrice(@)])

\* The phases after a version check that passed.
AfterVersion == Phases \ {"new_cfg", "new_db", "new_version", "failed"}

CInv ==
    /\ phase = "new_cfg" => cfg = input
    /\ phase \notin {"new_cfg", "failed"} => cfg = Sanitized(input)
    /\ phase \in {"new_cfg", "new_db", "new_version"} => dbVersion = input.stored
    /\ phase \in AfterVersion /\ ~input.skip => dbVersion = BlockChainVersion

\* NewConfig's sanitation of a configuration New may be given: a positive
\* price, no dirty cache left with pruning off, at most one unit of the
\* cache allowance lost, and the skip flag untouched.
LEMMA SanitizedCorrect ==
    ASSUME NEW c \in InputConfigs
    PROVE  /\ DOMAIN Sanitized(c) = ConfigFields
           /\ Sanitized(c).gasPrice \in Nat \ {0}
           /\ Sanitized(c).noPruning => Sanitized(c).dirty = 0
           /\ CacheLimit(Sanitized(c)) \in {CacheLimit(c) - 1, CacheLimit(c)}
           /\ Sanitized(c).skip = c.skip
<1> DEFINE e == [c EXCEPT !.gasPrice = SanitizeGasPrice(@)]
<1>1. /\ DOMAIN e = ConfigFields
      /\ e.gasPrice = SanitizeGasPrice(c.gasPrice)
      /\ \A f \in ConfigFields \ {"gasPrice"} : e[f] = c[f]
  BY DEF ConfigFields
<1>2. /\ e.noPruning \in BOOLEAN
      /\ e.clean \in Nat /\ e.dirty \in Nat /\ e.snapshot \in Nat
      /\ CacheLimit(e) = CacheLimit(c)
  BY <1>1 DEF ConfigFields, CacheLimit
<1>3. SanitizeGasPrice(c.gasPrice) \in Nat \ {0}
  BY SanitizedPricePositive
<1>4. Sanitized(c) = RedistributeCaches(e)
  BY DEF Sanitized
<1>5. /\ DOMAIN RedistributeCaches(e) = ConfigFields
      /\ RedistributeCaches(e).noPruning => RedistributeCaches(e).dirty = 0
      /\ CacheLimit(RedistributeCaches(e)) \in {CacheLimit(e) - 1, CacheLimit(e)}
      /\ \A f \in ConfigFields \ {"clean", "dirty", "snapshot"} :
            RedistributeCaches(e)[f] = e[f]
  BY <1>1, <1>2, RedistributeCachesCorrect DEF ConfigFields
<1>6. QED
  BY <1>1, <1>2, <1>3, <1>4, <1>5 DEF ConfigFields

LEMMA CInvInit == Init => CInv
  BY DEF Init, CInv, AfterVersion

\* One step per action of New; Start, Stop and the workers leave the
\* configuration and the version marker alone and move only between
\* phases after the check.
LEMMA CInvStep == IInv /\ CInv /\ [Next]_vars => CInv'
<1> SUFFICES ASSUME IInv, CInv, [Next]_vars PROVE CInv'
  OBVIOUS
<1>0. TypeOK
  BY DEF IInv
<1> USE <1>0
<1>1. CASE NewConfig
  BY <1>1 DEF NewConfig, Fail, CInv, Sanitized, AfterVersion, Phases, NewPhases
<1>2. CASE NewOpenDb
  BY <1>2 DEF NewOpenDb, Fail, CInv, AfterVersion
<1>3. CASE NewVersion
  <2>1. cfg = Sanitized(input) /\ dbVersion = input.stored
    BY <1>3 DEF NewVersion, CInv
  <2>2. cfg.skip = input.skip
    BY <2>1, SanitizedCorrect DEF TypeOK
  <2>3. CASE VersionCheck(dbVersion, cfg.skip) = "fatal"
    BY <1>3, <2>3 DEF NewVersion, Fail, CInv, AfterVersion
  <2>4. CASE VersionCheck(dbVersion, cfg.skip) # "fatal"
    <3>1. phase' = "new_chain" /\ UNCHANGED <<cfg, input>>
      BY <1>3, <2>4 DEF NewVersion
    <3>2. ~input.skip =>
            dbVersion' = BlockChainVersion
      <4> SUFFICES ASSUME ~input.skip PROVE dbVersion' = BlockChainVersion
        OBVIOUS
      <4>0. input.skip = FALSE
        BY DEF TypeOK
      <4>1. VersionCheck(dbVersion, FALSE) # "fatal"
        BY <2>2, <2>4, <4>0
      <4>2. dbVersion' = IF VersionCheck(dbVersion, FALSE) = "write"
                           THEN BlockChainVersion ELSE dbVersion
        BY <1>3, <2>2, <2>4, <4>0 DEF NewVersion
      <4>3. QED
        BY <4>1, <4>2, VersionCheckPassed DEF TypeOK
    <3>3. QED
      BY <2>1, <3>1, <3>2 DEF CInv, AfterVersion, Phases, NewPhases, StopPhases
  <2>5. QED
    BY <2>3, <2>4
<1>4. CASE NewChain
  BY <1>4 DEF NewChain, Fail, CInv, AfterVersion, Phases, NewPhases, StopPhases
<1>5. CASE NewProtocolManager
  BY <1>5 DEF NewProtocolManager, Fail, CInv, AfterVersion, Phases, NewPhases,
              StopPhases
<1>6. CASE NewDiscovery
  BY <1>6 DEF NewDiscovery, Fail, CInv, AfterVersion, Phases, NewPhases,
              StopPhases
<1>7. CASE AddLesServer
  BY <1>7 DEF AddLesServer, CInv
<1>8. CASE Start
  BY <1>8 DEF Start, CInv, AfterVersion, Phases, NewPhases, StopPhases
<1>9. CASE StopBegin
  BY <1>9 DEF StopBegin, CInv, AfterVersion, Phases, NewPhases, StopPhases
<1>10. ASSUME NEW i \in 1..9, StopStep(i) PROVE CInv'
  <2>1. phase \in AfterVersion /\ phase' \in AfterVersion
    BY <1>10 DEF StopStep, AfterVersion, Phases, NewPhases, StopPhases
  <2>2. QED
    BY <1>10, <2>1 DEF StopStep, CInv, AfterVersion, Phases, NewPhases
<1>11. ASSUME NEW w \in Workers, BloomServe(w) \/ BloomDone(w) \/ BloomExit(w)
       PROVE CInv'
  BY <1>11 DEF BloomServe, BloomDone, BloomExit, CInv
<1>12. CASE Terminated \/ UNCHANGED vars
  BY <1>12 DEF Terminated, vars, CInv
<1>13. QED
  BY <1>1, <1>2, <1>3, <1>4, <1>5, <1>6, <1>7, <1>8, <1>9, <1>10, <1>11,
     <1>12 DEF Next

\* Type correctness of the service's lifecycle state.
THEOREM LifecycleTypeCorrect == Spec => []TypeOK
<1>1. IInv => TypeOK
  BY DEF IInv
<1>2. QED
  BY <1>1, IInvInit, IInvStep, PTL DEF Spec

\* The strengthening implies StopOrderExceptMinerPool: a stopped subsystem
\* is ranked below Cur and a running one is not, so a running user of a
\* stopped subsystem is ranked after it, which only the miner over the
\* pool is, and then Cur lies between their ranks.
LEMMA StopOrderOfIInv == IInv => StopOrderExceptMinerPool
<1> SUFFICES ASSUME IInv, NEW u \in Uses, res[u[2]] = "stopped",
                    res[u[1]] = "running"
             PROVE  u = <<"miner", "pool">> /\ phase = "stop_miner"
  BY DEF StopOrderExceptMinerPool
<1>1. u[1] \in Res /\ u[2] \in Res
  BY DEF Uses, Res
<1>2. Rank[u[2]] < Cur /\ ~(Rank[u[1]] < Cur)
  BY <1>1 DEF IInv
<1>3. Rank[u[1]] \in Nat /\ Rank[u[2]] \in Nat /\ Cur \in Nat
  BY <1>1 DEF Rank, Res, Cur
<1>4. u = <<"miner", "pool">>
  <2>1. ~(Rank[u[1]] < Rank[u[2]])
    BY <1>2, <1>3
  <2>2. QED
    BY <2>1, UsesRanked
<1>5. Cur = 5
  BY <1>2, <1>3, <1>4, UsesRanked
<1>6. QED
  BY <1>4, <1>5, CurFive

\* Stop stops every subsystem after all of its users, except the pool,
\* which the miner outlives for the one call between s.txPool.Stop() and
\* s.miner.Stop() (StopOrderExceptMinerPool), whatever configuration New
\* was given and however many bloom workers run beside Stop.
THEOREM StopOrderSafe == Spec => []StopOrderExceptMinerPool
<1>1. IInv => StopOrderExceptMinerPool
  BY StopOrderOfIInv
<1>2. QED
  BY <1>1, IInvInit, IInvStep, PTL DEF Spec

(***************************************************************************)
(* PeerBudgetHonoured.  The protocol manager is given its budget by the    *)
(* only step that runs it, a successful Start, and neither the budget nor  *)
(* the peer settings change afterwards; before Start it is not running.    *)
(***************************************************************************)
PmIdle == phase \in NewPhases \cup {"failed", "ready"} => res["pm"] # "running"

PInv == IInv /\ PmIdle /\ PeerBudgetHonoured

LEMMA PInvInit == Init => PInv
<1> SUFFICES ASSUME Init PROVE PInv
  OBVIOUS
<1>1. IInv
  BY IInvInit
<1>2. res["pm"] = "none"
  BY DEF Init, Res
<1>3. QED
  BY <1>1, <1>2 DEF PInv, PmIdle, PeerBudgetHonoured

\* One step per action.  Only a successful Start runs the protocol
\* manager, with the budget PeerBudget accepted; every other step either
\* leaves it as it was, with the same settings and budget, or stops it.
LEMMA PInvStep == PInv /\ [Next]_vars => PInv'
<1> SUFFICES ASSUME PInv, [Next]_vars PROVE PInv'
  OBVIOUS
<1>0. IInv'
  BY IInvStep DEF PInv
<1>1. TypeOK /\ PeerFields /\ PmIdle /\ PeerBudgetHonoured
  BY DEF PInv, IInv
<1>2. cfg.lightServ \in Nat /\ cfg.lightPeers \in Nat /\ cfg.maxPeers \in Nat
  BY <1>1 DEF TypeOK, PeerFields
<1> USE <1>0, <1>1
\* A step that keeps the protocol manager, the settings and the budget, and
\* enters a phase before Start only from one.
<1>3. /\ res'["pm"] = res["pm"]
      /\ UNCHANGED <<cfg, pmPeers>>
      /\ phase' \in NewPhases \cup {"failed", "ready"}
           => phase \in NewPhases \cup {"failed", "ready"}
      => PInv'
  BY DEF PInv, PmIdle, PeerBudgetHonoured
<1>4. CASE NewConfig \/ NewOpenDb \/ NewVersion \/ NewChain
             \/ NewProtocolManager \/ NewDiscovery \/ AddLesServer
  <2>1. phase \in NewPhases \cup {"ready"}
        /\ phase' \in NewPhases \cup {"failed", "ready"}
    BY <1>4 DEF NewConfig, NewOpenDb, NewVersion, NewChain,
                NewProtocolManager, NewDiscovery, AddLesServer, Fail,
                NewPhases
  <2>2. res'["pm"] # "running"
    BY <1>4, <2>1 DEF NewConfig, NewOpenDb, NewVersion, NewChain,
                      NewProtocolManager, NewDiscovery, AddLesServer, Set,
                      PmIdle, TypeOK, Res
  <2>3. QED
    BY <2>1, <2>2 DEF PInv, PmIdle, PeerBudgetHonoured
<1>5. CASE Start
  <2> DEFINE b == PeerBudget(cfg.lightServ, cfg.lightPeers, cfg.maxPeers)
  <2>1. UNCHANGED cfg /\ phase' \notin NewPhases \cup {"failed", "ready"}
    BY <1>5 DEF Start, NewPhases
  <2>2. CASE b.ok
    <3>1. pmPeers' = b.peers
      BY <1>5, <2>2 DEF Start
    <3>2. IF cfg.lightServ > 0
            THEN b.peers = cfg.maxPeers - cfg.lightPeers /\ b.peers > 0
            ELSE b.peers = cfg.maxPeers
      BY <1>2, <2>2, PeerBudgetAccepted
    <3>3. QED
      BY <2>1, <3>1, <3>2 DEF PInv, PmIdle, PeerBudgetHonoured
  <2>3. CASE ~b.ok
    <3>1. res'["pm"] = res["pm"] /\ phase = "ready"
      BY <1>5, <2>3 DEF Start, Set, TypeOK, Res
    <3>2. res'["pm"] # "running"
      BY <3>1 DEF PmIdle
    <3>3. QED
      BY <2>1, <3>2 DEF PInv, PmIdle, PeerBudgetHonoured
  <2>4. QED
    BY <2>2, <2>3
<1>6. CASE StopBegin
  BY <1>6, <1>3 DEF StopBegin, StopPhases, NewPhases
<1>7. ASSUME NEW i \in 1..9, StopStep(i) PROVE PInv'
  <2>1. phase' \notin NewPhases \cup {"failed", "ready"}
        /\ UNCHANGED <<cfg, pmPeers>>
    BY <1>7 DEF StopStep, StopPhases, NewPhases
  <2>2. res'["pm"] \in {res["pm"], "stopped"}
    BY <1>7 DEF StopStep, StopPhases, StopTarget, TypeOK, Res
  <2>3. QED
    BY <2>1, <2>2 DEF PInv, PmIdle, PeerBudgetHonoured
<1>8. ASSUME NEW w \in Workers, BloomServe(w) \/ BloomDone(w) \/ BloomExit(w)
      PROVE PInv'
  BY <1>8, <1>3 DEF BloomServe, BloomDone, BloomExit
<1>9. CASE Terminated \/ UNCHANGED vars
  BY <1>9, <1>3 DEF Terminated, vars
<1>10. QED
  BY <1>4, <1>5, <1>6, <1>7, <1>8, <1>9 DEF Next

\* A running protocol manager was given MaxPeers less the light-peer
\* reservation, and at least one full-peer slot when light clients are
\* served (PeerBudgetHonoured), for every configuration: Start's `>=`
\* check on lines 519-521 admits no reservation that uses up MaxPeers.
THEOREM PeerBudgetSafe == Spec => []PeerBudgetHonoured
<1>1. PInv => PeerBudgetHonoured
  BY DEF PInv
<1>2. QED
  BY <1>1, PInvInit, PInvStep, PTL DEF Spec


THEOREM ConstructedStateSafe == Spec => []ConstructedState
<1>1. IInv /\ CInv => ConstructedState
  <2> SUFFICES ASSUME IInv, CInv, phase \notin NewPhases \cup {"failed"}
               PROVE  ConstructedState
    BY DEF ConstructedState
  <2>1. input \in InputConfigs /\ phase \in AfterVersion
    BY DEF IInv, TypeOK, AfterVersion, NewPhases
  <2>2. cfg = Sanitized(input)
    BY DEF CInv, NewPhases
  <2>3. QED
    BY <2>1, <2>2, SanitizedCorrect DEF ConstructedState, CInv
<1>2. Init => IInv /\ CInv
  BY IInvInit, CInvInit
<1>3. IInv /\ CInv /\ [Next]_vars => IInv' /\ CInv'
  BY IInvStep, CInvStep
<1>4. QED
  BY <1>1, <1>2, <1>3, PTL DEF Spec

\* The version check of lines 135-149 never lowers the marker in the
\* database (VersionNeverDowngrades): only NewVersion writes it, and only
\* the code's version over an absent or an older one.
THEOREM VersionMonotone == Spec => VersionNeverDowngrades
<1>1. TypeOK /\ [Next]_vars =>
        [dbVersion' # dbVersion =>
           (dbVersion = NoVersion \/ dbVersion' > dbVersion)]_dbVersion
  <2> SUFFICES ASSUME TypeOK, [Next]_vars, dbVersion' # dbVersion
               PROVE  dbVersion = NoVersion \/ dbVersion' > dbVersion
    OBVIOUS
  <2>1. NewVersion
    BY DEF Next, vars, NewConfig, NewOpenDb, NewChain, NewProtocolManager,
           NewDiscovery, AddLesServer, Start, StopBegin, StopStep, BloomServe,
           BloomDone, BloomExit, Terminated
  <2>2. VersionCheck(dbVersion, cfg.skip) = "write"
        /\ dbVersion' = BlockChainVersion
    BY <2>1 DEF NewVersion, Fail
  <2>3. QED
    BY <2>2, VersionWriteRaises DEF TypeOK
<1>2. QED
  BY <1>1, LifecycleTypeCorrect, PTL DEF VersionNeverDowngrades, Spec
=============================================================================
