# TLA+ models of the full-node service (`src/bhe/backend.go`)

This directory holds TLA+ models of the full-node service `BHEereum` in
`src/bhe/backend.go`, with TLC configurations and TLAPS proofs. Every
definition that models code is listed in `PROJECT.json` under `map`, together
with the source lines it translates.

## 1. The system

`backend.go` builds, runs and tears down a node service. The service owns these
subsystems: the chain database, the consensus engine, the bloom indexer, the
blockchain, the transaction pool, the protocol manager, the miner, an optional
light server, the bloom request handlers, and the node's event mux. Most of
them live outside `src/`. This file decides when they are created, started and
stopped, and it holds the mining control surface that API goroutines call at
any time.

| Part | Code | State | Operations | Concurrency |
|---|---|---|---|---|
| construction | `New` 87-207 | config, db version marker, subsystem handles | sanitize the config; open the db; genesis; version check; chain; pool; protocol manager; miner; discovery | one goroutine. Every step can fail and return `nil, err` |
| engine selection | `CreateConsensusEngine` 227-257 | — | clique wins over the pow mode. Production ethash starts with threads = -1 | pure |
| start / stop | `Start` 508-531, `Stop` 535-552, `AddLesServer` 72-75 | running subsystems, bloom workers | bloom handlers; peer budget check; pm and les start. Stop makes 9 calls in order | Stop runs beside the bloom workers |
| mining control | `StartMining` 418-459, `StopMining` 463-473, `SetBHEerbase` 407-413, `BHEerbase()` 329-350 | `s.BHEerbase` (under `s.lock`), engine threads, clique signer, pool price, `acceptTxs`, miner | see below | any number of API goroutines. `go s.miner.Start(eb)` is asynchronous |
| reorg heuristic | `isLocalBlock` 357-378, `shouldPreserve` 383-404 | reads `s.BHEerbase` and `TxPool.Locals` | decides whether a block is preserved | called by the chain's goroutine at any time |
| not modelled | `APIs`, `Protocols`, accessors, `SetContractBackend`, `ResetWithGenesisBlock`; `src/Makefile` | — | they build or return handles | — |

Interactions between the parts:
- The mining surface reads and writes shared state that the reorg heuristic
  also reads (`s.BHEerbase`).
- The spawned miner start races the API goroutines.
- Stop's ordering matters because of the `Uses` relation: which subsystem was
  constructed with a handle to which. The miner is built on the service itself
  (line 191), so it uses the engine, the chain and the pool.
- The bloom workers run from Start until they see `closeBloomHandler`, and Stop
  closes that channel without waiting for them.

## 2. Modules

- **`BHEConfig`** holds the pure decisions, as operators:
  - `SyncModeCheck`, `SanitizeGasPrice`, `RedistributeCaches` (Go integer
    division), `CacheLimit`, `VersionCheck`, `CreateConsensusEngine`,
    `PeerBudget`, `MakeExtraData`;
  - a nil gas price and an absent version marker are the model values
    `NilPrice` and `NoVersion`.
- **`BHELifecycle`** (EXTENDS `BHEConfig`) models the service:
  - **State:** `res` maps each subsystem to none / created / running / stopped.
    `phase` says where New, Start or Stop is. The module also holds the
    configuration as given (`input`) and as sanitized (`cfg`), the db version
    marker, the peer budget given to the protocol manager, and one state per
    bloom worker.
  - **New:** one action per stretch of New between two calls that can fail.
    Each failing call is a disjunct that ends in `failed`, so a failure after
    OpenDatabase keeps what was already running.
  - **Start and Stop:** `Start` is one action, because nothing runs beside it.
    `Stop` is `StopBegin` plus `StopStep(i)` for each of the 9 calls, in the
    code's order.
  - **Bloom workers:** `BloomServe`, `BloomDone` and `BloomExit` come from
    spec 4.4, because `startBloomHandlers` is not under `src/`.
- **`BHEMining`** models the mining control surface:
  - **Interleavings:** `Proc` goroutines, each with a program counter.
  - **StartMining** is split at every shared access: the thread rescale, the
    `IsMining` check, the price propagation, `BHEerbase()` read, the first
    account written back under a second Lock, clique's wallet lookup and
    Authorize, and finally the `acceptTxs` store plus the spawn.
  - **StopMining and SetBHEerbase** are each split in two. SetBHEerbase's field
    write and its `miner.SetBHEerbase` call are separate steps.
  - **Locks:** each critical section of `s.lock` is one atomic step, so the
    lock needs no variable.
  - **Spawned starts:** `go s.miner.Start(eb)` is a pending start (`pendStart`)
    that `MinerStart` consumes at any later time.
  - **Reorg:** `Reorg` evaluates `shouldPreserve` on any author, and with an
    Author lookup that may fail, in any state.
  - **Spec-modelled:** the miner and the protocol manager's `SyncDone` are
    outside `src/`.
  - **Call bound:** `Quiescent` is the stutter at the call bound.
- **`BHEMiningAbstract`** is what the mining surface promises, with no
  goroutines, locks or pending starts. Each step changes one observable
  setting: threads, pool price, signer, `acceptTxs`, the miner running, the
  coinbase. The miner starts only with a non-zero coinbase, after the pool has
  the price and `acceptTxs` is set, and under clique only with a local signer.
  A mining call never leaves a threaded engine at 0 threads. `BHEMining`
  instantiates it as `Abs`, with the engine constants mapped from
  `EngineKind`; the variables map to themselves. `ImplementsAbstractMining ==
  Abs!Spec` is checked by TLC and proved.
- **`BHEService`** composes the two components through `INSTANCE`:
  - a new API call starts only while the node serves (`ready`, `started`,
    `start_failed`);
  - calls under way and the spawned `miner.Start` run beside Stop;
  - the protocol manager reports sync only while it runs, and the chain asks
    `shouldPreserve` only while it runs;
  - Stop's `s.miner.Stop()` (line 546) is `StopMiner`, the one step both
    components take.
- **`BHEConfig_proofs`, `BHEMining_proofs`, `BHELifecycle_proofs` and
  `BHEService_proofs`** hold the TLAPS proofs.
- **`MC_BHEMining`, `MC_BHELifecycle` and `MC_BHEService`** are the TLC
  instances.

## 3. Runs

| run | cfg | expect | what it shows |
|---|---|---|---|
| mining_clique | MC_BHEMining_clique | pass | `MiningPreconditions` and `ImplementsAbstractMining` under clique |
| mining_ethash | MC_BHEMining_ethash | pass | the same for the threaded ethash engine |
| mining_launch | MC_BHEMining_launch | violation | `SingleLaunch`: two StartMining calls spawn two `miner.Start` |
| mining_stop | MC_BHEMining_stop | violation | `StopIsFinal`: a spawned start runs after StopMining |
| mining_overwrite | MC_BHEMining_overwrite | violation | `NoSilentEtherbaseOverwrite`: `BHEerbase()` overwrites a concurrent SetBHEerbase |
| mining_preserve | MC_BHEMining_preserve | violation | `PreserveOnlyResolved`: an author equal to the zero address counts as local while the address is unset |
| mining_coinbase | MC_BHEMining_coinbase | violation | `CoinbaseFollowsEtherbase`: two concurrent SetBHEerbase calls reach the miner in the opposite order of their field writes; once both have returned the field holds a2 and the miner a1 |
| service_stop | MC_BHEService | violation | `MinerQuietAfterStop`: a `miner.Start` spawned before Stop runs after Stop's `s.miner.Stop()` and mines on a stopped chain |
| lifecycle | MC_BHELifecycle | pass | see below |
| lifecycle_stoporder | MC_BHELifecycle_stoporder | violation | `StopOrder`: Stop stops the pool (line 545) while the miner, which uses it, runs until line 546 |
| lifecycle_leak | MC_BHELifecycle_leak | violation | `FailedNewLeaks`: New returns nil with the db, engine and bloom indexer running |
| lifecycle_startfail | MC_BHELifecycle_startfail | violation | `StartFailureStartsNothing`: a rejected Start has launched the bloom handlers |

The `lifecycle` run checks six properties:
- `TypeOK`.
- `StopOrderExceptMinerPool`: the full `StopOrder` fails (run
  `lifecycle_stoporder`), and this property bounds how far. The only user that
  outlives what it uses is the miner, over the pool, and only while Stop is
  between `s.txPool.Stop()` and `s.miner.Stop()`.
- `PeerBudgetHonoured`: a running protocol manager was given MaxPeers less the
  light-peer reservation, and at least one full-peer slot when light clients
  are served. The instance has reservations equal to MaxPeers, so a `>` in
  place of the `>=` on line 519 is caught.
- `ConstructedState`: after New, the gas price is positive, the dirty cache is
  handed over with at most 1 MB lost, and the db carries the code's version
  unless the check was skipped.
- `VersionNeverDowngrades`, an action property.
- `WorkersExitAfterStop`, a liveness property: after Stop, every worker exits.

`CoinbaseFollowsEtherbase` is an action property, not an invariant. Spec
line 77 lets a `miner.Start` spawned earlier use the address it resolved, and
a SetBHEerbase still under way has not yet reached the miner, so the two may
differ for a while. The property therefore constrains only the step where the
last SetBHEerbase under way returns. From then on nothing brings the miner
back to the field's value until another call.

Each violation run is a finding in `PROJECT.json`. Each property of a passing
run has a mutant: a plausible bug in the mapped code that TLC must catch. For
example, dropping `close(s.closeBloomHandler)` breaks `WorkersExitAfterStop`,
and stopping the chain before the pool breaks `StopOrderExceptMinerPool`.

### Bounds

**Mining runs:**
- 2 goroutines (symmetric) and 2 addresses plus the zero address. One address
  has a local wallet and is the first account; the other is a trusted local.
- Thread arguments {0, 2}.
- At most 4 calls in the passing runs and 3 in the violation runs.
- `ImplementsAbstractMining`: mutants that bind a signer with no local wallet,
  or that leave the threads at 0, break it.
- Four calls are enough for every race found here: two StartMining calls, or a
  StartMining and a StopMining, or a StartMining and a SetBHEerbase, plus one
  more call.

**Lifecycle run** (`MCInputConfigs`, 13,824 configurations):
- every sync mode but fast, which behaves like full;
- a nil, a zero and a positive gas price;
- pruning on and off, with and without a dirty cache and a snapshot cache; the
  dirty cache of 3 makes the integer division lose 1 MB;
- a db version that is absent, older, equal or newer;
- each genesis outcome;
- light serving off and on, with reservations below and at MaxPeers;
- two bloom workers.

**Service run** (`service_stop`):
- one address with a local wallet;
- one well-formed configuration and one bloom worker;
- one API goroutine, thread argument 0, at most 2 calls. The violation needs
  only one StartMining, followed by Stop.

The mining guarantees of the composition are not model-checked separately.
Its only step that is not a mining step, Stop's `s.miner.Stop()`, just clears
`mining`, so a run would repeat `mining_ethash`. The theorems below cover
them for every value of the constants.

### Fairness

Fairness is assumed only in `BHELifecycle`, and only for the following:
- **Stop's steps (weak):** Stop is straight-line code.
- **A serving worker finishing (weak).**
- **A worker taking the close signal (strong):** Go's `select` picks among
  ready cases uniformly, so a worker that is idle infinitely often while the
  channel is closed eventually takes it.

The mining model assumes no fairness and checks only safety.

## 4. Proofs (checked by `tlapm`)

`BHEMining_proofs`:
- **`TypeCorrect`:** `Spec => []TypeOK`. No run checks this type invariant:
  no plausible bug in `backend.go` breaks it. The other proofs use it.
- **`MiningSafe`:** `Spec => []MiningPreconditions`.
- **`Refinement`:** `Spec => ImplementsAbstractMining` (that is, `Abs!Spec`).

Both hold for every value of the constants that satisfies `ConstAssumption`:
any number of goroutines, addresses and calls, and any engine.

`MiningPreconditions` is not inductive. A goroutine that is about to spawn
needs facts that were established by its earlier steps. The strengthening
`IInv` adds one fact per program counter:
- past `SmPrice`, the pool has the miner's price;
- at `sm_auth` and `sm_spawn`, `eb` is non-zero;
- at `sm_spawn` under clique, a local signer is bound.

These facts survive the steps of other goroutines because each of these
values only ever moves one way. TLC checked `IInv` as an invariant of both
mining runs before it was proved. The step proof has one case per action.

The refinement rests on two lemmas:
- `AbsInit`: `Init => Abs!Init`.
- `AbsStep`: `IInv /\ [Next]_vars => [Abs!Next]_absVars`, with one step per
  action:
  - StartMining and StopMining are `SetThreads` on a threaded engine, where the
    code maps 0 to -1 or to the argument, and a stutter otherwise;
  - `SmPrice` is `PropagatePrice`, `SmAuthorize` is `Authorize` (or a
    stutter), `SmSpawn` and `SyncDone` are `AcceptTxs`, `StStop` is
    `StopMiner` and `SeMiner` is `SetCoinbase`;
  - `MinerStart` is `StartMiner`. Its guard comes from `MiningPreconditions`,
    which is why the step needs `IInv`;
  - the other steps leave the abstract variables unchanged.

`BHELifecycle_proofs`:
- **`LifecycleTypeCorrect`:** `Spec => []TypeOK`.
- **`StopOrderSafe`:** `Spec => []StopOrderExceptMinerPool`.
- **`PeerBudgetSafe`:** `Spec => []PeerBudgetHonoured`.

These hold for every configuration satisfying `LifecycleAssumption` and any
set of workers.

`StopOrderExceptMinerPool` is not inductive on its own, because it says
nothing about what is still to be stopped. The strengthening numbers Stop's calls:
- `Rank[r]` is the number of the Stop call that stops `r`; the bloom handlers
  share 3 with the indexer;
- `Cur` is the number of the next call: 0 before Stop, 10 when it has ended.

`IInv` then says that:
- a subsystem is stopped only if its rank is below `Cur`;
- every subsystem ranked below `Cur` is not running;
- the peer fields of `cfg` are those of `input`.

Call `i` changes only the subsystem of rank `i` (`StopCalls`, `RankUnique`).
`StopOrderExceptMinerPool` follows from `UsesRanked`: every pair in `Uses`
has the user ranked below what it uses, except the miner (rank 5) over the
pool (rank 4). A running user of a stopped subsystem is ranked at or above
`Cur`, and what it uses is ranked below. That can only be the miner over the
pool, with `Cur = 5`, which is the phase `stop_miner` (`CurFive`).

`PeerBudgetHonoured` is proved through `PInv`, which adds `PmIdle` to `IInv`:
before Start returns, the protocol manager is not running. Only a successful
Start runs it, with the budget that `PeerBudgetAccepted` (in
`BHEConfig_proofs`) shows is correct. No later step changes the budget or the
peer settings. TLC checked `PInv` on the lifecycle instance first.

- **`ConstructedStateSafe`:** `Spec => []ConstructedState`.
- **`VersionMonotone`:** `Spec => VersionNeverDowngrades`, an action property.

`ConstructedState` speaks of the finished service. The steps of New that
reach it read what earlier steps wrote, so it is not inductive. The
strengthening `CInv` records what New has done at each phase:
- at `new_cfg`, `cfg` is the input;
- after `new_cfg`, `cfg` is `Sanitized(input)`, as NewConfig left it;
- up to the version check, the marker is the stored one;
- after a version check that passed and was not skipped, the marker is the
  code's version.

TLC checked `CInv` and `IInv` on the lifecycle instance (537,216 states)
before they were proved. `ConstructedState` then follows from facts about
the operators, proved in `BHEConfig_proofs`:
- `SplitLoss`: for every `d \in Nat`, `(d*3) \div 5 + (d*2) \div 5` is
  `d - 1` or `d`. The proof splits `d` as `5q + r` and checks each `r`.
- `SanitizedPricePositive`: a nil or non-positive price becomes the default.
- `RedistributeCachesCorrect`: the cache redistribution leaves no dirty cache
  with pruning off, loses at most one unit, and keeps the other fields.
- `VersionCheckPassed` and `VersionWriteRaises`: the version check.

`VersionMonotone` needs only `TypeOK`. Only NewVersion changes the marker,
and only on a `"write"` outcome, which `VersionWriteRaises` shows raises it.

`BHEService_proofs`:
- **`ServiceMiningSafeProved`:** `Spec => []ServiceMiningSafe`.
- **`ServiceRefinement`:** `Spec => ServiceImplementsAbstractMining`.

No run checks these two properties. They carry `MiningPreconditions` and
`ImplementsAbstractMining` over to the composition for every value of the
constants.

`BHEService_proofs` instantiates `BHEMining_proofs` as `MP` and reuses its
invariant `IInv`, its step lemmas and the refinement mapping. This works
because of `MiningView`: seen from the mining variables, each service step is
one of three things:
- a `BHEMining` step;
- a stutter;
- `MinerStopped`, Stop's `s.miner.Stop()`.

`MinerStopped` only clears `mining` and records the stop. It keeps `IInv`
(`MinerStoppedKeepsIInv`) and is the abstract `StopMiner`
(`MinerStoppedRefines`). The lemmas `SameInit`, `SameNext`,
`SamePreconditions` and `SameAbstract` state that the instance `M` of
`BHEService` and `MP` agree. The service theorems take `ServiceAssumption` as a hypothesis
(`ASSUME ServiceAssumption PROVE ...`). That is the conjunction of the two
components' constant assumptions, `BHEMining`'s `ConstAssumption` and
`BHELifecycle`'s `ConfigAssumption` and `LifecycleAssumption`, for the
constants of `BHEService`.

- **`ServiceStopOrder`:** `Spec => []L!StopOrderExceptMinerPool`.

It is proved the same way, on the lifecycle side. Every service step is a
lifecycle step or leaves the lifecycle variables alone (`LifecycleView`).
Stop's `s.miner.Stop()` is the lifecycle's `StopStep(5)`. The invariant `IInv`
of `BHELifecycle_proofs` therefore carries over, and `StopOrderOfIInv` turns
it into `StopOrderExceptMinerPool`. No run checks this property on the
composition, because the theorem covers it for every configuration.

Out of the prover's reach, and left to TLC:
- the liveness property `WorkersExitAfterStop`: tlapm has no liveness
  backend for fairness and ENABLED;
- the violation runs, which are findings rather than theorems.

## 5. Not modelled

- The RPC API list, the p2p protocol list and the accessors: no state the
  properties observe.
- The miner's internals, the downloader and the bloom sessions' batching:
  these are outside `src/`.
- `src/Makefile`: build only.
- The double-Stop panic of `close(closeBloomHandler)`: the spec allows one
  Stop.

## 6. Plan for later work

1. A wallet set that changes during resolution.
2. A property of `BHEService` that relates the two components.
3. The bloom workers' reads of the database closed at line 549 (hazard at
   549), which needs the workers' reads modelled as steps against `res["db"]`.
