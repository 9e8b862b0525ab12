------------------------------ MODULE BHEConfig ------------------------------
(***************************************************************************)
(* The pure decisions of the full-node service (src/bhe/backend.go): the   *)
(* configuration checks and sanitation at the top of New, the database     *)
(* version check, the engine selection of CreateConsensusEngine, the peer  *)
(* budget of Start and the extra-data default of makeExtraData.  Values    *)
(* are the integers the code computes with (cache sizes in MB, counts).    *)
(***************************************************************************)
EXTENDS Integers

CONSTANTS
    DefaultGasPrice,   \* DefaultConfig.Miner.GasPrice
    BlockChainVersion, \* core.BlockChainVersion, the schema version expected
    MaxExtraData,      \* params.MaximumExtraDataSize
    DefaultExtraLen,   \* length of the RLP default extra data (build-dependent)
    NilPrice,          \* a config.Miner.GasPrice of nil
    NoVersion          \* the absent version marker (ReadDatabaseVersion nil)

ASSUME ConfigAssumption ==
    /\ DefaultGasPrice \in Nat \ {0}
    /\ BlockChainVersion \in Nat
    /\ MaxExtraData \in Nat
    /\ DefaultExtraLen \in Nat
    /\ NilPrice \notin Int
    /\ NoVersion \notin Int

\* The sync modes downloader.SyncMode knows; IsValid accepts the first three.
SyncModes == {"full", "fast", "light", "invalid"}

\* Lines 89-94: light sync is refused (wrong node variant), so is an invalid
\* mode.  The result is the error New returns, or "ok".
SyncModeCheck(mode) ==
    CASE mode = "light" -> "light_sync"
      [] mode = "invalid" -> "invalid_sync"
      [] OTHER -> "ok"

\* Lines 95-98: a nil or non-positive gas price becomes the default.
SanitizeGasPrice(p) ==
    IF p = NilPrice THEN DefaultGasPrice
    ELSE IF p <= 0 THEN DefaultGasPrice ELSE p

\* Mutant of RedistributeCaches: the dirty cache is shared out but not reset.
RedistributeCachesKeepDirty(c) ==
    IF c.noPruning /\ c.dirty > 0
      THEN IF c.snapshot > 0
             THEN [c EXCEPT !.clean = @ + (c.dirty * 3) \div 5,
                            !.snapshot = @ + (c.dirty * 2) \div 5]
             ELSE [c EXCEPT !.clean = @ + c.dirty]
      ELSE c

\* Lines 99-107: with pruning off the dirty trie cache is handed to the
\* clean cache and, when snapshots are cached, 2/5 of it to the snapshot
\* cache (Go integer division on each share separately).
RedistributeCaches(c) ==
    IF c.noPruning /\ c.dirty > 0
      THEN IF c.snapshot > 0
             THEN [c EXCEPT !.clean = @ + (c.dirty * 3) \div 5,
                            !.snapshot = @ + (c.dirty * 2) \div 5,
                            !.dirty = 0]
             ELSE [c EXCEPT !.clean = @ + c.dirty, !.dirty = 0]
      ELSE c

\* Line 183: the cache allowance given to the downloader.
CacheLimit(c) == c.clean + c.dirty + c.snapshot

\* Mutant of VersionCheck: any version other than the code's is rewritten.
VersionCheckNoFatal(stored, skip) ==
    CASE skip -> "keep"
      [] stored = NoVersion \/ stored # BlockChainVersion -> "write"
      [] OTHER -> "keep"

\* Lines 135-149: a stored version newer than the code's is fatal, an
\* older or absent one is overwritten with the current version, unless the
\* check is skipped.
VersionCheck(stored, skip) ==
    CASE skip -> "keep"
      [] stored # NoVersion /\ stored > BlockChainVersion -> "fatal"
      [] stored = NoVersion \/ stored < BlockChainVersion -> "write"
      [] OTHER -> "keep"

\* Lines 227-257: a clique section in the chain config wins over the pow
\* mode; the production ethash engine starts with CPU mining disabled (-1).
CreateConsensusEngine(hasClique, powMode) ==
    IF hasClique THEN [kind |-> "clique", threads |-> 0]
    ELSE CASE powMode = "fake" -> [kind |-> "fake", threads |-> 0]
           [] powMode = "test" -> [kind |-> "test", threads |-> 0]
           [] powMode = "shared" -> [kind |-> "shared", threads |-> 0]
           [] OTHER -> [kind |-> "ethash", threads |-> -1]

\* Mutant of PeerBudget: the reservation is subtracted without the check.
PeerBudgetUnchecked(lightServ, lightPeers, maxPeers) ==
    IF lightServ > 0 THEN [ok |-> TRUE, peers |-> maxPeers - lightPeers]
    ELSE [ok |-> TRUE, peers |-> maxPeers]

\* Mutant of PeerBudget: the check is `>` instead of `>=`.
PeerBudgetStrict(lightServ, lightPeers, maxPeers) ==
    IF lightServ > 0
      THEN IF lightPeers > maxPeers
             THEN [ok |-> FALSE, peers |-> maxPeers]
             ELSE [ok |-> TRUE, peers |-> maxPeers - lightPeers]
      ELSE [ok |-> TRUE, peers |-> maxPeers]

\* Lines 517-524: when serving light clients, LightPeers of the server's
\* MaxPeers are reserved for them; a reservation that is not smaller than
\* the total is an error.
PeerBudget(lightServ, lightPeers, maxPeers) ==
    IF lightServ > 0
      THEN IF lightPeers >= maxPeers
             THEN [ok |-> FALSE, peers |-> maxPeers]
             ELSE [ok |-> TRUE, peers |-> maxPeers - lightPeers]
      ELSE [ok |-> TRUE, peers |-> maxPeers]

\* Lines 209-224: the length of the extra data the miner is given; empty
\* extra data is replaced by the default, and too long extra data is
\* dropped (nil, length 0).
MakeExtraData(len) ==
    LET l == IF len = 0 THEN DefaultExtraLen ELSE len
    IN IF l > MaxExtraData THEN 0 ELSE l
=============================================================================
