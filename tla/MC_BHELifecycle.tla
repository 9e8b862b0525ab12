--------------------------- MODULE MC_BHELifecycle ---------------------------
(* Model-checking instance of BHELifecycle: every sync mode, a nil, a zero *)
(* and a positive gas price, pruning on and off with and without a dirty   *)
(* and a snapshot cache, a database with no, an older, the current and a   *)
(* newer version marker, every genesis outcome, and light serving with a   *)
(* reservation below and equal to MaxPeers; two bloom workers.             *)
EXTENDS BHELifecycle, TLC

CONSTANTS w1, w2

MCWorkers == {w1, w2}

MCInputConfigs ==
    [sync : SyncModes \ {"fast"}, gasPrice : {NilPrice, 0, 3},
     noPruning : BOOLEAN, clean : {1}, dirty : {0, 3}, snapshot : {0, 2},
     skip : BOOLEAN, stored : {NoVersion, 6, 7, 8},
     genesis : {"ok", "compat", "error"}, lightServ : {0, 1},
     lightPeers : {1, 2}, maxPeers : {1, 2}]

MCSymmetry == Permutations(MCWorkers)
=============================================================================
