---------------------------- MODULE MC_BHEService ----------------------------
(* Model-checking instance of BHEService: one API goroutine, one account   *)
(* with a local wallet, one well-formed configuration, one bloom worker.   *)
EXTENDS BHEService, TLC

CONSTANTS p1, a1, z, w1

MCProc == {p1}
MCAddr == {a1}
MCWorkers == {w1}
MCThreadArgs == {0}
MCInputConfigs ==
    {[sync |-> "full", gasPrice |-> 3, noPruning |-> FALSE, clean |-> 1,
      dirty |-> 3, snapshot |-> 2, skip |-> FALSE, stored |-> 7,
      genesis |-> "ok", lightServ |-> 0, lightPeers |-> 1, maxPeers |-> 2]}
=============================================================================
