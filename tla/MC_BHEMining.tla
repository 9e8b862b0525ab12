---------------------------- MODULE MC_BHEMining ----------------------------
(* Model-checking instance of BHEMining: two API goroutines, two account   *)
(* addresses of which the first has a local wallet, the service started    *)
(* with no configured etherbase so that the account lookup runs.           *)
EXTENDS BHEMining, TLC

CONSTANTS p1, p2, a1, a2, z

MCProc == {p1, p2}
MCAddr == {a1, a2}
MCThreadArgs == {0, 2}
MCSymmetry == Permutations(MCProc)
=============================================================================
