---------------------------- MODULE BHEConfig_proofs ----------------------------
(***************************************************************************)
(* Facts about the pure decisions of New (src/bhe/backend.go lines 89-149) *)
(* that the proofs about the service's construction cite: the gas price    *)
(* sanitation, the cache redistribution with Go integer division, and the  *)
(* database version check.                                                 *)
(***************************************************************************)
EXTENDS BHEConfig, TLAPS

USE ConfigAssumption DEF ConfigAssumption

\* Splitting the dirty cache into 3/5 and 2/5 with integer division on
\* each share (lines 101-102) loses at most one unit, never more.
LEMMA SplitLoss ==
    ASSUME NEW d \in Nat
    PROVE  (d * 3) \div 5 + (d * 2) \div 5 \in {d - 1, d}
<1> DEFINE q == d \div 5  r == d % 5
<1>1. q \in Nat /\ r \in 0..4 /\ d = 5 * q + r
  BY SMT
<1>2. /\ (d * 3) \div 5 = 3 * q + (3 * r) \div 5
      /\ (d * 2) \div 5 = 2 * q + (2 * r) \div 5
  BY <1>1, SMT
<1>3. r = 0 \/ r = 1 \/ r = 2 \/ r = 3 \/ r = 4
  BY <1>1, SMT
<1>4. QED
  BY <1>1, <1>2, <1>3, SMT

\* A nil or non-positive price becomes the default, so the price the
\* service keeps is always positive (lines 95-98).
LEMMA SanitizedPricePositive ==
    ASSUME NEW p, p = NilPrice \/ p \in Int
    PROVE  SanitizeGasPrice(p) \in Nat \ {0}
<1>1. CASE p = NilPrice
  BY <1>1 DEF SanitizeGasPrice
<1>2. CASE p \in Int
  <2>1. p # NilPrice
    BY <1>2
  <2>2. QED
    BY <1>2, <2>1 DEF SanitizeGasPrice
<1>3. QED
  BY <1>1, <1>2

\* The cache redistribution of lines 99-107 leaves no dirty cache when
\* pruning is off, loses at most one unit of the total allowance, and
\* leaves every other field as it was.
LEMMA RedistributeCachesCorrect ==
    ASSUME NEW c, NEW F, DOMAIN c = F,
           {"noPruning", "clean", "dirty", "snapshot"} \subseteq F,
           c.noPruning \in BOOLEAN,
           c.clean \in Nat, c.dirty \in Nat, c.snapshot \in Nat
    PROVE  LET d == RedistributeCaches(c) IN
           /\ DOMAIN d = F
           /\ d.noPruning => d.dirty = 0
           /\ CacheLimit(d) \in {CacheLimit(c) - 1, CacheLimit(c)}
           /\ \A f \in F \ {"clean", "dirty", "snapshot"} :
                 d[f] = c[f]
<1> DEFINE d == RedistributeCaches(c)
<1> USE DEF d
<1> SUFFICES /\ DOMAIN d = F
             /\ d.noPruning => d.dirty = 0
             /\ CacheLimit(d) \in {CacheLimit(c) - 1, CacheLimit(c)}
             /\ \A f \in F \ {"clean", "dirty", "snapshot"} : d[f] = c[f]
  OBVIOUS
<1>1. CASE c.noPruning /\ c.dirty > 0 /\ c.snapshot > 0
  <2> DEFINE a == (c.dirty * 3) \div 5  b == (c.dirty * 2) \div 5
  <2>1. d = [c EXCEPT !.clean = @ + a, !.snapshot = @ + b, !.dirty = 0]
    BY <1>1 DEF RedistributeCaches
  <2>2. a + b \in {c.dirty - 1, c.dirty} /\ a \in Nat /\ b \in Nat
    BY SplitLoss, SMT
  <2>3. /\ DOMAIN d = F
        /\ d.clean = c.clean + a /\ d.snapshot = c.snapshot + b
        /\ d.dirty = 0
        /\ \A f \in F \ {"clean", "dirty", "snapshot"} : d[f] = c[f]
    BY <2>1
  <2>4. QED
    BY <2>2, <2>3 DEF CacheLimit
<1>2. CASE c.noPruning /\ c.dirty > 0 /\ ~(c.snapshot > 0)
  <2>1. d = [c EXCEPT !.clean = @ + c.dirty, !.dirty = 0]
    BY <1>2 DEF RedistributeCaches
  <2>2. /\ DOMAIN d = F
        /\ d.clean = c.clean + c.dirty /\ d.snapshot = c.snapshot
        /\ d.dirty = 0
        /\ \A f \in F \ {"clean", "dirty", "snapshot"} : d[f] = c[f]
    BY <2>1
  <2>3. QED
    BY <2>2 DEF CacheLimit
<1>3. CASE ~(c.noPruning /\ c.dirty > 0)
  <2>1. d = c
    BY <1>3 DEF RedistributeCaches
  <2>2. c.noPruning => c.dirty = 0
    BY <1>3
  <2>3. QED
    BY <2>1, <2>2 DEF CacheLimit
<1>4. QED
  BY <1>1, <1>2, <1>3

\* A version check that is not skipped and does not abort leaves the
\* database at the code's version (lines 135-149).
LEMMA VersionCheckPassed ==
    ASSUME NEW stored, stored = NoVersion \/ stored \in Nat,
           VersionCheck(stored, FALSE) # "fatal"
    PROVE  (IF VersionCheck(stored, FALSE) = "write"
              THEN BlockChainVersion ELSE stored) = BlockChainVersion
<1>1. CASE stored = NoVersion
  BY <1>1 DEF VersionCheck
<1>2. CASE stored \in Nat
  <2>1. stored # NoVersion
    BY <1>2
  <2>2. QED
    BY <1>2, <2>1 DEF VersionCheck
<1>3. QED
  BY <1>1, <1>2

\* The check only ever writes a version above the one found (line 146).
LEMMA VersionWriteRaises ==
    ASSUME NEW stored, NEW skip, stored = NoVersion \/ stored \in Nat,
           VersionCheck(stored, skip) = "write"
    PROVE  stored = NoVersion \/ BlockChainVersion > stored
<1>1. CASE stored = NoVersion
  BY <1>1
<1>2. CASE stored \in Nat
  <2>1. stored # NoVersion
    BY <1>2
  <2>2. QED
    BY <1>2, <2>1 DEF VersionCheck
<1>3. QED
  BY <1>1, <1>2

\* An accepted peer configuration (lines 518-524) gives the protocol
\* manager MaxPeers less the reservation, and at least one slot for full
\* peers, when light clients are served, and all of MaxPeers otherwise.
LEMMA PeerBudgetAccepted ==
    ASSUME NEW ls \in Nat, NEW lp \in Nat, NEW mp \in Nat,
           PeerBudget(ls, lp, mp).ok
    PROVE  IF ls > 0
             THEN /\ PeerBudget(ls, lp, mp).peers = mp - lp
                  /\ PeerBudget(ls, lp, mp).peers > 0
             ELSE PeerBudget(ls, lp, mp).peers = mp
  BY DEF PeerBudget
=============================================================================
