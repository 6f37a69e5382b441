------------------------------ MODULE FatTree ------------------------------
(***************************************************************************)
(* The shape of the fat tree of src/sim/topology/fat_tree_topology.cpp,    *)
(* as operators on a configuration c: the tiers, the number of hosts, the  *)
(* hosts of a pod and, per tier (0 ToR, 1 aggregation, 2 core), the        *)
(* radices down and up, the links of a bundle, the oversubscription, the   *)
(* speed of the links below the tier, its slower ("asymmetric") links and  *)
(* the latencies.  A cable joins one port of a lower node (a host, a ToR,  *)
(* an aggregation switch) with one of a switch of the tier above it.       *)
(***************************************************************************)
EXTENDS Integers, Sequences, FiniteSets

Upto(n) == 0 .. n - 1

HOST_POD_SWITCH(c, h) == h \div c.down[0]
HOST_POD(c, h) == IF c.tiers = 3 THEN h \div c.podsize ELSE 0

(***************************************************************************)
(* Latencies.  c.hop and c.switching are the constructor's, 0 when a file  *)
(* gave each tier its own.  init_network uses them for its pipes; the      *)
(* latency between two hosts is computed from the tiers' latencies, in     *)
(* which the constructor stores c.hop but not c.switching.                 *)
(***************************************************************************)
LinkLatency(c, t)   == IF c.hop = 0 THEN c.link[t] ELSE c.hop
SwitchLatency(c, t) == IF c.switch[t] > 0 THEN c.switch[t] ELSE c.switching

DiameterLatency(c) ==
  IF c.link[0] = 0 THEN c.hop * 2 * c.tiers + c.switching * (2 * c.tiers - 1)
  ELSE 2 * (c.link[0] + c.link[1]) + 2 * c.switch[0] + c.switch[1]
       + IF c.tiers = 3 THEN 2 * c.link[2] + c.switch[1] + c.switch[2] ELSE 0
StoreHop(c) ==
  IF c.link[0] > 0 THEN c
  ELSE [c EXCEPT !.link = [t \in 0 .. 2 |-> IF t < c.tiers THEN c.hop ELSE @[t]]]

get_two_point_diameter_latency(c, s, src, dst) ==
  LET one_hop_delay == 2 * (c.hop + c.switching) IN
  IF HOST_POD_SWITCH(c, src) = HOST_POD_SWITCH(c, dst)
  THEN IF c.link[0] = 0 THEN one_hop_delay ELSE 2 * c.link[0] + c.switch[0]
  ELSE IF c.tiers = 3 /\ HOST_POD(c, src) = HOST_POD(c, dst)
  THEN IF c.link[0] = 0 THEN 2 * one_hop_delay
       ELSE 2 * c.link[0] + 2 * c.switch[0] + 2 * c.link[1] + c.switch[1]
  ELSE s.diameter

(***************************************************************************)
(* set_custom_params: what it computes and what it insists on.             *)
(***************************************************************************)
Pods(c)        == c.nodes \div c.podsize
TorsPerPod(c)  == c.podsize \div c.down[0]
TorUplinks(c)  == (c.nodes * c.speed[0]) \div (c.speed[1] * c.oversub[0])
AggsPerPod(c)  == TorUplinks(c) \div (Pods(c) * c.down[1])
AggUplinks(c)  == (TorUplinks(c) * c.speed[1]) \div (c.speed[2] * c.oversub[1])
Cores(c)       == IF c.tiers = 3 THEN AggUplinks(c) \div c.down[2] ELSE 0

RadicesFitBundles(c) ==
  \A t \in Upto(c.tiers) :
    /\ c.down[t] > 0 /\ c.down[t] % c.bundle[t] = 0
    /\ t < c.tiers - 1 => c.up[t] > 0 /\ c.up[t] % c.bundle[t + 1] = 0

TorTierFits(c) ==
  /\ c.nodes % c.podsize = 0 /\ c.bundle[0] = 1 /\ c.podsize % c.down[0] = 0
  /\ (c.nodes * c.speed[0]) % (c.speed[1] * c.oversub[0]) = 0
  /\ c.down[0] \div c.up[0] = c.oversub[0]
  /\ TorUplinks(c) % (Pods(c) * c.down[1]) = 0
  /\ AggsPerPod(c) * c.bundle[1] = c.up[0]

AggTierFits(c) ==
  /\ (TorUplinks(c) * c.speed[1]) % (c.speed[2] * c.oversub[1]) = 0
  /\ AggUplinks(c) % c.down[2] = 0
  /\ Cores(c) % AggsPerPod(c) = 0
  /\ (Cores(c) * c.bundle[2]) \div AggsPerPod(c) = c.up[1]

CustomAccepted(c) ==
  RadicesFitBundles(c) /\ TorTierFits(c) /\ (c.tiers = 3 => AggTierFits(c))

CustomShape(c) ==
  [tor |-> TorsPerPod(c) * Pods(c), agg |-> AggsPerPod(c) * Pods(c), core |-> Cores(c),
   torsPerPod |-> TorsPerPod(c), aggsPerPod |-> AggsPerPod(c), uplinks |-> TorUplinks(c),
   diameter |-> DiameterLatency(c)]

(***************************************************************************)
(* set_params without a configuration: the smallest k whose k-ary fat tree *)
(* has at least the hosts asked for, accepted when it has exactly those.   *)
(***************************************************************************)
Size(tiers, k) == IF tiers = 3 THEN (k * k * k) \div 4 ELSE (k * k) \div 2
Arity(tiers, n) == CHOOSE k \in 0 .. n + 2 :
                     Size(tiers, k) >= n /\ \A j \in Upto(k) : Size(tiers, j) < n
DefaultAccepted(tiers, n) == Size(tiers, Arity(tiers, n)) = n
DefaultConfig(c, n) ==
  LET k == Arity(c.tiers, n) IN
  [c EXCEPT !.nodes = n, !.podsize = IF c.tiers = 3 THEN n \div k ELSE n,
            !.down = [t \in 0 .. 2 |-> IF t = 2 THEN k ELSE k \div 2],
            !.up   = [t \in 0 .. 1 |-> k \div 2]]
DefaultShape(c) ==
  LET k == c.down[2] IN
  [tor  |-> IF c.tiers = 3 THEN (k * k) \div 2 ELSE k,
   agg  |-> IF c.tiers = 3 THEN (k * k) \div 2 ELSE k \div 2,
   core |-> IF c.tiers = 3 THEN (k * k) \div 4 ELSE 0,
   torsPerPod |-> k \div 2, aggsPerPod |-> k \div 2, uplinks |-> 0,
   diameter |-> DiameterLatency(c)]

(***************************************************************************)
(* init_network: the cables of each tier, for a shape s.                   *)
(***************************************************************************)
Cable(t, lo, hi, b) == [tier |-> t, lo |-> lo, hi |-> hi, b |-> b]

PodAggs(c, s, pod) == pod * s.aggsPerPod .. (pod + 1) * s.aggsPerPod - 1
AggsAbove(c, s, tor) ==
  IF c.tiers = 3 THEN PodAggs(c, s, tor \div s.torsPerPod) ELSE Upto(s.agg)
CoreAbove(s, agg, l) == (agg % s.aggsPerPod) + s.aggsPerPod * l

TorCables(c, s) ==
  {Cable(0, (tor * (c.down[0] \div c.bundle[0])) + l, tor, b) :
     tor \in Upto(s.tor), l \in Upto(c.down[0] \div c.bundle[0]), b \in Upto(c.bundle[0])}
AggCables(c, s) ==
  UNION {{Cable(1, tor, agg, b) : agg \in AggsAbove(c, s, tor), b \in Upto(c.bundle[1])} :
           tor \in Upto(s.tor)}
CoreCables(c, s) ==
  IF c.tiers < 3 THEN {}
  ELSE {Cable(2, agg, CoreAbove(s, agg, l), b) :
          agg \in Upto(s.agg), l \in Upto(c.up[1] \div c.bundle[2]), b \in Upto(c.bundle[2])}
Cables(c, s) == TorCables(c, s) \cup AggCables(c, s) \cup CoreCables(c, s)

(***************************************************************************)
(* The speed a port gets.  A cable is slow when its tier is asymmetric and *)
(* the cable is one of the switches, or the single link, that asymmetric   *)
(* means.  The port that sends up uses the speed of the tier above, except *)
(* in asymmetric_alloc_queue, which does not move to that tier.            *)
(***************************************************************************)
Slow(c, s, k) ==
  LET place == CASE k.tier = 0 -> k.hi
                 [] k.tier = 1 -> IF c.tiers = 3 THEN k.hi % s.aggsPerPod ELSE k.hi
                 [] k.tier = 2 -> k.hi
      link  == CASE k.tier = 0 -> (c.bundle[0] * (k.lo % c.down[0])) + k.b
                 [] k.tier = 1 -> k.lo % s.torsPerPod
                 [] k.tier = 2 -> k.lo \div s.aggsPerPod
  IN /\ c.asym[k.tier] # "sym"
     /\ place < c.asymSwitches
     /\ c.asym[k.tier] = "single" => c.asymLink[k.tier] = link
DownSpeed(c, s, k) == IF Slow(c, s, k) THEN c.asymSpeed[k.tier] ELSE c.speed[k.tier]
UpSpeed(c, s, k) ==
  IF ~Slow(c, s, k) THEN c.speed[k.tier]
  ELSE IF k.tier = 0 THEN c.asymSpeed[0] ELSE c.asymSpeed[k.tier - 1]

(***************************************************************************)
(* get_bidir_paths: every route from a host to another, the cables in      *)
(* order, each with its way back.                                          *)
(***************************************************************************)
Access(c, h) == Cable(0, h, HOST_POD_SWITCH(c, h), 0)

PodPaths(c, s, src, dst) ==
  {[out  |-> <<Access(c, src), Cable(1, HOST_POD_SWITCH(c, src), a, u),
               Cable(1, HOST_POD_SWITCH(c, dst), a, d), Access(c, dst)>>,
    back |-> <<Access(c, dst), Cable(1, HOST_POD_SWITCH(c, dst), a, d),
               Cable(1, HOST_POD_SWITCH(c, src), a, u), Access(c, src)>>] :
     a \in PodAggs(c, s, HOST_POD(c, src)), u \in Upto(c.bundle[1]), d \in Upto(c.bundle[1])}

CorePath(c, s, src, dst, a, core, u1, u2, d2, d1) ==
  LET far == HOST_POD(c, dst) * s.aggsPerPod + (core % s.aggsPerPod) IN
  [out  |-> <<Access(c, src), Cable(1, HOST_POD_SWITCH(c, src), a, u1), Cable(2, a, core, u2),
              Cable(2, far, core, d2), Cable(1, HOST_POD_SWITCH(c, dst), far, d1), Access(c, dst)>>,
   back |-> <<Access(c, dst), Cable(1, HOST_POD_SWITCH(c, dst), far, d1), Cable(2, far, core, d2),
              Cable(2, a, core, u2), Cable(1, HOST_POD_SWITCH(c, src), a, u1), Access(c, src)>>]

CorePaths(c, s, src, dst) ==
  {CorePath(c, s, src, dst, a, CoreAbove(s, a, l), u1, u2, d2, d1) :
     a \in PodAggs(c, s, HOST_POD(c, src)), l \in Upto(c.up[1] \div c.bundle[2]),
     u1 \in Upto(c.bundle[1]), d1 \in Upto(c.bundle[1]),
     u2 \in Upto(c.bundle[2]), d2 \in Upto(c.bundle[2])}

get_bidir_paths(c, s, src, dst) ==
  IF HOST_POD_SWITCH(c, src) = HOST_POD_SWITCH(c, dst)
  THEN {[out |-> <<Access(c, src), Access(c, dst)>>, back |-> <<Access(c, dst), Access(c, src)>>]}
  ELSE IF HOST_POD(c, src) = HOST_POD(c, dst) THEN PodPaths(c, s, src, dst)
  ELSE CorePaths(c, s, src, dst)

\* add_failed_link: the core switch it disconnects from an aggregation switch.
FailedCore(s, agg, link) == (agg % s.aggsPerPod) * s.aggsPerPod + link
=============================================================================
