--------------------------- MODULE FatTreeRouting ---------------------------
(***************************************************************************)
(* The switches of a fat tree (src/sim/switch/fat_tree_switch.cpp) and     *)
(* their tables (route_table.cpp).  A packet passes every switch twice: on *)
(* arrival the switch chooses the port it will leave by, after the         *)
(* switching latency it joins that port's queue.  Tables are filled when a *)
(* destination is first asked for; a ToR keeps one list of uplinks for     *)
(* all destinations above it, an aggregation switch one per destination.   *)
(***************************************************************************)
EXTENDS FatTree, TLC

CONSTANTS
  Conf, Network,  \* a configuration and its shape (FatTree)
  Flows,          \* [src |-> host, dst |-> host] records
  Pathids,        \* entropy values
  Sizes,          \* subset of {"small", "large"}: below and above the strategies' limits
  Strategy,       \* "ecmp", "packet", "flowlet", "ecmp_adaptive", "rr" or "rr_ecmp"
  MaxPackets,     \* bound: packets sent
  MaxInFlight,    \* bound: packets on their way at a time
  Removed         \* core cables add_failed_link has removed before the first packet

\* What this module assumes of its constants.
RoutingAssumption ==
  /\ Strategy \in {"ecmp", "packet", "flowlet", "ecmp_adaptive", "rr", "rr_ecmp"}
  /\ Sizes \subseteq {"small", "large"} /\ {MaxPackets, MaxInFlight} \subseteq Nat

VARIABLES
  packets,   \* sequence of [flow, path, size, at, stage, trail]
  fib,       \* <<switch, key>> :> the list of egress ports of a table entry
  hashed,    \* <<switch, flow, path>> :> index freeBSDHash gives with the switch's salt
  flowlets,  \* <<switch, flow>> :> index of the flow's port
  crt_route  \* switch :> next index of the round
vars == <<packets, fib, hashed, flowlets, crt_route>>

Switch(t, i) == <<t, i>>     \* tier (0 ToR) and index
NoSwitch == <<3, 0>>
Egress(k, up) == [cable |-> k, up |-> up]
PeerOf(e) == IF e.up THEN Switch(e.cable.tier, e.cable.hi)
             ELSE IF e.cable.tier = 0 THEN NoSwitch ELSE Switch(e.cable.tier - 1, e.cable.lo)

Init == packets = <<>> /\ fib = <<>> /\ hashed = <<>> /\ flowlets = <<>> /\ crt_route = <<>>

Send(f, path, size) ==
  /\ Len(packets) < MaxPackets
  /\ Cardinality({n \in DOMAIN packets : packets[n].stage # "delivered"}) < MaxInFlight
  /\ packets' = Append(packets, [flow |-> f, path |-> path, size |-> size, stage |-> "ingress",
                                 at |-> Switch(0, HOST_POD_SWITCH(Conf, f.src)), trail |-> <<>>])
  /\ UNCHANGED <<fib, hashed, flowlets, crt_route>>

(***************************************************************************)
(* The ports towards a destination.                                        *)
(***************************************************************************)
IsLocal(sw, dst) == sw[1] = 0 /\ HOST_POD_SWITCH(Conf, dst) = sw[2]
GoesUp(sw, dst) ==
  \/ sw[1] = 0 /\ ~IsLocal(sw, dst)
  \/ sw[1] = 1 /\ Conf.tiers = 3 /\ HOST_POD(Conf, dst) # (sw[2] \div Network.aggsPerPod)
UpPorts(sw) ==
  IF sw[1] = 0
  THEN {Egress(Cable(1, sw[2], a, b), TRUE) :
          a \in AggsAbove(Conf, Network, sw[2]), b \in Upto(Conf.bundle[1])}
  ELSE {Egress(Cable(2, sw[2], CoreAbove(Network, sw[2], l), b), TRUE) :
          l \in Upto(Conf.up[1] \div Conf.bundle[2]), b \in Upto(Conf.bundle[2])}
\* Mutant: the core goes down through the first aggregation switch of the pod.
DownPortFirst(sw, dst, b) ==
  IF sw[1] = 1 THEN Egress(Cable(1, HOST_POD_SWITCH(Conf, dst), sw[2], b), FALSE)
  ELSE Egress(Cable(2, HOST_POD(Conf, dst) * Network.aggsPerPod, sw[2], b), FALSE)
DownPort(sw, dst, b) ==
  IF sw[1] = 1 THEN Egress(Cable(1, HOST_POD_SWITCH(Conf, dst), sw[2], b), FALSE)
  ELSE Egress(Cable(2, HOST_POD(Conf, dst) * Network.aggsPerPod + (sw[2] % Network.aggsPerPod),
                    sw[2], b), FALSE)

Orders(S) == {q \in [1 .. Cardinality(S) -> S] : \A i, j \in DOMAIN q : q[i] = q[j] => i = j}
Permuted(list) == Orders({list[i] : i \in DOMAIN list})

Key(sw, dst) == IF sw[1] = 0 THEN <<sw, -1>> ELSE <<sw, dst>>
Filled(sw, dst) ==
  IF Key(sw, dst) \in DOMAIN fib THEN {fib[Key(sw, dst)]}
  ELSE IF GoesUp(sw, dst) THEN Orders(UpPorts(sw))
  ELSE {[i \in 1 .. Conf.bundle[sw[1]] |-> DownPort(sw, dst, i - 1)]}

(***************************************************************************)
(* The strategies: the possible choices among list for packet p, each with *)
(* the list and the round's index it leaves behind.                        *)
(***************************************************************************)
Load(e) == Cardinality({i \in DOMAIN packets :
                          packets[i].stage = "queue" /\ packets[i].trail # <<>>
                          /\ packets[i].trail[Len(packets[i].trail)] = e})
Best(list)  == {i \in DOMAIN list : \A j \in DOMAIN list : Load(list[i]) <= Load(list[j])}
Worst(list) == {i \in DOMAIN list : \A j \in DOMAIN list : Load(list[i]) >= Load(list[j])}

At(f, k, default) == IF k \in DOMAIN f THEN f[k] ELSE default
HashKey(sw, p) == <<sw, p.flow, p.path>>
Hash(sw, p, list) ==
  IF HashKey(sw, p) \in DOMAIN hashed THEN {hashed[HashKey(sw, p)]} ELSE DOMAIN list

\* hash is the index the hash gave, 0 when the choice did not ask for it.
Chosen(list, i, crt, hash) == [list |-> list, port |-> i, crt |-> crt, hash |-> hash]

Round(sw, list, rounds) ==
  LET crt == At(crt_route, sw, 0) n == Len(list) IN
  IF crt >= rounds * n THEN {Chosen(l, 1, 1, 0) : l \in Permuted(list)}
  ELSE {Chosen(list, (crt % n) + 1, crt + 1, 0)}

Flowlet(sw, p, list) ==
  IF <<sw, p.flow>> \notin DOMAIN flowlets THEN Best(list)
  ELSE LET old == flowlets[<<sw, p.flow>>] IN
       {old} \cup {i \in Best(list) : Load(list[i]) < Load(list[old])}

\* replace_worst_choice, for half of the packets: a port as loaded as the worst gives way.
Replaced(list, h) == {h} \cup IF h \in Worst(list) THEN Best(list) ELSE {}

Hashes(p) == \/ Strategy \in {"ecmp", "ecmp_adaptive"}
             \/ p.size = "small" /\ Strategy \in {"packet", "flowlet", "rr"}
Choices(sw, p, list) ==
  LET crt == At(crt_route, sw, 0) IN
  IF Len(list) = 1 THEN {Chosen(list, 1, crt, 0)}
  ELSE IF Strategy = "rr_ecmp" /\ sw[1] = 0 THEN Round(sw, list, 5)
  ELSE IF Hashes(p) \/ Strategy = "rr_ecmp"
  THEN UNION {{Chosen(list, i, crt, h) : i \in IF Strategy = "ecmp_adaptive" THEN Replaced(list, h) ELSE {h}} :
                h \in Hash(sw, p, list)}
  ELSE CASE Strategy = "rr"      -> Round(sw, list, 1)
         [] Strategy = "packet"  -> {Chosen(list, i, crt, 0) : i \in Best(list)}
         [] Strategy = "flowlet" -> {Chosen(list, i, crt, 0) : i \in Flowlet(sw, p, list)}

(***************************************************************************)
(* receivePacket, first pass: getNextHop.                                  *)
(***************************************************************************)
Receive(n) ==
  LET p == packets[n] sw == p.at dst == p.flow.dst IN
  /\ p.stage = "ingress"
  /\ IF IsLocal(sw, dst)
     THEN /\ packets' = [packets EXCEPT ![n].stage = "pipe",
                                        ![n].trail = Append(@, Egress(Access(Conf, dst), FALSE))]
          /\ UNCHANGED <<fib, hashed, flowlets, crt_route>>
     ELSE \E filled \in Filled(sw, dst) : \E c \in Choices(sw, p, filled) :
            /\ packets' = [packets EXCEPT ![n].stage = "pipe", ![n].trail = Append(@, c.list[c.port])]
            /\ fib' = (Key(sw, dst) :> c.list) @@ fib
            /\ crt_route' = IF c.crt = At(crt_route, sw, 0) THEN crt_route ELSE (sw :> c.crt) @@ crt_route
            /\ hashed' = IF c.hash = 0 THEN hashed ELSE (HashKey(sw, p) :> c.hash) @@ hashed
            /\ flowlets' = IF Strategy = "flowlet" /\ p.size = "large" /\ Len(c.list) > 1
                           THEN (<<sw, p.flow>> :> c.port) @@ flowlets ELSE flowlets

\* Second pass: the packet leaves the switching pipe for its port.
SendOn(n) ==
  /\ packets[n].stage = "pipe"
  /\ packets' = [packets EXCEPT ![n].stage = "queue"]
  /\ UNCHANGED <<fib, hashed, flowlets, crt_route>>

\* The queue and the link: the packet arrives at the next switch, or at its host.
Cross(n) ==
  /\ packets[n].stage = "queue"
  /\ LET peer == PeerOf(packets[n].trail[Len(packets[n].trail)]) IN
     packets' = [packets EXCEPT ![n].at = peer,
                                ![n].stage = IF peer = NoSwitch THEN "delivered" ELSE "ingress"]
  /\ UNCHANGED <<fib, hashed, flowlets, crt_route>>

Next ==
  \/ \E f \in Flows, path \in Pathids, size \in Sizes : Send(f, path, size)
  \/ \E n \in DOMAIN packets : Receive(n) \/ SendOn(n) \/ Cross(n)

Spec == Init /\ [][Next]_vars

TypeOK ==
  /\ \A n \in DOMAIN packets : packets[n].stage \in {"ingress", "pipe", "queue", "delivered"}
  /\ \A k \in DOMAIN fib : fib[k] # <<>>
  /\ \A k \in DOMAIN hashed : hashed[k] \in Nat \ {0}
  /\ \A k \in DOMAIN flowlets : flowlets[k] \in Nat \ {0}
  /\ \A sw \in DOMAIN crt_route : crt_route[sw] \in Nat

Trail(p) == <<Access(Conf, p.flow.src)>> \o [i \in DOMAIN p.trail |-> p.trail[i].cable]

\* Every packet follows a route get_bidir_paths lists for its hosts, to the end: the ports the
\* switches choose one by one never loop, never climb again and never miss the destination.
FollowsListedRoute ==
  \A n \in DOMAIN packets :
    LET p == packets[n] t == Trail(p) IN
    \E r \in get_bidir_paths(Conf, Network, p.flow.src, p.flow.dst) :
      /\ Len(t) <= Len(r.out) /\ t = SubSeq(r.out, 1, Len(t))
      /\ p.stage = "delivered" => t = r.out

\* Packets of a flow that are hashed and carry the same entropy take the same route.
SameEntropySameRoute ==
  \A m, n \in DOMAIN packets :
    LET p == packets[m] q == packets[n] IN
    p.flow = q.flow /\ p.path = q.path /\ (Strategy # "ecmp" => p.size = "small" /\ q.size = "small") =>
      \A i \in DOMAIN p.trail \cap DOMAIN q.trail : p.trail[i] = q.trail[i]

\* In round robin a ToR's uplinks carry the same numbers of large packets, whatever their
\* destinations, to within one.
UplinksEven ==
  \A sw \in {packets[n].at : n \in DOMAIN packets} : sw[1] = 0 =>
    LET Count(e) == Cardinality({n \in DOMAIN packets : packets[n].size = "large"
                                   /\ packets[n].trail # <<>> /\ packets[n].trail[1] = e})
    IN \A e, f \in UpPorts(sw) : Count(e) <= Count(f) + 1

\* No table sends a packet to a link that has been removed.
\* The code does not keep this: see section 3 of the README.
NoRemovedLink == \A k \in DOMAIN fib : \A i \in DOMAIN fib[k] : fib[k][i].cable \notin Removed
=============================================================================
