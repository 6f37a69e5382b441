----------------------------- MODULE MCControl -----------------------------
(***************************************************************************)
(* What decides which packets there are and where they go: the workload,   *)
(* the credit, the windows, the paths and the network. Each run is of one  *)
(* component, on small constants. A run chooses its component at the       *)
(* start; the variables of the others are off.                             *)
(***************************************************************************)
EXTENDS Integers, Sequences, UecCredit

VARIABLES
  which,  \* the component of the run, chosen at the start
  \* UecCredit
  sender, receiver, turns, flying, losing,
  \* CongestionControl
  c, flight, queued, losses,
  \* Spraying
  penalty, skips, at, crt, recycled, onPath, sent, marks, used, aborted, failed, debt,
  \* Rerouting
  entropy, before, stats, update, skip, bumped, quiet, congested, streak, moved, fault,
  \* FatTreeConfig
  file, conf, stage, planes,
  \* FatTreeRouting
  packets, fib, hashed, flowlets, crt_route,
  \* TrafficMatrix
  matrix, unread, step, conns, table, targets, shots, pending, starts, done,
  \* TrafficPatterns
  call, phase, i, spots, left, srcs, dsts, taken, busy, connections,
  \* Replay
  sched, r

credit == <<sender, receiver, turns, flying, losing>>
window == <<c, flight, queued, losses>>
spray == <<penalty, skips, at, crt, recycled, onPath, sent, marks, used, aborted, failed, debt>>
reroute == <<entropy, before, stats, update, skip, bumped, quiet, congested, streak, moved, fault>>
topology == <<file, conf, stage, planes>>
routing == <<packets, fib, hashed, flowlets, crt_route>>
traffic == <<matrix, unread, step, conns, table, targets, shots, pending, starts, done>>
patterns == <<call, phase, i, spots, left, srcs, dsts, taken, busy, connections>>
replay == <<sched, r>>
runVars == <<which, vars, credit, window, spray, reroute, topology, routing, traffic, patterns, replay>>
\* The value of the variables of the components that are not of the run.
Off == "off"

-----------------------------------------------------------------------------
\* Two flows share the pacer of their host, and one packet may be lost.
TwoFlows == INSTANCE UecCredit WITH
    src <- sender, snk <- receiver, pacer <- turns, net <- flying, faults <- losing,
    Flows <- {"f1", "f2"}, NPkts <- 2, Mtu <- 3, Hdr <- 1, Quantum <- 2, MaxWnd <- 3, CreditPerPull <- 2,
    ActiveSources <- {1}, MaxRts <- 0, MaxLoss <- 1, MaxEarly <- 0
\* One flow that sends an RTS when it times out.
WithRts == INSTANCE UecCredit WITH
    src <- sender, snk <- receiver, pacer <- turns, net <- flying, faults <- losing, Flows <- {"f1"},
    NPkts <- 3, Mtu <- 2, Hdr <- 1, Quantum <- 2, MaxWnd <- 2, CreditPerPull <- 1, ActiveSources <- {1},
    MaxRts <- 1, MaxLoss <- 1, MaxEarly <- 0
\* A flow twice as long as its window, of which two packets may be lost.
TwoLosses == INSTANCE UecCredit WITH
    src <- sender, snk <- receiver, pacer <- turns, net <- flying, faults <- losing, Flows <- {"f1"},
    NPkts <- 2, Mtu <- 3, Hdr <- 1, Quantum <- 2, MaxWnd <- 3, CreditPerPull <- 2, ActiveSources <- {1},
    MaxRts <- 0, MaxLoss <- 2, MaxEarly <- 0
\* One packet and its RTS: one loss and one timeout too early.
TooEarly == INSTANCE UecCredit WITH
    src <- sender, snk <- receiver, pacer <- turns, net <- flying, faults <- losing, Flows <- {"f1"},
    NPkts <- 1, Mtu <- 2, Hdr <- 1, Quantum <- 1, MaxWnd <- 2, CreditPerPull <- 1, ActiveSources <- {1},
    MaxRts <- 1, MaxLoss <- 1, MaxEarly <- 1

-----------------------------------------------------------------------------
\* Six bytes in packets of two, windows of five bytes or six.
NSCC == INSTANCE CongestionControl WITH
    Algorithm <- "NSCC", Mtu <- 2, Bdp <- 5, MaxWnds <- {5, 6}, Gate <- FALSE, Eta <- 1, Bytes <- 6,
    MaxLoss <- 1
\* Packets of one byte.
SMaRTT == INSTANCE CongestionControl WITH
    Algorithm <- "SMaRTT", Mtu <- 1, Bdp <- 5, MaxWnds <- {5, 6}, Gate <- FALSE, Eta <- 0, Bytes <- 6,
    MaxLoss <- 1
\* Eight bytes, two losses.
DCTCP == INSTANCE CongestionControl WITH
    Algorithm <- "DCTCP", Mtu <- 2, Bdp <- 5, MaxWnds <- {6, 9}, Gate <- FALSE, Eta <- 0, Bytes <- 8,
    MaxLoss <- 2

-----------------------------------------------------------------------------
\* Eight paths.
Oblivious == INSTANCE Spraying WITH
    flight <- onPath, Algorithm <- "oblivious", NoOfPaths <- 8, MaxPenalty <- 5, Cwnd <- 2, Window <- 0,
    Warm <- 0, SkipCap <- 0, Marks <- 0, MayFail <- FALSE
\* Four paths, one of which may fail.
REPS == INSTANCE Spraying WITH
    flight <- onPath, Algorithm <- "REPS", NoOfPaths <- 4, MaxPenalty <- 5, Cwnd <- 3, Window <- 3,
    Warm <- 0, SkipCap <- 0, Marks <- 1, MayFail <- TRUE
\* Recycled entropies before those of the bitmap.
Mixed == INSTANCE Spraying WITH
    flight <- onPath, Algorithm <- "mixed", NoOfPaths <- 4, MaxPenalty <- 3, Cwnd <- 3, Window <- 0,
    Warm <- 2, SkipCap <- 2, Marks <- 2, MayFail <- TRUE

-----------------------------------------------------------------------------
\* Two subflows over eight paths of which two are bad, and timeouts.
RSS == INSTANCE Rerouting WITH
    Algorithm <- "RSS", Metric <- "ecn", Subflows <- 2, Bits <- 1, Width <- 3, Draws <- {0, 1},
    BadPaths <- {0, 3}, BadRtt <- 4, Threshold <- 5, SkipRounds <- 2, Interval <- 2, Jitter <- 0,
    Cooldown <- 2, BaseRtt <- 2, FlowletTimeout <- 1, Rto <- 2, Rounds <- 1, LogFrequency <- 3,
    Spans <- FALSE, Timeouts <- TRUE, MaxPkts <- 1
\* No path is bad enough to move: only timeouts move a subflow.
RSSGap == INSTANCE Rerouting WITH
    Algorithm <- "RSS", Metric <- "mean", Subflows <- 2, Bits <- 1, Width <- 3, Draws <- {0, 1},
    BadPaths <- {0, 3}, BadRtt <- 4, Threshold <- 1000, SkipRounds <- 0, Interval <- 3, Jitter <- 1,
    Cooldown <- 2, BaseRtt <- 2, FlowletTimeout <- 1, Rto <- 3, Rounds <- 1, LogFrequency <- 3,
    Spans <- FALSE, Timeouts <- TRUE, MaxPkts <- 1
\* Three subflows.
USS == INSTANCE Rerouting WITH
    Algorithm <- "USS", Metric <- "mean", Subflows <- 3, Bits <- 2, Width <- 3, Draws <- {0, 1},
    BadPaths <- {0, 3}, BadRtt <- 4, Threshold <- 5, SkipRounds <- 0, Interval <- 1, Jitter <- 0,
    Cooldown <- 0, BaseRtt <- 0, FlowletTimeout <- 0, Rto <- 0, Rounds <- 1, LogFrequency <- 2,
    Spans <- FALSE, Timeouts <- FALSE, MaxPkts <- 3
\* One flow that moves after a congested round.
FlowBender == INSTANCE Rerouting WITH
    Algorithm <- "FlowBender", Metric <- "mean", Subflows <- 1, Bits <- 1, Width <- 3,
    Draws <- {0, 1, 2, 3}, BadPaths <- {0, 2}, BadRtt <- 4, Threshold <- 5, SkipRounds <- 0,
    Interval <- 1, Jitter <- 0, Cooldown <- 0, BaseRtt <- 2, FlowletTimeout <- 1, Rto <- 3, Rounds <- 1,
    LogFrequency <- 3, Spans <- FALSE, Timeouts <- FALSE, MaxPkts <- 2
\* One flow that moves after a gap.
Flowlet == INSTANCE Rerouting WITH
    Algorithm <- "flowlet", Metric <- "mean", Subflows <- 1, Bits <- 1, Width <- 3, Draws <- {0, 1, 2, 3},
    BadPaths <- {0, 2}, BadRtt <- 4, Threshold <- 5, SkipRounds <- 0, Interval <- 1, Jitter <- 0,
    Cooldown <- 0, BaseRtt <- 2, FlowletTimeout <- 1, Rto <- 3, Rounds <- 1, LogFrequency <- 3,
    Spans <- FALSE, Timeouts <- FALSE, MaxPkts <- 2

-----------------------------------------------------------------------------
\* Topology files of three tiers.
ThreeTiers == INSTANCE FatTreeConfig WITH
    Planes <- 1, Default <- FALSE, TierCounts <- {3}, NodeCounts <- {4, 8}, PodSizes <- {2, 4},
    Speeds <- {1, 2}, DownRadices <- {1, 2, 4}, UpRadices <- {1, 2}, Oversubs <- {1, 2},
    Bundles <- {1, 2}, Queues <- {0}, QueueSize <- 3, Links <- {1}, Switchings <- {2}, Modes <- {"sym"}
\* Topology files of two tiers.
TwoTiers == INSTANCE FatTreeConfig WITH
    Planes <- 1, Default <- FALSE, TierCounts <- {2}, NodeCounts <- {4}, PodSizes <- {4}, Speeds <- {1},
    DownRadices <- {1, 2, 4}, UpRadices <- {1, 2}, Oversubs <- {1, 2}, Bundles <- {1, 2}, Queues <- {0},
    QueueSize <- 3, Links <- {1}, Switchings <- {0, 1, 2}, Modes <- {"sym", "all", "single"}
\* Three planes from the command line.
NoFile == INSTANCE FatTreeConfig WITH
    Planes <- 3, Default <- TRUE, TierCounts <- {3}, NodeCounts <- {2, 8}, PodSizes <- {2, 4},
    Speeds <- {1, 2}, DownRadices <- {1, 2, 4}, UpRadices <- {1, 2}, Oversubs <- {1, 2},
    Bundles <- {1, 2}, Queues <- {0}, QueueSize <- 3, Links <- {1, 2, 3}, Switchings <- {0, 1, 2},
    Modes <- {"sym"}

-----------------------------------------------------------------------------
Tree == INSTANCE FatTree
Tiers(n, nodes, podsize, down, up, bundle) ==
  [tiers |-> n, nodes |-> nodes, podsize |-> podsize,
   down |-> [t \in 0 .. 2 |-> down[t + 1]], up |-> [t \in 0 .. 1 |-> up[t + 1]],
   bundle |-> [t \in 0 .. 2 |-> bundle[t + 1]], oversub |-> [t \in 0 .. 2 |-> 1],
   speed |-> [t \in 0 .. 2 |-> 1], link |-> [t \in 0 .. 2 |-> 1], switch |-> [t \in 0 .. 2 |-> 0],
   hop |-> 0, switching |-> 0]
\* Two ToRs of two hosts under two aggregation switches.
LeafSpine == Tiers(2, 4, 4, <<2, 2, 0>>, <<2, 0>>, <<1, 1, 1>>)
LeafSpineShape == Tree!CustomShape(LeafSpine)
\* Sixteen hosts in four pods.
FourPods == Tiers(3, 16, 4, <<2, 2, 4>>, <<2, 2>>, <<1, 1, 1>>)
FourPodsShape == Tree!CustomShape(FourPods)
\* Two pods of one ToR and one aggregation switch, joined by bundles of two links.
Bundles == Tiers(3, 4, 2, <<2, 2, 4>>, <<2, 2>>, <<1, 2, 2>>)
BundlesShape == Tree!CustomShape(Bundles)
FromTo(pairs) == {[src |-> p[1], dst |-> p[2]] : p \in pairs}

\* Two packets on their way, to the far end and within the pod.
Ecmp == INSTANCE FatTreeRouting WITH
    Conf <- FourPods, Network <- FourPodsShape, Flows <- FromTo({<<0, 15>>, <<0, 3>>}), Pathids <- {0, 1},
    Sizes <- {"small"}, Strategy <- "ecmp", MaxPackets <- 2, MaxInFlight <- 2, Removed <- {}
\* Bundles of links, chosen by the length of their queues.
Adaptive == INSTANCE FatTreeRouting WITH
    Conf <- Bundles, Network <- BundlesShape, Flows <- FromTo({<<0, 3>>}), Pathids <- {0},
    Sizes <- {"large"}, Strategy <- "ecmp_adaptive", MaxPackets <- 1, MaxInFlight <- 1, Removed <- {}
\* Small packets are hashed, large ones drawn.
PerPacket == INSTANCE FatTreeRouting WITH
    Conf <- LeafSpine, Network <- LeafSpineShape, Flows <- FromTo({<<0, 2>>, <<1, 3>>}), Pathids <- {0},
    Sizes <- {"small", "large"}, Strategy <- "packet", MaxPackets <- 2, MaxInFlight <- 2, Removed <- {}
\* Flows keep their port until a gap.
PerFlowlet == INSTANCE FatTreeRouting WITH
    Conf <- LeafSpine, Network <- LeafSpineShape, Flows <- FromTo({<<0, 2>>, <<1, 3>>}), Pathids <- {0},
    Sizes <- {"small", "large"}, Strategy <- "flowlet", MaxPackets <- 2, MaxInFlight <- 2, Removed <- {}
\* Four packets in turn, two of them on their way.
RoundRobin == INSTANCE FatTreeRouting WITH
    Conf <- LeafSpine, Network <- LeafSpineShape, Flows <- FromTo({<<0, 2>>, <<1, 3>>}), Pathids <- {0},
    Sizes <- {"large"}, Strategy <- "rr", MaxPackets <- 4, MaxInFlight <- 2, Removed <- {}
\* Twelve packets in turn.
RoundRobinEcmp == INSTANCE FatTreeRouting WITH
    Conf <- LeafSpine, Network <- LeafSpineShape, Flows <- FromTo({<<0, 3>>}), Pathids <- {0},
    Sizes <- {"large"}, Strategy <- "rr_ecmp", MaxPackets <- 12, MaxInFlight <- 1, Removed <- {}

-----------------------------------------------------------------------------
\* The files, written with the operators of TrafficMatrix.
M == INSTANCE TrafficMatrix WITH file <- matrix, phase <- step, Files <- {}, ChunkHops <- 1
\* Two flows join at a barrier, whose flow starts two more at once.
Join ==
  M!File({M!Flow(1, TRUE, 0, 1), M!Flow(2, TRUE, 0, 1), M!Flow(3, FALSE, 1, 2), M!Flow(4, FALSE, 2, 0),
          M!Flow(5, FALSE, 2, 0), M!Trig(1, "barrier", 2), M!Trig(2, "oneshot", 0)}, TRUE)
\* A window of two: each flow that finishes starts the next.
Window ==
  M!File({M!Flow(1, TRUE, 0, 1), M!Flow(2, TRUE, 0, 1), M!Flow(3, FALSE, 1, 1), M!Flow(4, FALSE, 1, 1),
          M!Flow(5, FALSE, 1, 1), M!Trig(1, "multishot", 0)}, TRUE)
\* A trigger without a type, a flow that nothing starts, a trigger defined twice, one that is used
\* and not defined, and a header that counts too few flows.
Wrong ==
  {M!File({M!Flow(1, TRUE, 0, 0), M!Flow(2, FALSE, 1, 0)}, FALSE), M!File({M!Flow(1, FALSE, 0, 0)}, FALSE),
   M!File({M!Flow(1, TRUE, 0, 0), M!Trig(1, "oneshot", 0), M!Trig(1, "barrier", 1)}, FALSE),
   M!File({M!Flow(1, TRUE, 0, 7)}, FALSE), [Join EXCEPT !.connections = 2, !.valid = FALSE]}

\* Files in every order of their lines.
Matrix == INSTANCE TrafficMatrix WITH
    file <- matrix, phase <- step, Files <- {Join, Window} \cup Wrong, ChunkHops <- 1
\* The file of an all-reduce of three ranks.
AllReduce == INSTANCE TrafficMatrix WITH
    file <- matrix, phase <- step, Files <- {M!AllReduce(3, 1)}, ChunkHops <- 4

-----------------------------------------------------------------------------
\* Racks of two hosts.
RackMates(n) == [h \in 0 .. n - 1 |-> {g \in 0 .. n - 1 : g \div 2 = h \div 2} \ {h}]
Conns(kind, ns) == {[kind |-> kind, conns |-> n] : n \in ns}
Spots(kind, ps, cs) == {[kind |-> kind, per |-> p, count |-> n] : p \in ps, n \in cs}
OfFive ==
  Conns("shuffle", {2, 5}) \cup Conns("shuffle incast", {1, 2, 5}) \cup Conns("staggered permutation", {5})
  \cup Conns("stride", {5}) \cup Conns("many to many", {2, 3, 5}) \cup Conns("local", {5})
OfFour ==
  Conns("permutation", {2, 4}) \cup Conns("in turn", {4}) \cup Conns("random", {2})
  \cup Conns("staggered random", {2}) \cup Conns("vl2", {1})
  \cup {[kind |-> "incast", per |-> 3, center |-> 1], [kind |-> "outcast", per |-> 3, center |-> 2, src |-> 0]}
  \cup Spots("hotspot", {1, 2}, {1, 2}) \cup Spots("hotspot", {4}, {1}) \cup Spots("hotspot outcast", {1}, {1, 2})
  \cup Spots("hotspot outcast", {2, 3}, {1}) \cup Spots("incast local", {1, 2, 3}, {1})

\* The patterns that need no second draw.
FiveHosts == INSTANCE TrafficPatterns WITH
    N <- 5, Calls <- OfFive, Neighbours <- RackMates(5), Crts <- {1, 2}, PerRack <- 2
\* Those that draw again, and those of one or two destinations.
FourHosts == INSTANCE TrafficPatterns WITH
    N <- 4, Calls <- OfFour, Neighbours <- RackMates(4), Crts <- {1, 2}, PerRack <- 2

-----------------------------------------------------------------------------
Operation(host, proc, kind, peer, tag, size) ==
  [host |-> host, proc |-> proc, kind |-> kind, peer |-> peer, tag |-> tag, size |-> size]
\* The operations ops with the dependencies ends (on an end) and begins (on a start).
Graph(ops, ends, begins) ==
  [n \in DOMAIN ops |->
     [host |-> ops[n].host, proc |-> ops[n].proc, kind |-> ops[n].kind, peer |-> ops[n].peer,
      tag |-> ops[n].tag, size |-> ops[n].size,
      after |-> {m \in DOMAIN ops : <<m, n>> \in ends}, begin |-> {m \in DOMAIN ops : <<m, n>> \in begins \ ends}]]
Graphs(ops, ends, begins) == {Graph(ops, e, b) : e \in SUBSET ends, b \in SUBSET begins}
\* Two messages of one channel, with work before and after.
Pair ==
  Graphs(<<Operation(1, 0, "calc", 1, 0, 2), Operation(1, 0, "send", 2, 1, 1), Operation(1, 0, "send", 2, 1, 2),
           Operation(2, 0, "recv", 1, 1, 1), Operation(2, 1, "recv", 1, 1, 2), Operation(2, 0, "calc", 2, 0, 3),
           Operation(2, 0, "calc", 2, 0, 2)>>,
         {<<1, 2>>, <<2, 3>>, <<4, 6>>}, {<<2, 3>>, <<4, 5>>})
\* Every host sends to the next and receives from the last.
Ring ==
  Graphs(<<Operation(1, 0, "send", 2, 1, 1), Operation(1, 0, "recv", 3, 1, 1), Operation(1, 0, "calc", 1, 0, 1),
           Operation(2, 0, "send", 3, 1, 2), Operation(2, 0, "recv", 1, 1, 1),
           Operation(3, 0, "send", 1, 1, 1), Operation(3, 0, "recv", 2, 1, 2), Operation(3, 0, "calc", 3, 0, 2)>>,
         {<<1, 3>>, <<2, 3>>, <<5, 4>>, <<8, 7>>}, {<<1, 2>>})
\* A message that waits for its receive, whose host is sending.
Delay ==
  {Graph(<<Operation(1, 0, "send", 2, 1, 1), Operation(1, 0, "calc", 1, 0, 1), Operation(2, 0, "send", 1, 2, 4),
           Operation(2, 0, "calc", 2, 0, 2), Operation(2, 0, "recv", 1, 1, 1), Operation(1, 0, "recv", 2, 2, 4)>>,
         {<<1, 2>>, <<4, 5>>}, {})}

\* Every choice of dependencies of two traces.
Trace == INSTANCE Replay WITH
    Schedules <- Pair \cup Ring, FlowTimes <- {1, 3}, MaxLost <- 0, Strays <- FALSE
\* Events of the network fall on the instant of an end.
Stray == INSTANCE Replay WITH
    Schedules <- Pair \cup Ring \cup Delay, FlowTimes <- {1, 3}, MaxLost <- 0, Strays <- TRUE

-----------------------------------------------------------------------------
\* What the modules assume of their constants holds of these.
ASSUME MCControlAssumption ==
  /\ NSCC!CongestionAssumption /\ SMaRTT!CongestionAssumption /\ DCTCP!CongestionAssumption
  /\ Oblivious!SprayingAssumption /\ REPS!SprayingAssumption /\ Mixed!SprayingAssumption
  /\ RSS!ReroutingAssumption /\ RSSGap!ReroutingAssumption /\ USS!ReroutingAssumption
  /\ FlowBender!ReroutingAssumption /\ Flowlet!ReroutingAssumption /\ ThreeTiers!ConfigAssumption
  /\ TwoTiers!ConfigAssumption /\ NoFile!ConfigAssumption /\ Ecmp!RoutingAssumption
  /\ Adaptive!RoutingAssumption /\ PerPacket!RoutingAssumption /\ PerFlowlet!RoutingAssumption
  /\ RoundRobin!RoutingAssumption /\ RoundRobinEcmp!RoutingAssumption /\ Trace!ReplayAssumption
  /\ Stray!ReplayAssumption

creditRuns == {"TwoFlows", "WithRts", "TwoLosses", "TooEarly"}
windowRuns == {"NSCC", "SMaRTT", "DCTCP"}
sprayRuns == {"Oblivious", "REPS", "Mixed"}
rerouteRuns == {"RSS", "RSSGap", "USS", "FlowBender", "Flowlet"}
topologyRuns == {"ThreeTiers", "TwoTiers", "NoFile"}
routingRuns == {"Ecmp", "Adaptive", "PerPacket", "PerFlowlet", "RoundRobin", "RoundRobinEcmp"}
trafficRuns == {"Matrix", "AllReduce"}
patternsRuns == {"FiveHosts", "FourHosts"}
replayRuns == {"Trace", "Stray"}

\* The run of UecCredit, of which this module checks the properties too: one flow four times as long as
\* its window, of which one packet may be lost. Its variables keep their first values in the other
\* runs.
RunInit ==
  /\ which \in {"OneFlow"} \cup creditRuns \cup windowRuns \cup sprayRuns \cup rerouteRuns \cup topologyRuns \cup routingRuns \cup trafficRuns \cup patternsRuns \cup replayRuns
  /\ Init
  /\ \/ which = "TwoFlows" /\ TwoFlows!Init
     \/ which = "WithRts" /\ WithRts!Init
     \/ which = "TwoLosses" /\ TwoLosses!Init
     \/ which = "TooEarly" /\ TooEarly!Init
     \/ which \notin creditRuns /\ sender = Off /\ receiver = Off /\ turns = Off /\ flying = Off
        /\ losing = Off
  /\ \/ which = "NSCC" /\ NSCC!Init
     \/ which = "SMaRTT" /\ SMaRTT!Init
     \/ which = "DCTCP" /\ DCTCP!Init
     \/ which \notin windowRuns /\ c = Off /\ flight = Off /\ queued = Off /\ losses = Off
  /\ \/ which = "Oblivious" /\ Oblivious!Init
     \/ which = "REPS" /\ REPS!Init
     \/ which = "Mixed" /\ Mixed!Init
     \/ which \notin sprayRuns /\ penalty = Off /\ skips = Off /\ at = Off /\ crt = Off /\ recycled = Off
        /\ onPath = Off /\ sent = Off /\ marks = Off /\ used = Off /\ aborted = Off /\ failed = Off
        /\ debt = Off
  /\ \/ which = "RSS" /\ RSS!Init
     \/ which = "RSSGap" /\ RSSGap!Init
     \/ which = "USS" /\ USS!Init
     \/ which = "FlowBender" /\ FlowBender!Init
     \/ which = "Flowlet" /\ Flowlet!Init
     \/ which \notin rerouteRuns /\ entropy = Off /\ before = Off /\ stats = Off /\ update = Off
        /\ skip = Off /\ bumped = Off /\ quiet = Off /\ congested = Off /\ streak = Off /\ moved = Off
        /\ fault = Off
  /\ \/ which = "ThreeTiers" /\ ThreeTiers!Init
     \/ which = "TwoTiers" /\ TwoTiers!Init
     \/ which = "NoFile" /\ NoFile!Init
     \/ which \notin topologyRuns /\ file = Off /\ conf = Off /\ stage = Off /\ planes = Off
  /\ \/ which = "Ecmp" /\ Ecmp!Init
     \/ which = "Adaptive" /\ Adaptive!Init
     \/ which = "PerPacket" /\ PerPacket!Init
     \/ which = "PerFlowlet" /\ PerFlowlet!Init
     \/ which = "RoundRobin" /\ RoundRobin!Init
     \/ which = "RoundRobinEcmp" /\ RoundRobinEcmp!Init
     \/ which \notin routingRuns /\ packets = Off /\ fib = Off /\ hashed = Off /\ flowlets = Off
        /\ crt_route = Off
  /\ \/ which = "Matrix" /\ Matrix!Init
     \/ which = "AllReduce" /\ AllReduce!Init
     \/ which \notin trafficRuns /\ matrix = Off /\ unread = Off /\ step = Off /\ conns = Off
        /\ table = Off /\ targets = Off /\ shots = Off /\ pending = Off /\ starts = Off /\ done = Off
  /\ \/ which = "FiveHosts" /\ FiveHosts!Init
     \/ which = "FourHosts" /\ FourHosts!Init
     \/ which \notin patternsRuns /\ call = Off /\ phase = Off /\ i = Off /\ spots = Off /\ left = Off
        /\ srcs = Off /\ dsts = Off /\ taken = Off /\ busy = Off /\ connections = Off
  /\ \/ which = "Trace" /\ Trace!Init
     \/ which = "Stray" /\ Stray!Init
     \/ which \notin replayRuns /\ sched = Off /\ r = Off

RunNext ==
  /\ UNCHANGED which
  /\ \/ which = "OneFlow" /\ Next /\ UNCHANGED <<credit, window, spray, reroute, topology, routing, traffic, patterns, replay>>
     \/ which = "TwoFlows" /\ TwoFlows!Next /\ UNCHANGED <<vars, window, spray, reroute, topology, routing, traffic, patterns, replay>>
     \/ which = "WithRts" /\ WithRts!Next /\ UNCHANGED <<vars, window, spray, reroute, topology, routing, traffic, patterns, replay>>
     \/ which = "TwoLosses" /\ TwoLosses!Next /\ UNCHANGED <<vars, window, spray, reroute, topology, routing, traffic, patterns, replay>>
     \/ which = "TooEarly" /\ TooEarly!Next /\ UNCHANGED <<vars, window, spray, reroute, topology, routing, traffic, patterns, replay>>
     \/ which = "NSCC" /\ NSCC!Next /\ UNCHANGED <<vars, credit, spray, reroute, topology, routing, traffic, patterns, replay>>
     \/ which = "SMaRTT" /\ SMaRTT!Next /\ UNCHANGED <<vars, credit, spray, reroute, topology, routing, traffic, patterns, replay>>
     \/ which = "DCTCP" /\ DCTCP!Next /\ UNCHANGED <<vars, credit, spray, reroute, topology, routing, traffic, patterns, replay>>
     \/ which = "Oblivious" /\ Oblivious!Next /\ UNCHANGED <<vars, credit, window, reroute, topology, routing, traffic, patterns, replay>>
     \/ which = "REPS" /\ REPS!Next /\ UNCHANGED <<vars, credit, window, reroute, topology, routing, traffic, patterns, replay>>
     \/ which = "Mixed" /\ Mixed!Next /\ UNCHANGED <<vars, credit, window, reroute, topology, routing, traffic, patterns, replay>>
     \/ which = "RSS" /\ RSS!Next /\ UNCHANGED <<vars, credit, window, spray, topology, routing, traffic, patterns, replay>>
     \/ which = "RSSGap" /\ RSSGap!Next /\ UNCHANGED <<vars, credit, window, spray, topology, routing, traffic, patterns, replay>>
     \/ which = "USS" /\ USS!Next /\ UNCHANGED <<vars, credit, window, spray, topology, routing, traffic, patterns, replay>>
     \/ which = "FlowBender" /\ FlowBender!Next /\ UNCHANGED <<vars, credit, window, spray, topology, routing, traffic, patterns, replay>>
     \/ which = "Flowlet" /\ Flowlet!Next /\ UNCHANGED <<vars, credit, window, spray, topology, routing, traffic, patterns, replay>>
     \/ which = "ThreeTiers" /\ ThreeTiers!Next /\ UNCHANGED <<vars, credit, window, spray, reroute, routing, traffic, patterns, replay>>
     \/ which = "TwoTiers" /\ TwoTiers!Next /\ UNCHANGED <<vars, credit, window, spray, reroute, routing, traffic, patterns, replay>>
     \/ which = "NoFile" /\ NoFile!Next /\ UNCHANGED <<vars, credit, window, spray, reroute, routing, traffic, patterns, replay>>
     \/ which = "Ecmp" /\ Ecmp!Next /\ UNCHANGED <<vars, credit, window, spray, reroute, topology, traffic, patterns, replay>>
     \/ which = "Adaptive" /\ Adaptive!Next /\ UNCHANGED <<vars, credit, window, spray, reroute, topology, traffic, patterns, replay>>
     \/ which = "PerPacket" /\ PerPacket!Next /\ UNCHANGED <<vars, credit, window, spray, reroute, topology, traffic, patterns, replay>>
     \/ which = "PerFlowlet" /\ PerFlowlet!Next /\ UNCHANGED <<vars, credit, window, spray, reroute, topology, traffic, patterns, replay>>
     \/ which = "RoundRobin" /\ RoundRobin!Next /\ UNCHANGED <<vars, credit, window, spray, reroute, topology, traffic, patterns, replay>>
     \/ which = "RoundRobinEcmp" /\ RoundRobinEcmp!Next /\ UNCHANGED <<vars, credit, window, spray, reroute, topology, traffic, patterns, replay>>
     \/ which = "Matrix" /\ Matrix!Next /\ UNCHANGED <<vars, credit, window, spray, reroute, topology, routing, patterns, replay>>
     \/ which = "AllReduce" /\ AllReduce!Next /\ UNCHANGED <<vars, credit, window, spray, reroute, topology, routing, patterns, replay>>
     \/ which = "FiveHosts" /\ FiveHosts!Next /\ UNCHANGED <<vars, credit, window, spray, reroute, topology, routing, traffic, replay>>
     \/ which = "FourHosts" /\ FourHosts!Next /\ UNCHANGED <<vars, credit, window, spray, reroute, topology, routing, traffic, replay>>
     \/ which = "Trace" /\ Trace!Next /\ UNCHANGED <<vars, credit, window, spray, reroute, topology, routing, traffic, patterns>>
     \/ which = "Stray" /\ Stray!Next /\ UNCHANGED <<vars, credit, window, spray, reroute, topology, routing, traffic, patterns>>
RunSpec == RunInit /\ [][RunNext]_runVars

-----------------------------------------------------------------------------
(* Properties.  Each says of a run what the modules of the components state under the names used;
   those of UecCredit are checked as they are. *)

\* Flows that share a pacer get credit as one does, and no single loss or early timeout strands one.
\* No sequence of cuts, losses and measurements leaves a window that admits no packet or a phase that
\* never ends; spraying uses every path before it uses one again, and a failed path no more often than
\* what it was told vouches for; a move counts for its subflow and is not made too soon.
WindowsAndPaths ==
  /\ which = "TwoFlows" =>
       /\ TwoFlows!TypeOK /\ TwoFlows!ActiveListAgrees /\ TwoFlows!PacerAwake
       /\ TwoFlows!Bank /\ TwoFlows!DemandBounded /\ TwoFlows!StrandedByTwoFaults
  /\ which = "WithRts" =>
       /\ WithRts!TypeOK /\ WithRts!ActiveListAgrees /\ WithRts!PacerAwake
       /\ WithRts!Bank /\ WithRts!DemandBounded /\ WithRts!StrandedByTwoFaults
  /\ which = "TwoLosses" => TwoLosses!Bank /\ TwoLosses!DemandBounded /\ TwoLosses!StrandedByTwoFaults
  /\ which = "TooEarly" => TooEarly!Bank /\ TooEarly!DemandBounded /\ TooEarly!StrandedByTwoFaults
  /\ which = "NSCC" => NSCC!TypeOK /\ NSCC!WindowAdmits /\ NSCC!IgnoreCovered
  /\ which = "SMaRTT" => SMaRTT!IgnoreCovered
  /\ which = "DCTCP" => DCTCP!WindowAdmits
  /\ which = "Oblivious" => Oblivious!EveryPathOnce
  /\ which = "REPS" => REPS!StaleUsesBounded
  /\ which = "Mixed" => Mixed!TypeOK /\ Mixed!StaleUsesBounded
  /\ which = "RSS" => RSS!TypeOK /\ RSS!Attributed /\ RSS!UnheardIsClean
  /\ which = "USS" => USS!Attributed /\ USS!UnheardIsClean
  /\ which = "RSSGap" => RSSGap!NoThrashing
  /\ which = "FlowBender" => FlowBender!NoThrashing /\ FlowBender!MovesWhenCongested
  /\ which = "Flowlet" => Flowlet!NoThrashing

\* An accepted topology has the cables its radices say, the same in each plane, every listed route
\* uses cables that exist and has the latency that is told of it; the ports the switches choose one by
\* one make up a listed route, the same for the same entropy, and in turn where they go in turn.
RoutesAreListed ==
  /\ which = "ThreeTiers" =>
       /\ ThreeTiers!TypeOK /\ ThreeTiers!RadicesHonoured /\ ThreeTiers!EveryHostWired
       /\ ThreeTiers!RoutesExist /\ ThreeTiers!LatencyIsExact
  /\ which = "TwoTiers" => TwoTiers!RadicesHonoured /\ TwoTiers!RoutesExist /\ TwoTiers!LatencyIsExact
  /\ which = "NoFile" => NoFile!EveryHostWired /\ NoFile!RoutesExist /\ NoFile!PlanesAlike /\ NoFile!EveryPlaneBuilt
  /\ which = "Ecmp" => Ecmp!TypeOK /\ Ecmp!FollowsListedRoute /\ Ecmp!SameEntropySameRoute
  /\ which = "Adaptive" => Adaptive!FollowsListedRoute
  /\ which = "PerPacket" => PerPacket!FollowsListedRoute /\ PerPacket!SameEntropySameRoute
  /\ which = "PerFlowlet" => PerFlowlet!FollowsListedRoute /\ PerFlowlet!SameEntropySameRoute
  /\ which = "RoundRobin" => RoundRobin!FollowsListedRoute /\ RoundRobin!UplinksEven
  /\ which = "RoundRobinEcmp" => RoundRobinEcmp!FollowsListedRoute /\ RoundRobinEcmp!UplinksEven

\* A workload is what was asked for.  In whatever order the lines of a file come, a flow starts once
\* and not before what its trigger waits for; a pattern has the destinations and the numbers of
\* senders asked for; an operation of a trace starts only when those it depends on have ended or
\* started, the counts that keep the replay going are those of what is still to end, a message and its
\* receive never wait for each other, and when the replay ends every operation has been carried out.
WorkloadFaithful ==
  /\ which = "Matrix" => Matrix!TypeOK /\ Matrix!LoadFaithful /\ Matrix!StartsOnce /\ Matrix!Caused
  /\ which = "AllReduce" => AllReduce!HopsInOrder
  /\ which = "FiveHosts" => FiveHosts!OneToOne /\ FiveHosts!NoneToSelf /\ FiveHosts!OneIdleDestination
  /\ which = "FourHosts" =>
       /\ FourHosts!TypeOK /\ FourHosts!OneToOne /\ FourHosts!SpotsShared
       /\ FourHosts!RackServed /\ FourHosts!OutcastReaches
  /\ which = "Trace" =>
       /\ Trace!TypeOK /\ Trace!DependenciesKept /\ Trace!CountsAgree /\ Trace!NeverBothWait
       /\ Trace!NothingLeft /\ Trace!TakenOnTime
  /\ which = "Stray" => Stray!DependenciesKept /\ Stray!CountsAgree /\ Stray!NeverBothWait /\ Stray!NothingLeft
=============================================================================
