----------------------------- MODULE MCProgress -----------------------------
(***************************************************************************)
(* What must come about, under fairness: each run is of one component, on  *)
(* small constants. A run chooses its component at the start; the          *)
(* variables of the others are off.                                        *)
(***************************************************************************)
EXTENDS Integers, Sequences

VARIABLES
  which,  \* the component of the run, chosen at the start
  \* UecCredit
  src, snk, pacer, net, faults,
  \* Pflr
  snd, rcv, inFlight, hist,
  \* CongestionControl
  c, flight, queued, losses,
  \* RackTlp and Sleek
  s, wire, recv, lost, tick,
  \* LosslessFabric
  unsent, hostSends, hostState, port, frames, held, back, queue, outBusy, out,
  \* Spraying
  penalty, skips, at, crt, recycled, onPath, sent, marks, used, aborted, failed, debt,
  \* Rerouting
  entropy, before, stats, update, skip, bumped, quiet, congested, streak, moved, fault,
  \* SharedQueue
  classes, bytes, inUse, tokens, last, chosen, thrown, lead,
  \* TrafficMatrix
  matrix, unread, step, conns, table, targets, shots, pending, starts, done,
  \* TrafficPatterns
  call, phase, i, spots, left, srcs, dsts, taken, busy, connections,
  \* Replay
  sched, r

credit == <<src, snk, pacer, net, faults>>
pflr == <<snd, rcv, inFlight, hist>>
window == <<c, flight, queued, losses>>
timed == <<s, wire, recv, lost, tick>>
fabric == <<unsent, hostSends, hostState, port, frames, held, back, queue, outBusy, out>>
spray == <<penalty, skips, at, crt, recycled, onPath, sent, marks, used, aborted, failed, debt>>
reroute == <<entropy, before, stats, update, skip, bumped, quiet, congested, streak, moved, fault>>
shared == <<classes, bytes, inUse, tokens, last, chosen, thrown, lead>>
traffic == <<matrix, unread, step, conns, table, targets, shots, pending, starts, done>>
patterns == <<call, phase, i, spots, left, srcs, dsts, taken, busy, connections>>
replay == <<sched, r>>
vars == <<which, credit, pflr, window, timed, fabric, spray, reroute, shared, traffic, patterns, replay>>
\* The value of the variables of the components that are not of the run.
Off == "off"

-----------------------------------------------------------------------------
\* One flow twice as long as its window, one message of which is lost, or data trimmed.
Credit == INSTANCE UecCredit WITH
    Flows <- {"f1"}, NPkts <- 2, Mtu <- 3, Hdr <- 1, Quantum <- 2, MaxWnd <- 3, CreditPerPull <- 2,
    ActiveSources <- {1}, MaxRts <- 1, MaxLoss <- 1, MaxEarly <- 0

-----------------------------------------------------------------------------
\* Three packets in one slot, one of them dropped or trimmed, a change of EV, and no timeout.
Slots == INSTANCE Pflr WITH
    net <- inFlight, Scheme <- 3, NPkts <- 3, NSlots <- 1, EvSpace <- 4, Probes <- TRUE, ProbeEvery <- 9,
    RtxProbes <- TRUE, Coalescing <- TRUE, AcceptPromoted <- FALSE, Faults <- {"drop", "trim"},
    MaxFaults <- 1, MaxChange <- 1, MaxRto <- 0, MaxRts <- 0

-----------------------------------------------------------------------------
\* Two packets, one of them lost.
NSCC == INSTANCE CongestionControl WITH
    Algorithm <- "NSCC", Mtu <- 2, Bdp <- 4, MaxWnds <- {4}, Gate <- FALSE, Eta <- 1, Bytes <- 4,
    MaxLoss <- 1

-----------------------------------------------------------------------------
\* Two of four packets are lost.
Rack == INSTANCE RackTlp WITH
    net <- wire, NPkts <- 4, Window <- 3, NSub <- 1, Ports <- 1, UseRack <- TRUE, UseTlp <- TRUE,
    Delays <- {4, 6}, SubDelay <- 0, Rto <- 13, MinReo <- 1, MinPto <- 5, BaseRtt <- 4, MaxLoss <- 2
\* Two of four packets are lost.
Fast == INSTANCE Sleek WITH
    net <- wire, NPkts <- 4, Window <- 4, MaxWnd <- 4, MinOoo <- 2, Delays <- {4, 7},
    ProbeDelays <- {4, 6}, BaseRtt <- 4, Target <- 3, Rto <- 14, MaxLoss <- 2, MaxAge <- 56

-----------------------------------------------------------------------------
\* Two hosts and one output queue, which pauses for others.
Fabric == INSTANCE LosslessFabric WITH
    sending <- hostSends, send <- hostState, wire <- port, recv <- back, left <- unsent, size <- held,
    busy <- outBusy, Hosts <- {"h1", "h2"}, Outs <- {"o1"}, High <- 2, Low <- 1, MaxSize <- 5, Delay <- 1,
    Total <- 3

-----------------------------------------------------------------------------
\* Four paths, one of which is marked once.
Bitmap == INSTANCE Spraying WITH
    flight <- onPath, Algorithm <- "bitmap", NoOfPaths <- 4, MaxPenalty <- 5, Cwnd <- 2, Window <- 0,
    Warm <- 2, SkipCap <- 2, Marks <- 1, MayFail <- FALSE

-----------------------------------------------------------------------------
\* Two subflows over eight paths, two of which are bad.
RSS == INSTANCE Rerouting WITH
    Algorithm <- "RSS", Metric <- "mean", Subflows <- 2, Bits <- 1, Width <- 3, Draws <- {0, 1},
    BadPaths <- {0, 3}, BadRtt <- 4, Threshold <- 5, SkipRounds <- 2, Interval <- 2, Jitter <- 0,
    Cooldown <- 0, BaseRtt <- 0, FlowletTimeout <- 0, Rto <- 0, Rounds <- 1, LogFrequency <- 3,
    Spans <- TRUE, Timeouts <- FALSE, MaxPkts <- 1

-----------------------------------------------------------------------------
ByClass(x, y, z) == [k \in 0 .. 2 |-> <<x, y, z>>[k + 1]]

\* Packets of two classes keep arriving.
Starve == INSTANCE SharedQueue WITH
    queue <- classes, error <- thrown, used <- inUse, Ports <- {"p1"}, Sizes <- {1, 2}, TrimSize <- 0,
    Buffer <- 4, Alpha <- ByClass(<<1, 1>>, <<1, 1>>, <<1, 1>>), Weight <- ByClass(2, 3, 4),
    CapFactor <- 2, Offered <- {0, 2}, Pairs <- {}

-----------------------------------------------------------------------------
\* The files, written with the operators of TrafficMatrix.
M == INSTANCE TrafficMatrix WITH file <- matrix, phase <- step, Files <- {}, ChunkHops <- 1
\* Two flows join at a barrier, whose flow starts one more.
Join ==
  M!File({M!Flow(1, TRUE, 0, 1), M!Flow(2, TRUE, 0, 1), M!Flow(3, FALSE, 1, 2), M!Flow(4, FALSE, 2, 0),
          M!Trig(1, "barrier", 2), M!Trig(2, "oneshot", 0)}, TRUE)
\* A window of one: each flow that finishes starts the next.
Window ==
  M!File({M!Flow(1, TRUE, 0, 1), M!Flow(2, FALSE, 1, 1), M!Flow(3, FALSE, 1, 1), M!Trig(1, "multishot", 0)}, TRUE)

\* Files in every order of their lines.
Matrix == INSTANCE TrafficMatrix WITH
    file <- matrix, phase <- step, Files <- {Join, Window}, ChunkHops <- 1

-----------------------------------------------------------------------------
\* Racks of two hosts.
RackMates(n) == [h \in 0 .. n - 1 |-> {g \in 0 .. n - 1 : g \div 2 = h \div 2} \ {h}]
Conns(kind, ns) == {[kind |-> kind, conns |-> n] : n \in ns}
Spots(kind, ps, cs) == {[kind |-> kind, per |-> p, count |-> n] : p \in ps, n \in cs}
OfFour ==
  Conns("shuffle", {2}) \cup Conns("shuffle incast", {2}) \cup Conns("staggered permutation", {4})
  \cup Conns("many to many", {2}) \cup {[kind |-> "incast", per |-> 3, center |-> 1], [kind |-> "outcast", per |-> 3, center |-> 2, src |-> 0]}
  \cup Spots("hotspot", {1, 2}, {1, 2}) \cup Spots("hotspot", {4}, {1}) \cup Spots("hotspot outcast", {1}, {1, 2})
  \cup Spots("hotspot outcast", {2, 3}, {1}) \cup Spots("incast local", {1, 2, 3}, {1})

\* Patterns of every class.
FourHosts == INSTANCE TrafficPatterns WITH
    N <- 4, Calls <- OfFour, Neighbours <- RackMates(4), Crts <- {1, 2}, PerRack <- 2

-----------------------------------------------------------------------------
Operation(host, proc, kind, peer, tag, size) ==
  [host |-> host, proc |-> proc, kind |-> kind, peer |-> peer, tag |-> tag, size |-> size]
\* The operations ops with the dependencies ends (on an end) and begins (on a start).
Graph(ops, ends, begins) ==
  [n \in DOMAIN ops |->
     [host |-> ops[n].host, proc |-> ops[n].proc, kind |-> ops[n].kind, peer |-> ops[n].peer,
      tag |-> ops[n].tag, size |-> ops[n].size,
      after |-> {m \in DOMAIN ops : <<m, n>> \in ends}, begin |-> {m \in DOMAIN ops : <<m, n>> \in begins \ ends}]]
\* Every host sends to the next and receives from the last.
Ring ==
  {Graph(<<Operation(1, 0, "send", 2, 1, 1), Operation(1, 0, "recv", 3, 1, 1), Operation(1, 0, "calc", 1, 0, 1),
           Operation(2, 0, "send", 3, 1, 2), Operation(2, 0, "recv", 1, 1, 1),
           Operation(3, 0, "send", 1, 1, 1), Operation(3, 0, "recv", 2, 1, 2), Operation(3, 0, "calc", 3, 0, 2)>>,
         {<<1, 3>>, <<2, 3>>, <<5, 4>>, <<8, 7>>}, {<<1, 2>>})}
\* A message that waits for its receive, whose host is sending.
Delay ==
  {Graph(<<Operation(1, 0, "send", 2, 1, 1), Operation(1, 0, "calc", 1, 0, 1), Operation(2, 0, "send", 1, 2, 4),
           Operation(2, 0, "calc", 2, 0, 2), Operation(2, 0, "recv", 1, 1, 1), Operation(1, 0, "recv", 2, 2, 4)>>,
         {<<1, 2>>, <<4, 5>>}, {})}

\* Two traces.
Trace == INSTANCE Replay WITH
    Schedules <- Ring \cup Delay, FlowTimes <- {1, 3}, MaxLost <- 0, Strays <- FALSE

-----------------------------------------------------------------------------
\* What the modules assume of their constants holds of these.
ASSUME MCProgressAssumption ==
  /\ NSCC!CongestionAssumption /\ Rack!RackTlpAssumption /\ Fast!SleekAssumption
  /\ Bitmap!SprayingAssumption /\ RSS!ReroutingAssumption /\ Starve!SizeAssumption
  /\ Starve!ShareAssumption /\ Starve!WeightAssumption /\ Starve!PairAssumption /\ Trace!ReplayAssumption

creditRuns == {"Credit"}
pflrRuns == {"Slots"}
windowRuns == {"NSCC"}
timedRuns == {"Rack", "Fast"}
fabricRuns == {"Fabric"}
sprayRuns == {"Bitmap"}
rerouteRuns == {"RSS"}
sharedRuns == {"Starve"}
trafficRuns == {"Matrix"}
patternsRuns == {"FourHosts"}
replayRuns == {"Trace"}

Init ==
  /\ which \in creditRuns \cup pflrRuns \cup windowRuns \cup timedRuns \cup fabricRuns \cup sprayRuns \cup rerouteRuns \cup sharedRuns \cup trafficRuns \cup patternsRuns \cup replayRuns
  /\ \/ which = "Credit" /\ Credit!Init
     \/ which \notin creditRuns /\ src = Off /\ snk = Off /\ pacer = Off /\ net = Off /\ faults = Off
  /\ \/ which = "Slots" /\ Slots!Init
     \/ which \notin pflrRuns /\ snd = Off /\ rcv = Off /\ inFlight = Off /\ hist = Off
  /\ \/ which = "NSCC" /\ NSCC!Init
     \/ which \notin windowRuns /\ c = Off /\ flight = Off /\ queued = Off /\ losses = Off
  /\ \/ which = "Rack" /\ Rack!Init
     \/ which = "Fast" /\ Fast!Init
     \/ which \notin timedRuns /\ s = Off /\ wire = Off /\ recv = Off /\ lost = Off /\ tick = Off
  /\ \/ which = "Fabric" /\ Fabric!Init
     \/ which \notin fabricRuns /\ unsent = Off /\ hostSends = Off /\ hostState = Off /\ port = Off
        /\ frames = Off /\ held = Off /\ back = Off /\ queue = Off /\ outBusy = Off /\ out = Off
  /\ \/ which = "Bitmap" /\ Bitmap!Init
     \/ which \notin sprayRuns /\ penalty = Off /\ skips = Off /\ at = Off /\ crt = Off /\ recycled = Off
        /\ onPath = Off /\ sent = Off /\ marks = Off /\ used = Off /\ aborted = Off /\ failed = Off
        /\ debt = Off
  /\ \/ which = "RSS" /\ RSS!Init
     \/ which \notin rerouteRuns /\ entropy = Off /\ before = Off /\ stats = Off /\ update = Off
        /\ skip = Off /\ bumped = Off /\ quiet = Off /\ congested = Off /\ streak = Off /\ moved = Off
        /\ fault = Off
  /\ \/ which = "Starve" /\ Starve!Init
     \/ which \notin sharedRuns /\ classes = Off /\ bytes = Off /\ inUse = Off /\ tokens = Off
        /\ last = Off /\ chosen = Off /\ thrown = Off /\ lead = Off
  /\ \/ which = "Matrix" /\ Matrix!Init
     \/ which \notin trafficRuns /\ matrix = Off /\ unread = Off /\ step = Off /\ conns = Off
        /\ table = Off /\ targets = Off /\ shots = Off /\ pending = Off /\ starts = Off /\ done = Off
  /\ \/ which = "FourHosts" /\ FourHosts!Init
     \/ which \notin patternsRuns /\ call = Off /\ phase = Off /\ i = Off /\ spots = Off /\ left = Off
        /\ srcs = Off /\ dsts = Off /\ taken = Off /\ busy = Off /\ connections = Off
  /\ \/ which = "Trace" /\ Trace!Init
     \/ which \notin replayRuns /\ sched = Off /\ r = Off

Next ==
  /\ UNCHANGED which
  /\ \/ which = "Credit" /\ Credit!Next /\ UNCHANGED <<pflr, window, timed, fabric, spray, reroute, shared, traffic, patterns, replay>>
     \/ which = "Slots" /\ Slots!Next /\ UNCHANGED <<credit, window, timed, fabric, spray, reroute, shared, traffic, patterns, replay>>
     \/ which = "NSCC" /\ NSCC!Next /\ UNCHANGED <<credit, pflr, timed, fabric, spray, reroute, shared, traffic, patterns, replay>>
     \/ which = "Rack" /\ Rack!Next /\ UNCHANGED <<credit, pflr, window, fabric, spray, reroute, shared, traffic, patterns, replay>>
     \/ which = "Fast" /\ Fast!Next /\ UNCHANGED <<credit, pflr, window, fabric, spray, reroute, shared, traffic, patterns, replay>>
     \/ which = "Fabric" /\ Fabric!Next /\ UNCHANGED <<credit, pflr, window, timed, spray, reroute, shared, traffic, patterns, replay>>
     \/ which = "Bitmap" /\ Bitmap!Next /\ UNCHANGED <<credit, pflr, window, timed, fabric, reroute, shared, traffic, patterns, replay>>
     \/ which = "RSS" /\ RSS!Next /\ UNCHANGED <<credit, pflr, window, timed, fabric, spray, shared, traffic, patterns, replay>>
     \/ which = "Starve" /\ Starve!Next /\ UNCHANGED <<credit, pflr, window, timed, fabric, spray, reroute, traffic, patterns, replay>>
     \/ which = "Matrix" /\ Matrix!Next /\ UNCHANGED <<credit, pflr, window, timed, fabric, spray, reroute, shared, patterns, replay>>
     \/ which = "FourHosts" /\ FourHosts!Next /\ UNCHANGED <<credit, pflr, window, timed, fabric, spray, reroute, shared, traffic, replay>>
     \/ which = "Trace" /\ Trace!Next /\ UNCHANGED <<credit, pflr, window, timed, fabric, spray, reroute, shared, traffic, patterns>>
Spec == Init /\ [][Next]_vars
\* Fairness: what is scheduled comes about.  The event list runs the events of a sender, of a pacer
\* and of a port when their times have come, and packets that are not lost arrive; the loops of the
\* drivers go on.
Fairness ==
  /\ WF_credit(which = "Credit" /\ Credit!PacerTurn)
  /\ \A f \in {"f1"} :
       /\ WF_credit(which = "Credit" /\ Credit!Send(f))
       /\ WF_credit(which = "Credit" /\ Credit!Timeout(f))
       /\ WF_credit(which = "Credit" /\ \E m \in net : m.t \in {"data", "rts", "trim"} /\ m.from = f /\ Credit!Receive(m))
       /\ WF_credit(which = "Credit" /\ \E m \in net : m.t \in {"ack", "nack", "pull"} /\ m.to = f /\ Credit!Receive(m))
  /\ WF_pflr(which = "Slots" /\ Slots!TimeToSend)
  /\ \A psn \in 0 .. 2 : WF_pflr(which = "Slots" /\ Slots!ReceiveNack(psn))
  /\ \A ev \in 0 .. 3 : WF_pflr(which = "Slots" /\ Slots!ArriveInOrder(ev))
  /\ WF_pflr(which = "Slots" /\ \E m \in inFlight.hi : Slots!ArriveHigh(m))
  /\ WF_window(which = "NSCC" /\ NSCC!Send)
  /\ WF_window(which = "NSCC" /\ NSCC!ProcessAck /\ flight' < flight)
  /\ WF_tick((which = "Rack" /\ Rack!EventDue) \/ (which = "Fast" /\ Fast!EventDue))
  /\ WF_spray(which = "Bitmap" /\ Bitmap!Send)
  /\ WF_spray(which = "Bitmap" /\ Bitmap!ProcessEv)
  /\ WF_reroute(which = "RSS" /\ RSS!Tick)
  /\ WF_reroute(which = "RSS" /\ RSS!ProcessEv)
  /\ \A s0 \in 0 .. 1 : WF_reroute(which = "RSS" /\ RSS!ProcessEv /\ stats'[s0].pkts > stats[s0].pkts)
  /\ \A h \in {"h1", "h2"} :
       /\ WF_fabric(which = "Fabric" /\ Fabric!Start(h))
       /\ WF_fabric(which = "Fabric" /\ Fabric!Finish(h))
       /\ WF_fabric(which = "Fabric" /\ Fabric!HearFrame(h))
       /\ WF_fabric(which = "Fabric" /\ Fabric!Deliver(h, "o1"))
  /\ WF_fabric(which = "Fabric" /\ Fabric!ResumeOut("o1"))
  /\ WF_shared(which = "Starve" /\ Starve!CompleteService("p1"))
  /\ WF_traffic(which = "Matrix" /\ Matrix!Next)
  /\ WF_patterns(which = "FourHosts" /\ FourHosts!Next)
  /\ WF_replay(which = "Trace" /\ Trace!Next)
\* A paused port serves a packet, and rand() draws every order and every entropy, again and again.
Chances ==
  /\ SF_fabric(which = "Fabric" /\ Fabric!CompleteService("o1"))
  /\ \A m \in 0 .. 3 :
       SF_spray(which = "Bitmap" /\ Bitmap!Send /\ at' = [index |-> 0, mix |-> m])
  /\ \A s0 \in 0 .. 1, r0 \in 0 .. 1 :
       SF_reroute(which = "RSS" /\ RSS!ProcessEv /\ moved'[s0] = 0 /\ entropy'[s0] = RSS!Path(r0, s0))
FairSpec == Spec /\ Fairness /\ Chances

-----------------------------------------------------------------------------
(* Properties. *)

\* What is begun ends for good.  Every flow is delivered: neither zeroed speculation nor one lost
\* pull, lost request or trimmed request starves it, no cut leaves it a window it cannot use, every
\* loss is found, by PFLD without a timeout.  Every flow of a traffic matrix is run to its end, the
\* call for a pattern returns, and a replay stops, with its trace done or with the message that it
\* cannot go on.  Every packet leaves a lossless switch; once marks cease every penalised path is used
\* again; moving the worst subflow ends with paths that are alike.
Settles ==
  <>[]CASE which = "Credit" -> Credit!SendersDone
        [] which = "Slots" -> Slots!Delivered
        [] which = "NSCC" -> NSCC!Done
        [] which \in timedRuns -> s.done
        [] which = "Matrix" -> Matrix!AllDone
        [] which \in patternsRuns -> phase = "done"
        [] which = "Trace" -> Trace!Stopping
        [] which = "Fabric" -> Fabric!Drained
        [] which = "Bitmap" -> Bitmap!NonePenalised
        [] which = "RSS" -> RSS!PathsAlike
        [] OTHER -> TRUE

\* No class of a shared queue waits for ever, whatever keeps arriving in the others.
NoStarvation ==
  which = "Starve" =>
    \A k \in {0, 2} :
      []<>(which # "Starve" \/ classes["p1"][k] = <<>>)
      \/ []<><<which = "Starve" /\ Len(classes'["p1"][k]) < Len(classes["p1"][k])>>_classes
=============================================================================
