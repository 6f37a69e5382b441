------------------------------ MODULE MCQueues ------------------------------
(***************************************************************************)
(* The queues: each run is of one component, on small constants. A run     *)
(* chooses its component at the start; the variables of the others are     *)
(* off.                                                                    *)
(***************************************************************************)
EXTENDS Integers, Sequences, LosslessFabric

VARIABLES
  which,  \* the component of the run, chosen at the start
  \* CompositeQueue
  mode, hi, lo, bytesHi, bytesLo, serv, crt, counts, fate, marked, sentLo, bypass,
  \* OutputQueues
  kind, high, low, highBytes, lowBytes, serving, started, turn, lens, longest, seen, fault, fates,
  passedBy,
  \* PausableQueue
  waiting, current, inService, servicing, events, state, failed, told, late, passed,
  \* LosslessSwitch
  portSize, portSend, portRecv, crashed,
  \* SharedQueue
  classes, bytes, used, tokens, last, chosen, thrown, lead,
  \* PullQueues
  pullKind, line, lists, known, turns, pulls, nprio, issued, ahead,
  \* CircularBuffer
  slots, nextPush, nextPop, count,
  \* QueueMonitor
  now, spans, busyTime, updated, band, sent, fresh

composite == <<mode, hi, lo, bytesHi, bytesLo, serv, crt, counts, fate, marked, sentLo, bypass>>
output == <<kind, high, low, highBytes, lowBytes, serving, started, turn, lens, longest, seen, fault,
            fates, passedBy>>
pausable == <<waiting, current, inService, servicing, events, state, failed, told, late, passed>>
switch == <<portSize, portSend, portRecv, crashed>>
shared == <<classes, bytes, used, tokens, last, chosen, thrown, lead>>
pull == <<pullKind, line, lists, known, turns, pulls, nprio, issued, ahead>>
ring == <<slots, nextPush, nextPop, count>>
monitor == <<now, spans, busyTime, updated, band, sent, fresh>>
runVars == <<which, vars, composite, output, pausable, switch, shared, pull, ring, monitor>>
\* The value of the variables of the components that are not of the run.
Off == "off"

-----------------------------------------------------------------------------
\* Switches trim, or drop what they have no room for; a mode with RTS packets bounces them.
Modes ==
  {m \in [disable : BOOLEAN, lowTrim : BOOLEAN, keepLow : BOOLEAN, probeHigh : BOOLEAN, rts : BOOLEAN] :
     IF m.disable THEN ~m.rts ELSE ~m.keepLow /\ ~m.lowTrim}

\* Every mode the topology builds but those with headers kept in the low list; five packets, one of
\* them lost at random.
Composite == INSTANCE CompositeQueue WITH
    Modes <- Modes, DataSizes <- {2}, ProbeSizes <- {1}, TrimSize <- 2, MayDropSize <- 2, MaxSize <- 3,
    EcnMin <- 1, EcnMax <- 2, RatioHigh <- 2, MaxPackets <- 5, MaxLost <- 1

-----------------------------------------------------------------------------
\* Every class of queue, with six packets of two sizes.
Disciplines == INSTANCE OutputQueues WITH
    hi <- high, lo <- low, bytesHi <- highBytes, bytesLo <- lowBytes, serv <- serving, crt <- turn,
    counts <- lens, error <- fault, fate <- fates, bypass <- passedBy,
    Kinds <- {"fifo", "random", "cut", "ctrl", "ecnprio", "aeolus", "path"}, Sizes <- {2, 3},
    HeaderSize <- 2, Lens <- {1}, MaxSize <- 5, SpecThresh <- 4, DropThresh <- 3, RatioHigh <- 2,
    MaxPathLen <- 4, MaxQueued <- 8, SeenAtStart <- {0}, MaxPackets <- 6
\* The classes that never drop a packet they have begun to serve.
Steady == INSTANCE OutputQueues WITH
    hi <- high, lo <- low, bytesHi <- highBytes, bytesLo <- lowBytes, serv <- serving, crt <- turn,
    counts <- lens, error <- fault, fate <- fates, bypass <- passedBy,
    Kinds <- {"fifo", "random", "cut", "ecnprio", "aeolus"}, Sizes <- {1, 2}, HeaderSize <- 1,
    Lens <- {1}, MaxSize <- 4, SpecThresh <- 3, DropThresh <- 2, RatioHigh <- 2, MaxPathLen <- 4,
    MaxQueued <- 8, SeenAtStart <- {0}, MaxPackets <- 6
\* Packets of paths of three lengths, and what an unset counter may hold.
ByPath == INSTANCE OutputQueues WITH
    hi <- high, lo <- low, bytesHi <- highBytes, bytesLo <- lowBytes, serv <- serving, crt <- turn,
    counts <- lens, error <- fault, fate <- fates, bypass <- passedBy, Kinds <- {"path"}, Sizes <- {2},
    HeaderSize <- 1, Lens <- {1, 2, 3}, MaxSize <- 6, SpecThresh <- 2, DropThresh <- 1, RatioHigh <- 2,
    MaxPathLen <- 4, MaxQueued <- 8, SeenAtStart <- {0, 4}, MaxPackets <- 5

-----------------------------------------------------------------------------
\* Three flows in two fair lists.
FairPrio == INSTANCE PausableQueue WITH
    sending <- inService, Kind <- "fair", Flows <- {1, 2, 3}, Prios <- {0, 2}, Cap <- 4, Repeats <- TRUE
\* A lossless output queue of up to twenty packets.
OneList == INSTANCE PausableQueue WITH
    sending <- inService, Kind <- "lossless", Flows <- {1}, Prios <- {0}, Cap <- 20, Repeats <- TRUE

-----------------------------------------------------------------------------
Tor(i) == [tier |-> "tor", id |-> i]
Agg(i) == [tier |-> "agg", id |-> i]
Cable(a, b) == <<[at |-> a, to |-> b], [at |-> b, to |-> a]>>
\* Two ToRs send to a third, over the first of two spines; the cables in the order of init_network.
Spines ==
  Cable(Tor(0), Agg(0)) \o Cable(Tor(0), Agg(1)) \o Cable(Tor(1), Agg(0)) \o Cable(Tor(1), Agg(1)) \o Cable(Tor(2), Agg(0))

\* Hosts stop at the threshold of their ToR.
Pfc == INSTANCE LosslessSwitch WITH
    size <- portSize, send <- portSend, recv <- portRecv, Ports <- Spines, MaxSize <- 18, Fed <- {1, 5},
    Routes <- {<<1, 10>>, <<5, 10>>}, Polite <- TRUE

-----------------------------------------------------------------------------
ByClass(a, b, c) == [k \in 0 .. 2 |-> <<a, b, c>>[k + 1]]

\* Two ports of two classes share a buffer of four bytes.
TwoPorts == INSTANCE SharedQueue WITH
    queue <- classes, error <- thrown, Ports <- {"p1", "p2"}, Sizes <- {1, 2}, TrimSize <- 1, Buffer <- 4,
    Alpha <- ByClass(<<1, 2>>, <<1, 1>>, <<1, 2>>), Weight <- ByClass(2, 2, 2), CapFactor <- 1,
    Offered <- {0, 1}, Pairs <- {}
\* Two classes of unequal weight on one port.
Weighted == INSTANCE SharedQueue WITH
    queue <- classes, error <- thrown, Ports <- {"p1"}, Sizes <- {1, 2}, TrimSize <- 0, Buffer <- 6,
    Alpha <- ByClass(<<1, 1>>, <<1, 1>>, <<1, 1>>), Weight <- ByClass(2, 3, 4), CapFactor <- 2,
    Offered <- {0, 2}, Pairs <- {<<0, 2>>, <<2, 0>>}

-----------------------------------------------------------------------------
\* Three flows of one priority.
Pulls == INSTANCE PullQueues WITH
    kind <- pullKind, current <- turns, count <- pulls, Kinds <- {"fair", "prio", "fifo"},
    Flows <- {1, 2, 3}, Prios <- {0}, Preferred <- 1, MaxPackets <- 6
\* Two flows of two priorities.
PullPrios == INSTANCE PullQueues WITH
    kind <- pullKind, current <- turns, count <- pulls, Kinds <- {"prio"}, Flows <- {1, 2},
    Prios <- {0, 1}, Preferred <- 1, MaxPackets <- 6

-----------------------------------------------------------------------------
\* A buffer of two that grows twice.
Ring == INSTANCE CircularBuffer WITH
    Value <- {"a", "b"}, StartSize <- 2, Unset <- "unset", MaxSize <- 8

-----------------------------------------------------------------------------
\* Three windows.
Monitor == INSTANCE QueueMonitor WITH
    busy <- busyTime, Window <- 4, Period <- 1, Durations <- {1, 2, 3}, MaxTime <- 12, Begin <- 4

-----------------------------------------------------------------------------
\* What the modules assume of their constants holds of these.
ASSUME MCQueuesAssumption ==
  /\ Composite!ModeAssumption /\ Composite!SizeAssumption /\ Composite!EcnAssumption
  /\ Composite!BoundAssumption /\ Disciplines!SizeAssumption /\ Disciplines!ThresholdAssumption
  /\ Steady!SizeAssumption /\ Steady!ThresholdAssumption /\ ByPath!SizeAssumption
  /\ ByPath!ThresholdAssumption /\ FairPrio!KindAssumption /\ FairPrio!ListAssumption
  /\ FairPrio!BoundAssumption /\ OneList!KindAssumption /\ OneList!ListAssumption
  /\ OneList!BoundAssumption /\ Pfc!PortAssumption /\ Pfc!RouteAssumption /\ Pfc!ThresholdAssumption
  /\ TwoPorts!SizeAssumption /\ TwoPorts!ShareAssumption /\ TwoPorts!WeightAssumption
  /\ TwoPorts!PairAssumption /\ Weighted!SizeAssumption /\ Weighted!ShareAssumption
  /\ Weighted!WeightAssumption /\ Weighted!PairAssumption /\ Pulls!FlowAssumption
  /\ PullPrios!FlowAssumption /\ Ring!StartAssumption /\ Monitor!TimeAssumption

compositeRuns == {"Composite"}
outputRuns == {"Disciplines", "Steady", "ByPath"}
pausableRuns == {"FairPrio", "OneList"}
switchRuns == {"Pfc"}
sharedRuns == {"TwoPorts", "Weighted"}
pullRuns == {"Pulls", "PullPrios"}
ringRuns == {"Ring"}
monitorRuns == {"Monitor"}

\* The run of LosslessFabric, of which this module checks the properties too: two hosts with just the
\* room that two wires need. Its variables keep their first values in the other runs.
RunInit ==
  /\ which \in {"Fabric"} \cup compositeRuns \cup outputRuns \cup pausableRuns \cup switchRuns \cup sharedRuns \cup pullRuns \cup ringRuns \cup monitorRuns
  /\ Init
  /\ \/ which = "Composite" /\ Composite!Init
     \/ which \notin compositeRuns /\ mode = Off /\ hi = Off /\ lo = Off /\ bytesHi = Off /\ bytesLo = Off
        /\ serv = Off /\ crt = Off /\ counts = Off /\ fate = Off /\ marked = Off /\ sentLo = Off
        /\ bypass = Off
  /\ \/ which = "Disciplines" /\ Disciplines!Init
     \/ which = "Steady" /\ Steady!Init
     \/ which = "ByPath" /\ ByPath!Init
     \/ which \notin outputRuns /\ kind = Off /\ high = Off /\ low = Off /\ highBytes = Off
        /\ lowBytes = Off /\ serving = Off /\ started = Off /\ turn = Off /\ lens = Off /\ longest = Off
        /\ seen = Off /\ fault = Off /\ fates = Off /\ passedBy = Off
  /\ \/ which = "FairPrio" /\ FairPrio!Init
     \/ which = "OneList" /\ OneList!Init
     \/ which \notin pausableRuns /\ waiting = Off /\ current = Off /\ inService = Off /\ servicing = Off
        /\ events = Off /\ state = Off /\ failed = Off /\ told = Off /\ late = Off /\ passed = Off
  /\ \/ which = "Pfc" /\ Pfc!Init
     \/ which \notin switchRuns /\ portSize = Off /\ portSend = Off /\ portRecv = Off /\ crashed = Off
  /\ \/ which = "TwoPorts" /\ TwoPorts!Init
     \/ which = "Weighted" /\ Weighted!Init
     \/ which \notin sharedRuns /\ classes = Off /\ bytes = Off /\ used = Off /\ tokens = Off
        /\ last = Off /\ chosen = Off /\ thrown = Off /\ lead = Off
  /\ \/ which = "Pulls" /\ Pulls!Init
     \/ which = "PullPrios" /\ PullPrios!Init
     \/ which \notin pullRuns /\ pullKind = Off /\ line = Off /\ lists = Off /\ known = Off /\ turns = Off
        /\ pulls = Off /\ nprio = Off /\ issued = Off /\ ahead = Off
  /\ \/ which = "Ring" /\ Ring!Init
     \/ which \notin ringRuns /\ slots = Off /\ nextPush = Off /\ nextPop = Off /\ count = Off
  /\ \/ which = "Monitor" /\ Monitor!Init
     \/ which \notin monitorRuns /\ now = Off /\ spans = Off /\ busyTime = Off /\ updated = Off
        /\ band = Off /\ sent = Off /\ fresh = Off

RunNext ==
  /\ UNCHANGED which
  /\ \/ which = "Fabric" /\ Next /\ UNCHANGED <<composite, output, pausable, switch, shared, pull, ring, monitor>>
     \/ which = "Composite" /\ Composite!Next /\ UNCHANGED <<vars, output, pausable, switch, shared, pull, ring, monitor>>
     \/ which = "Disciplines" /\ Disciplines!Next /\ UNCHANGED <<vars, composite, pausable, switch, shared, pull, ring, monitor>>
     \/ which = "Steady" /\ Steady!Next /\ UNCHANGED <<vars, composite, pausable, switch, shared, pull, ring, monitor>>
     \/ which = "ByPath" /\ ByPath!Next /\ UNCHANGED <<vars, composite, pausable, switch, shared, pull, ring, monitor>>
     \/ which = "FairPrio" /\ FairPrio!Next /\ UNCHANGED <<vars, composite, output, switch, shared, pull, ring, monitor>>
     \/ which = "OneList" /\ OneList!Next /\ UNCHANGED <<vars, composite, output, switch, shared, pull, ring, monitor>>
     \/ which = "Pfc" /\ Pfc!Next /\ UNCHANGED <<vars, composite, output, pausable, shared, pull, ring, monitor>>
     \/ which = "TwoPorts" /\ TwoPorts!Next /\ UNCHANGED <<vars, composite, output, pausable, switch, pull, ring, monitor>>
     \/ which = "Weighted" /\ Weighted!Next /\ UNCHANGED <<vars, composite, output, pausable, switch, pull, ring, monitor>>
     \/ which = "Pulls" /\ Pulls!Next /\ UNCHANGED <<vars, composite, output, pausable, switch, shared, ring, monitor>>
     \/ which = "PullPrios" /\ PullPrios!Next /\ UNCHANGED <<vars, composite, output, pausable, switch, shared, ring, monitor>>
     \/ which = "Ring" /\ Ring!Next /\ UNCHANGED <<vars, composite, output, pausable, switch, shared, pull, monitor>>
     \/ which = "Monitor" /\ Monitor!Next /\ UNCHANGED <<vars, composite, output, pausable, switch, shared, pull, ring>>
RunSpec == RunInit /\ [][RunNext]_runVars

-----------------------------------------------------------------------------
\* The hosts of the fabric are alike, and so are the outputs.
FabricSymmetry == Permutations(Hosts) \cup Permutations(Outs)

(* Properties.  Each says of a run what the modules of the components state under the names used;
   those of LosslessFabric are checked as they are. *)

\* A packet is in one place, and the sizes and counts kept beside the lists are those of the packets
\* in them, whatever was trimmed, dropped, replaced, pushed out or flushed; no list, counter or bucket
\* of tokens passes its limit, a lossless switch drops nothing, and the share of time a queue reports
\* to have been busy is that of its transmissions.
Accounted ==
  /\ which = "Composite" => Composite!TypeOK /\ Composite!Accounted /\ Composite!NoneUntold
  /\ which = "Disciplines" => Disciplines!TypeOK /\ Disciplines!Accounted /\ Disciplines!BytesAgree
  /\ which = "ByPath" => ByPath!PathCountsAgree
  /\ which = "FairPrio" => FairPrio!TypeOK
  /\ which = "Pfc" => Pfc!TypeOK /\ Pfc!Lossless
  /\ which = "TwoPorts" => TwoPorts!TypeOK /\ TwoPorts!BufferAccounted
  /\ which = "Weighted" => Weighted!TypeOK
  /\ which = "Pulls" => Pulls!CountsAgree
  /\ which = "PullPrios" => PullPrios!CountsAgree
  /\ which = "Monitor" => Monitor!BandIsTrue /\ Monitor!BusyAgrees
  /\ which = "Ring" => Ring!Valid

\* A queue that holds a packet and may send is serving one, one at a time; a queue that was told to
\* pause finishes one packet at most, and pauses reach those that feed a blocked port and no others.
\* However much comes, those that wait get their turns: the low list is passed over _ratio_high times
\* in a row at most, data waits behind no more than the limit it was let in under, flows and classes
\* are served in turn or by weight, each in its own order.
KeepsServing ==
  /\ which = "Composite" => Composite!NeverIdle /\ Composite!LowWaitBounded /\ Composite!DataNearFront
  /\ which = "Disciplines" => Disciplines!NeverIdle
  /\ which = "Steady" =>
       /\ Steady!ServesWhatItStarted /\ Steady!LowWaitBounded /\ Steady!SpeculativeNearFront
  /\ which = "FairPrio" => FairPrio!NeverStuck /\ FairPrio!SilentWhilePaused /\ FairPrio!RoundRobin
  /\ which = "OneList" => OneList!NeverStuck /\ OneList!OneAtATime /\ OneList!SilentWhilePaused
  /\ which = "Pfc" => Pfc!OnlyNeighboursStop /\ Pfc!BlockedHolds
  /\ which = "Pulls" => Pulls!FairTurns /\ Pulls!FlowInOrder
  /\ which = "Weighted" => Weighted!WeightedFair /\ Weighted!RefreshSuffices

\* Who leaves and who is dropped.  With trimming disabled the low list leaves in the order in which it
\* came, which precise loss detection relies on; with trimming, data is dropped only if the headers
\* have no room for its own; a packet is pushed out by one whose path is no longer than its own; and
\* through growth and wrapping the circular buffer is a queue.
Contents == INSTANCE Deque WITH
  content <- IF which = "Ring" THEN Ring!Contents ELSE <<>>, Value <- {"a", "b"}
LeaveInOrder ==
  /\ [][/\ which = "Composite" => Composite!LowInOrderStep /\ Composite!DroppedForHeadersStep
        /\ which = "ByPath" => ByPath!ShorterPathsWinStep]_runVars
  /\ Contents!Spec
=============================================================================
