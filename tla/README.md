# A verification project for the htsim UEC transport

The repository is a packet-level network simulator (htsim) with an implementation of the
Ultra Ethernet transport, its congestion control, load balancing and loss detection, the
queues and switches of a fat tree, the replay of application traces and the drivers of a
set of experiments.  This directory holds TLA+ modules that model them, the TLC
configurations that check the modules on small instances, and TLAPS proofs, for every
value of the parameters, of the main safety properties of a flow, of a host's NIC, of
receiver credit, of loss detection, of the switch's composite queue, of the queues that
obey pauses and of the lossless fabric.

Run everything from this directory: `tlc -config UecFlow_safety.cfg MCUecFlow.tla` for a
run, `tlapm UecFlow_proofs.tla` for a proof module.  Line numbers without a file are
those of `src/sim/host/uec_src.cpp`.

## 1. Inventory

### Components, their state and operations

| component | state | operations |
|---|---|---|
| sender `UecSrc` (`host/uec_src.*`) | send records `_tx_bitmap` with `_send_times`, retransmission queue `_rtx_queue`, `_rtx_times`, `_in_flight`, `_cwnd`, `_backlog`, `_highest_sent`, `_recvd_bytes`, `_rts_packets_sent`, the timer (`_rtx_timeout_pending`, `_rto_send_time`), `_send_blocked_on_nic` | `startFlow`, `timeToSend`, `processAck`, `processNack`, `processPull`, `rtxTimerExpired`, probes and tail-loss timers |
| receiver `UecSink` (`host/uec_sink.*`) | `_expected_epsn`, `_epsn_rx_bitmap`, `_out_of_order_count`, `_ack_request`, `_accepted_bytes`, `_received_bytes`, `_recvd_bytes`; per-slot loss bitmaps; pull targets | `processData`, `processTrimmed`, `processRts`, `processProbe`, `handlePullTarget`, `getPull` |
| NIC `UecNIC` (`host/uec_nic.*`) | list of sources that wait to send, count of them, per-port busy state, queue of control packets | `requestSending`, `startSending`, `cantSend`, `sendControlPacket`, `doNextEvent` |
| pull pacer `UecPullPacer` | active and idle lists of sinks | `requestPull`, `doNextEvent` |
| pflr, schemes 0 to 4 | sender: per entropy value, the packets sent on it (scheme 0), sections and generations of slots; receiver: per slot a bitmap and its base | gap and section detection in data, trimmed packets and probes; NACKs |
| RACK-TLP (`host/rack_tlp.*`), sleek, paced retransmission | send times, reordering window, probe deadlines; recovery mode and `_highest_rtx_sent`; pacing timer | part of the handlers above, timers of their own |
| congestion control | window, quick-adapt period, fulfil adjustments | on ACK, NACK, timeout, end of a period |
| load balancing | bitmap of penalties, recycled entropies, subflow statistics | `nextEntropy_*`, `processEv_*`, periodic reroute |
| composite queue (`queue/compositequeue.*`) | low and high lists, byte counts, turns | `receivePacket` (random drop, ECN mark, trim, drop), `completeService` |
| other queues (`queue/`) | one or two lists, send state under pause, shared buffer, DWRR tokens | enqueue, serve, pause, resume |
| topology and switches (`topology/`, `switch/`) | tiers, radices, cables, latencies; forwarding tables, flowlets, round robin | load a file, wire, list routes, forward |
| event list, triggers (`core/`) | pending events in time order, pending triggers | `sourceIsPending`, `cancelPendingSource`, `doNextEvent`, `activate` |
| traffic matrices (`core/connection_matrix.cpp`) | connections, triggers, random patterns | `load`, the `set...` methods |
| workload replay (`logsim-interface.cpp`, `lgs/`) | dependency graph per host, active queue, posted receives and messages that came early | one loop over the queue that starts flows and learns of their end |

### How they interact

The event list calls `doNextEvent` of one object at a time; each handler runs to its
end, calling other objects' methods directly.  There are no threads.  The nondeterminism
of the system is therefore the *order of events*: packets of one flow are sprayed over
many paths and overtake each other, queues drop and trim them, timers run against late
acknowledgements, and a NIC calls a waiting source back long after the source asked.

A sender with a packet to send asks the NIC for a free port (`requestSending`); if there
is none it is put on the NIC's list and called back (`timeToSend`), after which it
reports back with `startSending` or `cantSend`.  Data goes through queues and pipes to
`UecSink::receivePacket`; the sink answers with ACKs (cumulative point, 64 bit selective
bitmap, total bytes received) and NACKs for packets that arrive trimmed.
`checkFinished` compares the cumulative point with the flow's packets, less the RTS
packets that also took sequence numbers.

### What is hard

* A packet's bookkeeping is spread over five containers and two counters that every path
  (ACK, selective ACK, NACK, timeout, retransmission) must move in step; several paths
  correct each other's effects (lines 692-716).
* ACKs, NACKs and timeouts for the same packet race, in every order.
* The timer is moved only on an *equality* of send times (lines 735, 800, 2127).
* Handlers call `sendIfPermitted` in the middle of their work and go on with state that
  the call has changed (lines 3935-4029).
* A source may complete while it is on the NIC's list.
* Flow control can stop for good when a counter drifts.
* Credit is granted by a pacer with two lists and spent by senders that may ask again,
  lose pulls, or hold credit they cannot use.
* A loss is inferred from an order of packets that trims, priority queues and path
  changes disturb; a NACK for a packet that is not lost is a false one.
* RACK, tail probes, pacing and timeouts are timers on the same packets, set and
  cancelled by each other's handlers.
* Pause frames race services that have begun; a switch pauses neighbours on behalf of
  several ports.
* Files describe topologies and traffic; static members and hand-written loops must wire
  what they say.
* The replay interleaves its own queue with the simulator's events, by equality of
  times.

`PROJECT.json` lists the hazards with the line at which each bites and the properties
that would catch it.

### What makes each component correct

* sender: every packet the receiver lacks is accounted for exactly once; the in-flight
  count is exact; the timer covers the oldest packet; completion means delivery, is
  final, and comes.
* receiver: reassembly takes each packet once in any order, its counters agree, and it
  never acknowledges what it lacks.
* NIC: no waiting source is forgotten, ports are shared in turns, work conserving.
* pull pacer: credit is bounded by what was granted and asked for, the lists agree with
  the sinks' flags, every sink with a backlog is served.
* loss detection: no false loss, one NACK for a loss, no loss undetected for ever, no
  packet stranded, no assertion of a timer or record hit.
* congestion control: a window that admits a packet; phases that ignore feedback end.
* load balancing: feedback is attributed to the path it is about; failed paths are left;
  no thrashing.
* queues: bytes and fates agree, no idling, no starvation, order within a list; lossless
  queues never overflow and never get stuck.
* topology and switches: every host wired, radices honoured, routes exist with the
  latency reported, packets follow listed routes.
* traffic and replay: every flow starts once, for its cause, and ends; dependencies are
  kept, operations are taken on time, and the replay stops.

## 2. The modules

| module | models |
|---|---|
| `UecNetwork` | packets in flight between one source and one sink as a set, drops and trims |
| `UecSrc` | the sender in sender-based (NSCC) mode, the default |
| `UecSink` | the receiver: reassembly, ACK and NACK generation |
| `UecFlow` | one flow: source, sink and network composed, with fairness and the properties |
| `ReliableTransfer` | the abstract promise of a flow |
| `UecNic` | the NIC of a host with several senders and ports |
| `UecCredit` | receiver credit: senders, sinks, pull pacer, and a network that loses and trims |
| `Pflr` | precise fast loss detection at the receiver, schemes 1 to 3, with probes |
| `Pflr0` | the same at the sender, scheme 0 |
| `RackTlp` | RACK loss detection and tail loss probes, whole flow or per subflow |
| `Sleek` | sleek's probe timer and recovery |
| `PacedRtx` | paced retransmission and its tail check, on the event list |
| `CongestionControl` | windows of NSCC, SMaRTT and DCTCP |
| `Spraying` | oblivious, bitmap, REPS and mixed choice of a path per packet |
| `Rerouting` | RSS with subflows, USS, FlowBender, flowlets |
| `FatTree` | the shape of a fat tree as operators on its parameters: cables, routes, latencies |
| `FatTreeConfig` | the loader and the building of planes |
| `FatTreeRouting` | the switches' forwarding strategies and tables |
| `CompositeQueue` | the queue of every port in the evaluated fabric |
| `OutputQueues` | fifo, random, cut-payload, control-priority, ECN-priority, Aeolus, path-length queues |
| `PausableQueue` | the send state of every queue that obeys pause frames |
| `LosslessFabric` | virtual input queues that pause hosts over wires |
| `LosslessSwitch` | switches that pause each other on behalf of their output ports |
| `SharedQueue` | ports that share a switch buffer, with the DWRR scheduler |
| `PullQueues` | fair, priority and fifo pull queues |
| `CircularBuffer`, `Deque` | the ring under every queue, and the queue it implements |
| `QueueMonitor` | the utilisation a switch reads of a queue |
| `EventList` | the event list as operators: order, handles, end of time |
| `TrafficMatrix` | files of connections and triggers, and the flows they start |
| `TrafficPatterns` | the random traffic patterns |
| `Replay` | the replay loop of a trace |
| `MCUecFlow`, `MCUecNic` | instances for TLC of a flow and of the NIC |
| `MCRecovery`, `MCQueues`, `MCControl`, `MCProgress` | instances for TLC of all the other components, by subject; `MCProgress` for what must come about |
| `UecFlow_proofs` | lemmas and theorems about a flow |
| `UecNic_proofs` | the same about the NIC |
| `UecCredit_proofs` | the same about receiver credit |
| `Pflr_proofs` | the same about loss detection by PFLR |
| `LosslessFabric_proofs` | the same about pausing input queues |
| `CompositeQueue_proofs` | the same about the trimming queue of the switches |
| `HostQueues_proofs` | the same about the queues that obey pauses, the ring, and the ports that share a switch's buffer |
| `NatFacts_proofs` | lemmas on least and greatest numbers, quotients and remainders, and sums over finite sets |

`UecFlow` composes source, sink and network.  It looks at one sender in full and at its
NIC through two flags; `UecNic` looks at the NIC in full and at the senders through
counts.  They meet where a sender asks for a port and where it is called back.  The
modes of loss detection replace parts of the sender's handlers and are exclusive in the
code; each has a module that holds sender, receiver and fabric as far as the mode uses
them.  `FatTreeConfig` and `FatTreeRouting` extend `FatTree`, so that what is wired,
what is listed and what a packet follows are one definition.  `PacedRtx` extends
`EventList`.  `LosslessFabric` and `LosslessSwitch` use the send state that
`PausableQueue` checks.  `CircularBuffer` implements `Deque`.

Each of the four larger MC modules holds the components of one subject side by side.  A
behaviour chooses one instance of one component at its start (`which`); only that
instance's variables move, and those of the others keep the value `Off`.  One run
therefore checks what a run per instance would, and an invariant of the MC module says
of each instance which of the component's properties it must keep.  One component per
module (`Pflr`, `LosslessFabric`, `UecCredit`) is extended instead of instantiated, so
that its properties are checked, and proved, under their own names.

### How state and actions correspond to the code

The fields of a sender are one record `src`, those of a sink one record `snk`. A method
of the code is an operator from records to records and a handler is their composition in
the order of the calls, so each action is one whole handler, trailing sends and timer
updates included.  Packets produced by a handler collect in the field `out` and join the
network at its end, which is when the event list can deliver them at the earliest.

| action | code |
|---|---|
| `StartFlow` | `doNextEvent` at the start time, `startFlow` |
| `TimeToSend` | the NIC calls `timeToSend`; `startSending` or `cantSend` take the source off the list |
| `ReceiveAck` | `processAck`: `recvd_bytes`, cumulative and selective part, window, `checkFinished`, `sendIfPermitted` |
| `ReceiveNack` | `processNack`: the record goes, `queueForRtx`, timer |
| `RetransmitTimeout` | `rtxTimerExpired` with `mark_packet_for_retransmission`, `queueForRtx`, `sendRTS` |
| `ReceiveData`, `ReceiveTrimmed`, `ReceiveRts` | `processData`, `processTrimmed`, `processRts` |
| `Drop`, `TrimPacket` | `CompositeQueue::receivePacket` drops a packet or strips its payload |

Abstractions, each wider than the code:

* *Sizes.*  Data packets have one size (`Mtu`), the last packet of a flow included; ACK
  and RTS packets have size `Hdr`.
* *Window.*  The controllers compute in floating point.  An ACK may set the window to
  any value of `CwndChoices`, a NACK to any that is not larger than the present one.  A
  timeout reduces it as the code does.
* *Path.*  Entropy values only choose paths; packets arrive in any order.
* *Time.*  A send time is the ordinal number of the transmission.  The code's clock can
  give two packets the same instant only if a port sends two packets at once, which one
  port does not.  The timer may run out when nothing is in flight or queued (its length
  exceeds the base round trip) or, at most `MaxEarly` times, at any other moment (queues
  delayed an ACK for longer).
* *Port.*  The NIC has one port, as in the replay driver.  `free` tells whether it is
  idle when a handler runs; it is chosen freely, except that an idle port has no waiting
  source, which `UecNic` shows (`WorkConserving`). Sending makes the port busy, so the
  recursion in `sendIfPermitted` ends with a request to the NIC.
* *ECN.*  Any data packet may be marked.
* *RTS.*  `rtsDue` stands for the test that a round trip has passed since the last RTS.
  At most `MaxRts` are sent; while none was sent the test is true, as it is in the code.

### The NIC

`UecNic` keeps the fields of `UecNIC` and of its senders in one record `host`.

| field or action | code |
|---|---|
| `port[p]` | `_ports[p].busy`, and the port whose route the packet took |
| `list`, `control`, `crt` | `_active_srcs`, the packets of `_control`, `_crt` |
| `src[s].blocked` | `_send_blocked_on_nic` |
| `fault` | the assertion or exception at which the program has stopped |
| `PortDone` | `doNextEvent`: data or control turn, `timeToSend`, then `startSending` or `cantSend` and on to the next sender |
| `ReceiverSends` | `sendControlPacket` for a sink of the host |
| `Start`, `Ack`, `Nack`, `Timeout` | `startFlow`, `sendIfPermitted` after an ACK or a NACK, `rtxTimerExpired`, as far as they use the NIC |

* *Senders* are counts of packets: never sent, queued for retransmission, outstanding,
  admitted by the window.  An ACK takes any number of packets off and leaves any window;
  a NACK admits at most one packet more; a timeout gives up one packet.  Which packets
  these are is the business of `UecSrc`.
* *Ports.*  The code searches for a free port round robin.  The model finds any free
  port, and in the two searches of one turn another one when there is one. The time a
  packet takes is arbitrary.
* *Control packets* are served from one count instead of a queue: their order among
  themselves does not matter to the turns.

### Receiver credit

`UecCredit` has, per flow, the sender's credit, speculation and pull target and the
sink's pull state, and the pacer's two lists.  A permitted sender sends one packet a
step; pull numbers count from `INIT_PULL`; pull rates are the arbitrary time between two
turns of the pacer.  `_retx_backlog` is left out, since it is zero from start to end.

| action | code |
|---|---|
| `Send` | `sendIfPermitted`, `spendCredit`, `computePullTarget` |
| `Receive` | the handler of the packet: data, trimmed, RTS at the sink with `handlePullTarget`; ACK, NACK, pull at the source |
| `Timeout` | `rtxTimerExpired` as far as it touches credit |
| `PacerTurn` | `UecPullPacer::doNextEvent`: an active sink, else an idle one |

### Loss detection

*Pflr* (schemes 1, 2, 3).  Packets that carry one entropy value are in order in `net`; a
full queue may move one to the high priority queue (`Overflow`), where it overtakes.
The receiver's three detectors (bitmap of a slot, section, probe) are operators named
after their methods.  The loop that resolves a run of bits is one set: the bits up to
the first gap.  The 16 bit entropy value is a number below `EvSpace`, so that it wraps.
ACKs tell the sender of a packet at any time.

*Pflr0* (scheme 0).  The lists of `_in_flight` packets per entropy value, the loop of
`pflr0SenderReceiveAck` and `probes`.  The loop sends packets while it iterates, which
changes the list; when that makes it read what is gone, the run ends (`Halted`), as the
outcome is undefined.  It has no time: a timer runs out when nothing is on its way.
Probes within the flow are off, as by default.  An RTS is left to `UecSrc`; its answer
moves neither count nor window.

*RackTlp*, *Sleek* and *PacedRtx* have explicit time, because they decide by it: the
state steps from one event to the next, and only the delay of each packet, or its loss,
is open.  Their records, retransmission queue and window follow `UecSrc`; packets have
one size and the RTS is left out.  `RackTlp` keeps the code's quirk that `tlpSendProbe`
tells the NIC of one byte where it sent a packet, and that the reordering window never
widens.  `Sleek` scales the threshold of five packets to `MinOoo`; time is counted from
the present.  `PacedRtx` counts in packet times; the window does not shrink by a NACK,
jitter is 0, and `Ties` says whether a retransmission timeout and a tail check may fall
on one instant.

### Congestion control and load balancing

`CongestionControl` rounds every rule any way within what it may add or take; moving
averages may stand anywhere; a period is over or not.  One ACK tells of any number of
packets.  `Spraying` keeps the low bits of an entropy and one path that may fail.
`Rerouting` has paths with a delay each, statistics per subflow and counters for its
timers.

### Topology, switches, lossless operation, queues

`FatTreeConfig` reads a file (a choice of tier parameters) into static members that the
next plane finds there, as in the code, and stops where the code would end the program.
Queue sizes are kept where they decide whether a file is accepted. `FatTreeRouting`
passes a packet through a switch twice: the choice of a port at arrival, joining its
queue after the latency.

`CompositeQueue` is one queue in each of its configurations.  The random number of a
random drop may be 0.  `receivePacket` has a branch that makes room by taking out a
queued packet (366); it is under the condition that the arrival fits, so it is left out.
Types of the NDP transport, which are counted apart, do not occur.

In `OutputQueues` a service ends with the head of the list leaving that was chosen when
it began.  ECN marks are left out, and the packet types `CtrlPrioQueue` rejects. That
queue may pass its limit by the difference of two sizes, when it replaces its newest
packet.  `_max_path_len_seen` of `CompositePrioQueue` is uninitialised, hence any of
`SeenAtStart`.

In `LosslessFabric` frames and packets travel wires `Delay` packets long; the thresholds
of `LosslessInputQueue`, which no driver sets, are `High` and `Low`, and a buffer of
`High + 2 Delay + 1` suffices.  `FifoPullQueue`'s preferred flow, which nobody sets, is
`Preferred`.

### Traffic and replay

`TrafficMatrix` takes the lines of a file in any order, then runs the flows and
triggers; what flows do besides ending is left out.  `TrafficPatterns` replaces a draw
that is repeated until it fits by a choice among those that fit.  No driver calls these
methods (`main_uec.cpp` loads files).  The fat tree's own `get_neighbours` returns NULL,
so the local patterns use a constant relation. Hotspots whose groups do not fit the
hosts never end in the code and are excluded.

`Replay` models the priority queue as the standard library's heap, since it orders equal
times and the program depends on it.  Times are nanoseconds, `o` and `g` are 0; a flow
ends after one of `FlowTimes`, or never.  A stray is an event of the network that
coincides with another.  Hash-matched lists are by tag and source; wildcards, which the
parser never makes, are left out.

### The abstract specification

`ReliableTransfer` knows three things: the packets offered, those delivered and whether
the sender considers the flow complete.  Packets are offered and delivered one at a
time, each once; completion happens once, when everything offered is delivered and the
flow's share has been offered.  `UecFlow` implements it with `offered <- Sent`,
`delivered <- Received`, `complete <- src.done` (property `Implements`): no packet is
delivered twice, a late or repeated packet changes nothing, and completion, which the
code computes from a cumulative ACK and a count of RTS packets, is never early.

`CircularBuffer` implements `Deque`, a sequence, with the ring's live part read from
head to tail (`LeaveInOrder` of `MCQueues`): doubling the array moves the part that had
wrapped round and changes nothing else.

## 3. Runs

| run | property | what it says |
|---|---|---|
| `flow_safety` | `TypeOK` | types |
| | `NeverInBoth`, `InFlightLedger`, `NothingForgotten` | a psn is outstanding or queued, never both; the in-flight count is exact; what the receiver lacks is under the timer or queued |
| | `RtoCoversOldest`, `BlockedIsRegistered` | the timer is that of the oldest packet; a source that waits for the NIC is in its list |
| | `ReassemblyConsistent` | the receiver's cumulative point, buffer and counters agree |
| | `CompleteMeansReceived`, `QuietAfterCompletion` | completion means delivery, and is final |
| | `Implements` | the flow is a `ReliableTransfer` |
| `flow_liveness` | `EventuallyComplete` | every flow completes |
| `nic_safety` | `TypeOK`, `WorkConserving`, `NoLostWakeup`, `PortMatchesRoute`, `InStep` | no port idles while something waits, no wakeup is lost, a packet takes the route of its port, NIC and senders stay in step |
| `nic_liveness` | `EverySenderServed`, `ControlServed` | nobody starves |
| `recovery` | `TypeOK`, `NoFalseNack` | scheme 3 of PFLR: a NACK names data of which a copy was lost |
| | `ReportsAreTrue` | the same of schemes 1 and 2, one NACK for a loss, bitmaps that agree with the reassembly, the lists of scheme 0, no packet sent twice by RACK without a loss |
| | `BooksAgree` | assertions and in-flight counts under RACK-TLP, Sleek and pacing; scheme 0 leaks one packet per detection and stops by that alone |
| | `NeverStranded` | what is outstanding has a timer, what is queued a way to leave; when nothing is left the flow is done |
| `queues` | `TypeOK`, `CountsItsPackets`, `Lossless`, `FramesAgree` | input queues of the lossless fabric count their packets, drop none, and agree with their hosts on who is paused |
| | `Accounted` | every queue: a packet is in one place, sizes and counts are those of the lists, limits hold |
| | `KeepsServing` | no queue idles with a packet it may send, pauses end, waiting is bounded, turns are fair |
| | `LeaveInOrder` | the low list leaves in order, data is dropped only for headers, short paths win, the ring is a queue |
| `control` | `TypeOK`, `ActiveListAgrees`, `PacerAwake`, `Bank`, `DemandBounded` | receiver credit, with one flow |
| | `WindowsAndPaths` | credit of two flows and with an RTS, which no single fault ends; windows that admit a packet; spraying and rerouting |
| | `RoutesAreListed` | accepted topologies are wired as their radices say; packets follow listed routes |
| | `WorkloadFaithful` | traffic files, patterns and replayed traces do what they ask for |
| `progress` | `Settles` | flows are delivered, switches drain, penalties are paid, subflows stop moving, workloads and replays end |
| | `NoStarvation` | no class of a shared queue waits for ever |
| `flow_rts`, `flow_nic_list`, `flow_in_flight`, `nic_two_ports` | one each | violations, explained below |

Every property of a passing run has a mutant in `PROJECT.json`: a slip in the code's
terms (a dropped guard, a missing reset) that TLC finds with this property.

### Instances and bounds

*Flow.*  `flow_safety` has four data packets, one RTS, a SACK bitmap of two psns,
windows of one or two packets, one drop, one trim and one early timeout.  That is enough
for a packet to be outstanding, trimmed, queued, sent again, acknowledged late and
acknowledged selectively while another is lost; for a gap of two buffered packets; for a
bitmap that does not reach the newest packet; and for an RTS between data packets.
`flow_liveness` has three packets and two drops, so that a packet and its
retransmission, or a packet and an ACK, can both be lost.  The three violation runs need
less.  `AckThreshold` of two packets makes ACKs coalesce.  The bounds limit faults and
RTS packets only; nothing in the handlers is cut off.

*NIC.*  `nic_safety` has two senders of two packets, two ports, windows up to two
packets, one RTS and two waiting control packets: senders can block each other and
control packets, one can finish or lose its window while on the list, and both, one or
no port can be free.  The turns are one data packet to two control packets (1 to 10 in
the code), so that `crt` wraps.  A timer runs only while the list is shorter than
`MaxList`, because the second entry of `flow_nic_list` would let it grow.
`nic_liveness` has one port, where turns are scarcest, and one packet per flow at a
time; NACKs and timeouts let the senders come back for ever.

*Recovery* (`MCRecovery`, thirteen instances, deadlock not checked because flows end).
Pflr: two slots and two faults, or one slot and a change of path, let each of the three
detectors meet each fault; a gap and the packets on both sides of it need three or four
packets.  Sections of three generations need two changes.  `EvSpace` exceeds the numbers
used.  *Pflr0* has a window of two or three, so that two detections fill it, and one
fault of every kind.  The delays of `RackTlp`, `Sleek` and `PacedRtx` straddle the
reordering window, the probe deadline, the base round trip and the target; the losses
suffice to lose a packet, its retransmission and a probe.  `MaxAge` caps a time that no
test distinguishes further.  Timeouts and tail checks of `PacedRtx` are kept off one
picosecond (see the disagreements).

*Queues* (`MCQueues`, fourteen instances, about 1.1 million states, deadlock checked).
Two or three sizes that do and do not fill a list of three to six units, as many packets
as fill both lists while one is in service, ratios of two to one in place of 100000 to
one or ten to one, so that the turns wrap.  The composite queue has every mode the
topology builds except headers kept in the low list.  The ring is doubled twice.  The
lossless fabric has two hosts and two outputs that share an input, wires of one packet
and just the room `High + 2 Delay + 1`; one packet less and TLC finds a drop.
`LosslessSwitch` has two ToRs that send to a third over a spine.  Hosts and outputs of
the fabric are symmetric, and only their permutations are used.

*Control* (`MCControl`, thirty-one instances, about 0.8 million states, deadlock not
checked because flows, loading and replays end).  Credit: a flow four times as long as
its window of one packet, two flows on one pacer with a quantum that does not divide the
packet, an RTS, and two faults: two losses, or, for a single packet and its RTS, one
loss and an early timeout. With two faults TLC does reach stranded senders, so
`StrandedByTwoFaults`, a conjunct of `WindowsAndPaths`, is neither empty nor weaker than
it need be.  Windows: flows longer than a window of five to nine units, with losses
before and after a quick adapt.  Load balancing: four or eight paths, two subflows or
three, so that bits of the entropy above and below the subflow exist; penalties, skipped
rounds and cooldowns are the code's, or at least two. Topology: every combination of the
listed radices, bundles, speeds and sizes of up to eight hosts.  Routing: four pods for
hashing over two levels, a leaf-spine and bundles for adaptive choices; two packets in
flight see each other's queues.  Traffic: files with one error each and files without;
barrier, window and ring all-reduce; four or five hosts per pattern, every outcome;
traces of two hosts with every choice of dependencies among their operations, and a ring
of three.

*Progress* (`MCProgress`, twelve instances): the same components on smaller constants,
since liveness needs the whole graph in memory.  Credit has a flow twice as long as its
window, so that it cannot end without a pull, and one loss: any data, RTS, ACK or pull
is dropped, or data is trimmed to its header.  The demand is granted by one active pull
and one slow pull, of which either may be lost; the mutant that forgets the slow pulls
is found only because of that loss.  A second loss, or an early timeout besides, can
strand a sender (see below), so the run has neither.  Deadlock is not checked since
everything here ends.

### Fairness

`FairSpec` of `UecFlow` adds fairness for what the event list guarantees: every pending
event runs.  These are the start of the flow, callbacks by the NIC (its port's service
event is pending whenever a source waits), arrivals at source and sink, and the
retransmission timer.  Nothing is assumed of drops, trims, window choices or the idle
port.  Each conjunct is weak fairness with the enabling condition written out, which TLC
evaluates much faster than `ENABLED` of the nested handlers. Losses are finite in number
by `MaxLoss`; without that no flow need complete. In `UecNic` only `PortDone` is fair,
per port: the end of a transmission is scheduled with `sourceIsPending` when the port
becomes busy.

`MCProgress` states the fairness of its instances in two formulas.  `Fairness` is weak,
by the same justification:

* credit: pacer turns, sends, timeouts and arrivals, per flow;
* Pflr: a permitted send and each arrival; no timeout is needed, which is the point;
* windows: a send, and an ACK that acknowledges something;
* spraying and rerouting: sends, time, feedback, per subflow;
* RACK-TLP and Sleek: time goes on to the next event;
* the lossless fabric and the shared queue: the end of a transmission or service, a
  frame's arrival; the next switch resumes a port that it pauses, an assumption on its
  environment;
* traffic files, patterns and the replay are one loop, which goes on while it can.

`Chances` is strong: a port that is paused again and again still serves a packet, and
the random choices of paths and entropies draw every value again and again.

### Disagreements between the code and what is said of it

Four are kept as runs that expect a violation; `PROJECT.json` quotes the lines.

* `flow_rts`: `rtxTimerExpired` (3880) queues the packet with `queueForRtx`, which sends
  it when window and port permit, and only then tests the window, counting the packet a
  second time (4005).  The branch is commented "window won't allow us to send yet" and
  sends an RTS.
* `flow_nic_list`: in its other branch (4029) it calls `requestSending` although
  `queueForRtx` may have done so.  `sendIfPermitted` returns in this situation because
  "the NIC already knows we want to send" (2505).
* `flow_in_flight`: `mark_packet_for_retransmission` (1513) subtracts the size of a
  timed out RTS that `sendRTS` never added.  Sending the RTS again adds its size (3622)
  and its acknowledgement takes it off (1049), so the sum stays short by a header for
  each RTS until the flow completes, as `InFlightLedger` says, and falls below zero when
  little else is in flight, which the comment at 1156 plans to assert never happens.
* `nic_two_ports`: on a NIC with two ports, `queueForRtx` may send the timed out packet
  on one port and `rtxTimerExpired` then get the other from `requestSending` (4035). It
  calls `sendRtxPacket` on an empty queue, whose assertion (3563) fails; a build without
  assertions reads the first element of an empty map.

The first three break no transfer, as the passing runs show; the fourth ends the
program.  Others were met while modelling; no run keeps them.  The modules still state
the sentence of the code that fails, marked "The code does not keep this"; TLC finds
each on an instance as small as those above.

| stated by | source | what happens |
|---|---|---|
| `UecCredit!SpeculationBounded` | `host/uec_pull_pacer.cpp:53` | a sink enters the idle list several times and each entry is granted a slow pull |
| `Pflr!RtsNeverNacked` | `host/uec_sink.cpp:981` | an RTS leaves a hole in scheme 3's bitmap, which is NACKed |
| `Pflr!ProbeAckExpected` | `host/uec_sink.cpp:790` | scheme 2 answers a probe; the sender asserts scheme 0 |
| `Pflr0!NoFalseLoss` | 1031, 1001 | the ACK is used before what it acknowledges is taken off the list; a probe's answer condemns packets sent after it |
| `Pflr0!WithinTheList` | 972 | the loop's list is changed by the packets it sends |
| `RackTlp!TimeoutIsDue`, `ProbeIsDue` | 4428, 4359 | timers of packets long gone, and probes before their deadline |
| `Sleek!EveryAckIsKnown` | 1073 | a probe's number is looked up like a packet's, beyond the end of the map |
| `PacedRtx!TimeoutsAreDue`, `RepeatsArePaced`, `OnlyLostSentAgain` | 2146, 3757, 2245 | early timeout after a NACK, sends that ignore the pace, a tail check after too short a round trip |
| `CongestionControl!NeverAboveWindow` | 1424 | quick adapt finds more bytes achieved than the window |
| `Spraying!SkipCountPositive` | 2627 | the assertion of `nextEntropy_bitmap` (3155) fails |
| `Rerouting!WorseIsSet` | 2918 | the maximum starts at `UINT64_MAX` and is never set |
| `FatTreeConfig!MismatchRefused`, `LeafSpineIsOnePod`, `QueueLinesAccepted`, `SpeedsSymmetric`, `FailedLinkExists` | `topology/fat_tree_topology.cpp:628, 583, 229, 826, 1443` | files accepted or refused against their description; links of two speeds; a failed link that is not there |
| `FatTreeRouting!NoRemovedLink` | `switch/fat_tree_switch.cpp:499` | uplinks are listed although the cable is removed |
| `PausableQueue!OnlyResumeUnblocks` | `queue/queue.cpp:255` | a second pause starts a service |
| `OutputQueues!TrimMakesRoom`, `ChecksHold`, `MidAdmitted` | `queue/compositeprioqueue.cpp:135, 261`, `queue/aeolusqueue.cpp:169` | one trimmed packet does not make room; a check that misses the longest path; a stricter limit than described |
| `CompositeQueue!ProbesSkipDrops`, `DefaultMarksNone`, `HeadersCountTrims`, `RoomMeansKept` | `queue/compositequeue.cpp:524, 474, 169, 307` | probes dropped by trimming queues; marks beyond twice the size; ACKs counted as headers; a random number 0 drops at probability 0 |
| `TrafficMatrix!MultiAborts` | `core/trigger.cpp:35` | a multishot trigger without targets returns quietly |
| `TrafficPatterns!AssertHolds`, `OtherFound` | `core/connection_matrix.cpp:42, 110` | the last host can only draw itself |
| `Replay!PostedInOrder`, `NoOvertaking` | `lgs/LogGOPSim.hpp:60`, `logsim-interface.cpp:190` | ties are taken in any order; the second message of a channel may take the receive of the first |

Properties that the runs above check do not hold of every setting.  The instances are
those in which the code keeps them; outside:

* `NoFalseNack` of Pflr needs entropy values that do not wrap (`EvSpace`, 2859), and
  promoted probes that are not believed (`host/uec_sink.cpp:731`); the theorem has both
  as hypotheses.
* Scheme 1 finds the loss of a last packet only by a timeout: its probes are never sent
  (3271).
* Scheme 0 keeps no in-flight count (972) and stalls when detections fill the window:
  `LeakPerDetection` and `StopsOnlyByLeak` state exactly that.
* RACK-TLP asserts on two ports (4446), the pacing timer on a tie with the timeout
  (3886) and past the configured end (2250); Sleek can pass over a packet while probes
  return late (3940): `Ties = FALSE`, `EndTime = 0`, `Ports = 1`. `BooksAgree` therefore
  says nothing of a second port; `nic_two_ports` does, for the timeout handler.
* Credit: `Settles` allows one loss.  A sender without credit that has nothing
  outstanding has no timer, and is left alone when its pulls, active and slow, are all
  lost (`uec_pull_pacer.cpp:73`), when its request is lost with a needless copy of a
  packet whose first ACK was late, or when it is trimmed from one: `processTrimmed`
  answers a packet it has before it reads the target (`host/uec_sink.cpp:884`).
  `StrandedByTwoFaults` states that nothing less does it.
* Rerouting: 32 bits for the subflow (`main_uec.cpp:108`), more than one consecutive
  congested round for FlowBender (3091) and the periodic update within the cooldown
  (3007) are left out of the instances.
* Topology: four hosts by an odd arity, a second plane from a file or a default
  leaf-spine (`fat_tree_topology.cpp:713, 180, 759`), global latencies (1852).
* Pauses: `PriorityQueue` and ECN queues, which `KeepsServing` leaves out, send twice
  after a resume during a service (`queue/queue.cpp:262`, `queue/ecnqueue.cpp:40`); a
  switch resumes a neighbour on behalf of one port while another needs silence
  (`queue/queue_lossless.cpp:129`), hosts hear no frame (`switch/switch.cpp:29`), the
  last hop has no thresholds (`topology/fat_tree_topology.cpp:1063`), and ids of two
  tiers collide (`switch/fat_tree_switch.cpp:52`).
* Shared buffer: an alpha above 1 overflows (`queue/shared_queue.cpp:276`), a packet
  larger than a class's weight throws (`queue/qos_scheduler.cpp:25`).
* `CtrlPrioQueue` may replace the packet in service (`queue/prioqueue.cpp:138`); the
  utilisation of the first 30 us is read as 0 (`queue/queue.cpp:35`).
* Traffic: a receiver's trigger is never activated (`host/uec_sink.cpp:1222`); two
  passes of an all-reduce share a trigger (`gen_allreduce.py:86`).
* Replay: a lost flow, or one that ends at the instant of another event, leaves the loop
  spinning or late (`logsim-interface.cpp:991, 553, 250, 667`); a message of a host to
  itself is carried out twice (583).

## 4. Proofs

All theorems are about the specification of the module under the assumptions named in
it, for every value of the constants, and of the form `Spec => []P` unless said
otherwise.  In each module an inductive invariant carries the proof: the properties are
not inductive alone.  Each invariant was checked with TLC on small instances before it
was proved.

| module | theorems | for |
|---|---|---|
| `UecFlow_proofs` | `FlowInvariant`; every safety and action property of `flow_safety`; `FlowImplements`: the refinement of `ReliableTransfer` | any flow size, packet and header sizes with `0 < Hdr < Mtu`, windows not below `Mtu`, SACK width, ACK threshold, drops, trims, RTS packets, early timeouts |
| `UecNic_proofs` | `NicInvariant`; the five safety properties of `nic_safety` | any finite set of senders, any number of ports, packets, RTS and control packets, positive turn ratios |
| `LosslessFabric_proofs` | `FabricInvariant`; `TypeOK`, `CountsItsPackets`, `FramesAgree`, `Lossless` | any sets of hosts and outputs, thresholds with `Low < High`, wire length and number of packets |
| `UecCredit_proofs` | `CreditInvariant`; `TypeOK`, `ActiveListAgrees`, `PacerAwake`, `Bank`, `DemandBounded` | any set of flows, sizes, quanta, rates of credit, losses, timeouts |
| `Pflr_proofs` | `PflrInvariant`; `TypeOK`, `WindowAgrees` (scheme 3), `NoFalseNack` (schemes 1 and 3) | any number of packets, slots, entropy values, faults, changes of path, timeouts, RTS packets |
| `CompositeQueue_proofs` | `QueueInvariant`; `TypeOK`, `Accounted`, `NeverIdle`, `LowWaitBounded`, `DataNearFront`, `NoneUntold`; the action properties `LowInOrderStep` and `DroppedForHeadersStep` | any modes, sizes of packets and of the queue, thresholds, ratio, number of arrivals and of random losses |
| `HostQueues_proofs` | `PauseInvariant`; `NeverStuck`, `SilentWhilePaused`, `OneAtATime` (fair and lossless queues), `RoundRobin`, `TypeOK` (fair queues) | any finite set of flows, priorities, length, repeated pauses |
| `HostQueues_proofs` | `RingInvariant`; `RingValid`: the assertions of `validate()`; `RingImplements`: the refinement of `Deque` | any elements, any initial size of two slots or more, any number of doublings |
| `HostQueues_proofs` | `SharedInvariant`; `SharedAccounts` (`BufferAccounted`), `SharedTyped` (`TypeOK`); `SharedFairInvariant`; `SharedRefreshSuffices` and `SharedWeightedFair` | any finite set of ports, packet sizes, buffer, shares of at most 1, weights; for the last three no packet larger than its class's weight and a cap of at least two weights |

### A flow

An ACK that claims a packet the receiver lacks would break `NothingForgotten`, and a
data packet of a psn never sent would break the reassembly; so the invariant must speak
of the network too.  `FlowInv` is `Consistent(src, snk, net)`:

* before the start: the initial sender and an empty network;
* after it, `Sound(src, Received)`:
  - `Shape`: types; `_send_times` mirrors the records and lies in the past
    (`Records`); sequence numbers are conserved, highest + backlog = flow + RTS
    packets (`Conserved`, which bounds the psns); what was sent is outstanding,
    queued or received (`Covered`); a blocked source is registered;
  - `TimerOK`: the timer is set for the oldest record;
  - while running, `Gap(src) = 0`: the ledger of the in-flight count; after
    completion `Over(src)`: nothing left to send or to wait for;
* the sink's buffer lies beyond the cumulative point, its counters agree with it, and
  everything it has was sent;
* every message is genuine: data was sent and its size tells an RTS, an ACK claims only
  what the sink has.

The argument goes method by method.  The lemmas on the sender at the head of
`UecFlow_proofs` show of each operator that it keeps `Shape` with respect to a set of
psns the sender need not answer for, and what it does to ledger and timer (`Keeps`);
handlers compose these lemmas (`ProcessAckSound`, `ProcessNackSound`,
`RtxTimerExpiredSound`, ...).  The parameter matters: inside a NACK or a timeout the
lost packet is for a moment in no container.  Those on the sink show that a handler
takes at most the packet it was given, forgets none and replies truthfully.  The rest of
the module combines them per action.

`FlowImplements` maps a step to one of `ReliableTransfer` or a stutter.  Of each handler
it needs that it offers at most one new psn, although a handler may send an RTS and call
`sendIfPermitted` several times (the first send makes the port busy), and none in the
step that completes the flow (`SenderAdvances`); of each arrival, that it delivers at
most its own packet (`ReceiverTransfers`).  `Observed` says what the abstract transfer
sees of a state that satisfies `FlowInv`.

### The NIC

The five properties are proved together because each needs the others: `NicInv` says
that fields have their types, that no port idles while something waits, that busy ports
carry the packet they were given, that a sender which could send is blocked, and that a
blocked sender is listed.  Work conservation is what makes a turn safe: when a port is
freed while a source waits every other port is busy, so both searches find that one
port, and the sender's second request finds none (`InStep`).

### The lossless fabric

`FabricInv` is `Types`, `Serving` (an output serves only when it holds a packet),
`HostInv` (per host, the dialogue with its input queue) and `AllCount`.

* *Counting.*  An input queue's size grows when a packet enters an output queue and
  shrinks when that output sends it.  `AllCount` says that the size is the number of
  places its host has in the output queues, a finite set of pairs of an output and a
  position; the lemmas say what appending and taking the head, which shifts every
  position, do to its cardinality.
* *Dialogue.*  `Agrees`: frames on the way alternate, and the last one says what the
  queue now wants, or, when there is none, the host's state does.  `Room`: a queue that
  does not pause holds at most `High`, and one that does holds, with what is on its
  wire, at most `High + Delay` and what the host can have sent since: as many packets as
  its last frame is old, and one that it had begun.
* *`FabricLossless`* has the hypothesis `MaxSize >= High + 2 * Delay + 1`.  It is not an
  assumption of the module, because no driver of the repository sets the thresholds.
  TLC finds a drop for one packet less, so the bound is tight.

### Receiver credit

`CreditInv` relates sender, receiver, messages and pacer.  `SrcOK` has the sender's own
books: what it spent and holds is its first window or was granted, in quanta, and how
much it asks for beyond that; `Between` says that what a sender has heard granted is not
more than its receiver granted, and what a receiver has been asked for not more than the
sender asked; `MsgOK` says the same of every pull, data and RTS packet on its way, which
is why loss, repetition and overtaking do no harm; `Listed` says that the active list
holds exactly the sinks whose flag says so, each once, and `Awake` that the pacer rests
only when its lists are empty.  `Bank` and `DemandBounded` follow by arithmetic on
quotients (the lemmas on quanta and shares).

### PFLR

`PflrInv` has two parts.  `WellFormed` holds for all three schemes: the records of both
ends have their types, a packet is outstanding or queued and was sent, psns are those of
data and of RTS packets (`Ledger`), and the bitmaps of scheme 3 know what came
(`Window`).  `InOrder` holds when the detection is *precise*:

    Precise == Scheme = 1, or Scheme = 3 and entropy values do not wrap and
               promoted probes do not occur or are not believed

It says that whatever a message would make the receiver report (the packets of its slot
and path that are missing before it) stands before it on its path, or is settled:
received, taken by an RTS, or a copy of it was lost.  The same holds of the probes the
sender has ready and of what it believes of its paths (`SenderOK`).  Every action keeps
it: a send puts the packet behind all others of its path; a change of path starts a
section whose first number, carried in the entropy value, excludes what is on the old
path; a promoted packet leaves its place for the high priority queue, where only
messages that report nothing are believed; a drop settles the packet.  The condition on
wrapping is `NPkts + MaxRts + NSlots <= EvSpace`.  Both conditions are needed: without
either TLC finds a false NACK.  `WindowAgrees` says that the index of a trimmed packet
in the bitmap is never negative.

### The composite queue

`QueueInv` ties the two lists to the history of what became of each packet (`fate`).

* `Placed`: each packet that came is in exactly one list, or has met one end; either
  list holds its packets in the order in which they came, the high list headers only.
* `Books`: the sizes kept beside the lists are the sums over them, and the counters of
  what was sent, dropped and bounced those of the packets that met these ends.  `Near`:
  no packet in full has more than `MaxSize` bytes of the low list up to and with itself.
* `Busy`: the queue serves a list that holds a packet, and rests only when both are
  empty.
* `Turns`: while the low list waits it was passed over at most `crt + 1` times, and `crt
  < RatioHigh`. This and `Busy` say together what `LowWaitBounded` needs.
* `Told`: with low priority trimming and no dropping of low headers, only random losses
  are untold.

The bytes of a list are a sum over a sequence, which the code keeps and never computes.
`Bytes` is a recursive function on the length; that it exists, and what an append and a
removal do to it, is shown by least counterexamples. An arrival is trimmed, placed, and
perhaps begins a service, in one step; the lemmas take the placing and the service one
at a time.

### The queues that obey pauses

A pause does not cancel the service event that is in the event list, and each class
works out from its own fields whether there is one.  `PauseInv` says what these fields
must agree on:

* `Well`: one event exactly when a packet is being sent, and for its list; no assertion
  has failed; the queue never rests in `PAUSED` while it sends; the current flow of a
  fair list waits there, or nobody does;
* `Willing`: a queue that may send does, or holds nothing;
* `Frames`: the state is `READY` exactly when the last frame said go, and at most one
  packet left since a pause, none if one is still being sent;
* `Turns`, for the fair queue: how often a waiting flow was passed, plus the number of
  flows whose turn comes before its own (`Ahead`, round the flow map from the current
  flow), is less than the number of flows.

The theorems have `Kind \in {"fair", "lossless"}` as a hypothesis: of the other two
classes the properties do not hold (see the disagreements).  The number of packets is a
sum over flows and priorities, whose laws `NatFacts_proofs` shows.

### The ring

`RingInv` says that the slot for the next element lies right behind the newest of
`count` elements that start at the oldest, round the end of the array if need be, and
that a slot is free.  A push is at most one doubling (`DoubledHeld`: what had wrapped
round is found behind the rest, so the elements are those it held) and one write
(`WrittenHeld`: the slot is no other element's); `PoppedHeld` and `TakenBackHeld` do the
two removals.  An initial size of one is excluded: its array would be full at the first
push.

### The shared buffer

The proofs are in two layers.  `SharedInv` has the accounts: the bytes kept for a class
are the sum over its list, the bytes used are the sum over all ports, and a port that
holds packets has chosen a class that has one (`Choosing`), unless an assertion has
failed.  One port changes per step, so a lemma (`PortStep`) reduces the sum over the
ports to what becomes of that port.  `SmallShares`, that no alpha exceeds 1, is a
hypothesis and not an assumption of the module because TLC shows that an alpha above 1
overflows the buffer.

`FairInv` explains why deficit round robin is fair although tokens are capped, are paid
when a service begins, and are refreshed at any moment at which nobody can pay.  The
purse of a class is its tokens and what it has paid for the packet in service, so a
service that begins leaves every purse as it was.  A service that ends takes from the
purse exactly what it adds to the lead, and a refresh, which comes when neither waiting
class can pay, gives both their whole weight: each has less than one weight saved, so a
cap of two is not reached.  Hence, for two classes `a` and `b`,

    lead + Weight[b] * purse[a] - Weight[a] * purse[b] <= CapFactor * Weight[a] * Weight[b]

holds when they begin to compete, with a lead of 0, and after every step (`EvenPair`).
To bound the lead alone one must also know that `b` has less than two weights left, or
that the inequality holds without the purse of `b`; that is the third conjunct of
`EvenPair`. `WeightedFair` follows.  The proof corrected that property's bound: `a` may
have saved its cap, and spend it while `b` keeps what a refresh left it with, so the
lead may come near `(CapFactor + 2) * Weight[a] * Weight[b]`.  The bound first stated,
one product less, is exceeded with packets of 1 to 3 and weights of 3.

### What is only model-checked

* All liveness: `EventuallyComplete`, `EverySenderServed`, `ControlServed`, `Settles`,
  `NoStarvation`.  Fairness and `ENABLED` are beyond the prover.
* `NoFalseNack` for scheme 2, and one NACK per loss (`OneNackPerLoss`): scheme 2 keeps
  generations in sections of slots, for which `InOrder` would need the history of
  changes.
* `ReportsAreTrue`, `BooksAgree`, `NeverStranded`, `Accounted`, `KeepsServing`,
  `LeaveInOrder`, `WindowsAndPaths`, `RoutesAreListed` and `WorkloadFaithful`, which
  gather properties of the instances of many components.  The theorems above cover the
  parts of `Pflr`, `UecCredit` and `LosslessFabric` (`Scheme1!NoFalseNack`,
  `OneSlot!WindowAgrees`, the credit conjuncts of `WindowsAndPaths` except
  `StrandedByTwoFaults`), those of `CompositeQueue`, `PausableQueue` and `SharedQueue`
  in `Accounted`, `KeepsServing` and `LeaveInOrder`, and that of `CircularBuffer` in
  `Accounted` and `LeaveInOrder`.
* What the other components compute by recursion over data: routes of a graph, heaps,
  parsed files.  Sums are within reach, by least counterexamples in place of induction;
  `RECURSIVE` operators are not.

## 5. Not modelled

* *Pflr scheme 4*: the sink's constructor aborts for it.
* *Modes combined*: the code allows, say, RACK with receiver credit; each mode is
  modelled on its own.
* *The oversubscribed mode and the PCIe model* (`oversubscribed_cc.*`): off by default;
  rates and backlogs are floating point functions of measured times.
* *Arithmetic of congestion control*: coefficients and averages are ranges.
* *A whole path of queues*: `UecNetwork` and the networks of the other modules
  over-approximate it by reordering, loss and trims; one queue is in `CompositeQueue`.
* *Round robin pointer and wire times of the NIC*; quantised queue sizes of the
  topology.
* *Clean-up and creation of flows in the replay*, its exits on a share of the flows and
  the binary format (`txt2bin.cpp`); `LogGOPSim.cpp`'s own simulator, which is not used.
* `faircompositequeue.*` and `uec_sink_new.cpp`, which are not compiled; command lines,
  loggers, random number generator and plots, which hold no protocol state.

## 6. Plan

1. Done: all components modelled and checked; the proofs of section 4.
2. Proofs that would add most: one NACK per loss of Pflr; the accounts of
   `OutputQueues`; the turns of `PullQueues`; `FollowsListedRoute` of `FatTreeRouting`.
3. `UecFlow` over a path of two composite queues in place of `UecNetwork`.
