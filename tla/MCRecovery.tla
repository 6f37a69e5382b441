----------------------------- MODULE MCRecovery -----------------------------
(***************************************************************************)
(* Loss detection and retransmission: each run is of one of the five       *)
(* components, on small constants. A run chooses its component at the      *)
(* start; the variables of the others are off.                             *)
(***************************************************************************)
EXTENDS Integers, Sequences, Pflr

VARIABLES
  which,  \* the component of the run, chosen at the start
  \* Pflr
  sndr, rcvr, flying, past,
  \* Pflr0
  flow, path, ctrl, got, faults,
  \* RackTlp and Sleek
  s, wire, recv, lost, tick,
  \* PacedRtx
  sender, msgs, reached, losses, trimmed

pflr == <<sndr, rcvr, flying, past>>
pflr0 == <<flow, path, ctrl, got, faults>>
timed == <<s, wire, recv, lost, tick>>
paced == <<sender, msgs, reached, losses, trimmed>>
runVars == <<which, vars, pflr, pflr0, timed, paced>>
\* The value of the variables of the components that are not of the run.
Off == "off"

-----------------------------------------------------------------------------
\* One slot and no probes of its own: the bitmaps move with every packet.
OneSlot == INSTANCE Pflr WITH
    snd <- sndr, rcv <- rcvr, net <- flying, hist <- past, Scheme <- 3, NPkts <- 3, NSlots <- 1,
    EvSpace <- 4, Probes <- TRUE, ProbeEvery <- 0, RtxProbes <- TRUE, Coalescing <- TRUE,
    AcceptPromoted <- FALSE, Faults <- {"drop", "trim", "promote"}, MaxFaults <- 2, MaxChange <- 1,
    MaxRto <- 0, MaxRts <- 0
\* A retransmission timeout may add a copy.
Retry == INSTANCE Pflr WITH
    snd <- sndr, rcv <- rcvr, net <- flying, hist <- past, Scheme <- 3, NPkts <- 2, NSlots <- 1,
    EvSpace <- 4, Probes <- TRUE, ProbeEvery <- 9, RtxProbes <- TRUE, Coalescing <- TRUE,
    AcceptPromoted <- FALSE, Faults <- {"drop", "trim"}, MaxFaults <- 1, MaxChange <- 1, MaxRto <- 1,
    MaxRts <- 0
\* PFLR scheme 1, with an RTS and a timeout.
Scheme1 == INSTANCE Pflr WITH
    snd <- sndr, rcv <- rcvr, net <- flying, hist <- past, Scheme <- 1, NPkts <- 3, NSlots <- 2,
    EvSpace <- 4, Probes <- TRUE, ProbeEvery <- 9, RtxProbes <- FALSE, Coalescing <- FALSE,
    AcceptPromoted <- FALSE, Faults <- {"drop", "promote"}, MaxFaults <- 1, MaxChange <- 0, MaxRto <- 1,
    MaxRts <- 1
\* PFLR scheme 2, with two changes of EV.
Scheme2 == INSTANCE Pflr WITH
    snd <- sndr, rcv <- rcvr, net <- flying, hist <- past, Scheme <- 2, NPkts <- 4, NSlots <- 2,
    EvSpace <- 8, Probes <- FALSE, ProbeEvery <- 9, RtxProbes <- FALSE, Coalescing <- FALSE,
    AcceptPromoted <- FALSE, Faults <- {"drop", "trim", "promote"}, MaxFaults <- 2, MaxChange <- 2,
    MaxRto <- 0, MaxRts <- 0

-----------------------------------------------------------------------------
\* PFLR scheme 0: answers are coalesced, lost and reordered.
Lists == INSTANCE Pflr0 WITH
    s <- flow, recv <- got, NPkts <- 4, Window <- 2, NSlots <- 2, Gens <- 2, Coalesce <- TRUE,
    Reorder <- TRUE, LoseAnswers <- TRUE, MaxLoss <- 1, MaxTrim <- 1, MaxChange <- 1
\* One answer for each packet, in order.
ListsInOrder == INSTANCE Pflr0 WITH
    s <- flow, recv <- got, NPkts <- 4, Window <- 3, NSlots <- 2, Gens <- 2, Coalesce <- FALSE,
    Reorder <- FALSE, LoseAnswers <- FALSE, MaxLoss <- 1, MaxTrim <- 1, MaxChange <- 1

-----------------------------------------------------------------------------
\* One subflow; three packets are lost.
Rack == INSTANCE RackTlp WITH
    net <- wire, NPkts <- 5, Window <- 3, NSub <- 1, Ports <- 1, UseRack <- TRUE, UseTlp <- TRUE,
    Delays <- {4, 6}, SubDelay <- 0, Rto <- 13, MinReo <- 1, MinPto <- 5, BaseRtt <- 4, MaxLoss <- 3
\* Two subflows of unequal delay.
RackSplit == INSTANCE RackTlp WITH
    net <- wire, NPkts <- 5, Window <- 4, NSub <- 2, Ports <- 1, UseRack <- TRUE, UseTlp <- TRUE,
    Delays <- {4, 6}, SubDelay <- 3, Rto <- 20, MinReo <- 1, MinPto <- 5, BaseRtt <- 4, MaxLoss <- 2
\* Probes, and no detection by time.
TlpOnly == INSTANCE RackTlp WITH
    net <- wire, NPkts <- 5, Window <- 3, NSub <- 1, Ports <- 1, UseRack <- FALSE, UseTlp <- TRUE,
    Delays <- {4, 6}, SubDelay <- 0, Rto <- 13, MinReo <- 1, MinPto <- 5, BaseRtt <- 4, MaxLoss <- 3
\* Detection by time, no probes and no loss: packets of two subflows overtake one another.
RackOnly == INSTANCE RackTlp WITH
    net <- wire, NPkts <- 6, Window <- 6, NSub <- 2, Ports <- 1, UseRack <- TRUE, UseTlp <- FALSE,
    Delays <- {5, 6, 8}, SubDelay <- 4, Rto <- 30, MinReo <- 3, MinPto <- 5, BaseRtt <- 4, MaxLoss <- 0
\* Three of five packets are lost.
Fast == INSTANCE Sleek WITH
    net <- wire, NPkts <- 5, Window <- 4, MaxWnd <- 4, MinOoo <- 2, Delays <- {4, 7},
    ProbeDelays <- {4, 6}, BaseRtt <- 4, Target <- 3, Rto <- 14, MaxLoss <- 3, MaxAge <- 56

-----------------------------------------------------------------------------
\* Two losses and two trims of four packets on two subflows.
Paced == INSTANCE PacedRtx WITH
    s <- sender, net <- msgs, recv <- reached, lost <- losses, NPkts <- 4, Window <- 3, Forward <- {2, 4},
    Back <- {1}, BaseRtt <- 3, Rto <- 9, Subflows <- 2, Ties <- FALSE, EndTime <- 0, MaxLoss <- 2,
    MaxTrim <- 2

-----------------------------------------------------------------------------
\* What the modules assume of their constants holds of these.
ASSUME MCRecoveryAssumption ==
  /\ Lists!Pflr0Assumption /\ ListsInOrder!Pflr0Assumption /\ Rack!RackTlpAssumption
  /\ RackSplit!RackTlpAssumption /\ TlpOnly!RackTlpAssumption /\ RackOnly!RackTlpAssumption
  /\ Fast!SleekAssumption /\ Paced!PacedAssumption

pflrRuns == {"OneSlot", "Retry", "Scheme1", "Scheme2"}
pflr0Runs == {"Lists", "ListsInOrder"}
timedRuns == {"Rack", "RackSplit", "TlpOnly", "RackOnly", "Fast"}
pacedRuns == {"Paced"}

\* The run of Pflr, of which this module checks the properties too: scheme 3, four packets in two
\* slots, two of them dropped or promoted, one change of EV. Its variables keep their first values in
\* the other runs.
RunInit ==
  /\ which \in {"Slots"} \cup pflrRuns \cup pflr0Runs \cup timedRuns \cup pacedRuns
  /\ Init
  /\ \/ which = "OneSlot" /\ OneSlot!Init
     \/ which = "Retry" /\ Retry!Init
     \/ which = "Scheme1" /\ Scheme1!Init
     \/ which = "Scheme2" /\ Scheme2!Init
     \/ which \notin pflrRuns /\ sndr = Off /\ rcvr = Off /\ flying = Off /\ past = Off
  /\ \/ which = "Lists" /\ Lists!Init
     \/ which = "ListsInOrder" /\ ListsInOrder!Init
     \/ which \notin pflr0Runs /\ flow = Off /\ path = Off /\ ctrl = Off /\ got = Off /\ faults = Off
  /\ \/ which = "Rack" /\ Rack!Init
     \/ which = "RackSplit" /\ RackSplit!Init
     \/ which = "TlpOnly" /\ TlpOnly!Init
     \/ which = "RackOnly" /\ RackOnly!Init
     \/ which = "Fast" /\ Fast!Init
     \/ which \notin timedRuns /\ s = Off /\ wire = Off /\ recv = Off /\ lost = Off /\ tick = Off
  /\ \/ which = "Paced" /\ Paced!Init
     \/ which \notin pacedRuns /\ sender = Off /\ msgs = Off /\ reached = Off /\ losses = Off
        /\ trimmed = Off

RunNext ==
  /\ UNCHANGED which
  /\ \/ which = "Slots" /\ Next /\ UNCHANGED <<pflr, pflr0, timed, paced>>
     \/ which = "OneSlot" /\ OneSlot!Next /\ UNCHANGED <<vars, pflr0, timed, paced>>
     \/ which = "Retry" /\ Retry!Next /\ UNCHANGED <<vars, pflr0, timed, paced>>
     \/ which = "Scheme1" /\ Scheme1!Next /\ UNCHANGED <<vars, pflr0, timed, paced>>
     \/ which = "Scheme2" /\ Scheme2!Next /\ UNCHANGED <<vars, pflr0, timed, paced>>
     \/ which = "Lists" /\ Lists!Next /\ UNCHANGED <<vars, pflr, timed, paced>>
     \/ which = "ListsInOrder" /\ ListsInOrder!Next /\ UNCHANGED <<vars, pflr, timed, paced>>
     \/ which = "Rack" /\ Rack!Next /\ UNCHANGED <<vars, pflr, pflr0, paced>>
     \/ which = "RackSplit" /\ RackSplit!Next /\ UNCHANGED <<vars, pflr, pflr0, paced>>
     \/ which = "TlpOnly" /\ TlpOnly!Next /\ UNCHANGED <<vars, pflr, pflr0, paced>>
     \/ which = "RackOnly" /\ RackOnly!Next /\ UNCHANGED <<vars, pflr, pflr0, paced>>
     \/ which = "Fast" /\ Fast!Next /\ UNCHANGED <<vars, pflr, pflr0, paced>>
     \/ which = "Paced" /\ Paced!Next /\ UNCHANGED <<vars, pflr, pflr0, timed>>
RunSpec == RunInit /\ [][RunNext]_runVars

-----------------------------------------------------------------------------
(* Properties.  Each says of a run what the modules of the components state under the names used;
   those of Pflr are checked as they are. *)

\* What a receiver reports lost was lost, and what a sender takes for lost is so: no packet is named
\* whose copy is only late, one loss is reported once unless a timeout adds a copy, the bitmaps agree
\* with the reassembly; under scheme 0 records are in one list each, in the order of sending.
ReportsAreTrue ==
  /\ which \in {"Scheme1", "Scheme2"} =>
       IF which = "Scheme1" THEN Scheme1!NoFalseNack ELSE Scheme2!NoFalseNack
  /\ which = "Retry" => Retry!TypeOK /\ Retry!OneNackPerLoss
  /\ which = "OneSlot" => OneSlot!TypeOK /\ OneSlot!WindowAgrees
  /\ which = "Lists" => Lists!TypeOK /\ Lists!RecordsInOrder
  /\ which = "ListsInOrder" => ListsInOrder!AcksAreRight
  /\ which = "RackOnly" => RackOnly!NothingSentTwice

\* The assertions of the sender hold under RACK-TLP, Sleek and paced repeats: a packet is queued
\* once, a retransmission finds one queued, no timer is set in the past or cancelled twice; and the
\* window counts the packets that have a record: one that a probe replaces, a timeout gives up or a
\* late ACK names is counted once.  Scheme 0 counts the losses it detects for ever, and nothing else.
BooksAgree ==
  /\ which = "Rack" => Rack!AssertionsHold /\ Rack!TypeOK /\ Rack!InFlightCounts
  /\ which = "RackSplit" => RackSplit!AssertionsHold /\ RackSplit!InFlightCounts
  /\ which = "Fast" => Fast!AssertionsHold /\ Fast!TypeOK /\ Fast!InFlightCounts
  /\ which = "Paced" => Paced!AssertionsHold /\ Paced!TypeOK /\ Paced!InFlightCounts
  /\ which = "Lists" => Lists!LeakPerDetection /\ Lists!StopsOnlyByLeak

\* As long as the flow is not done something will happen: what is outstanding has a timer, what is
\* queued has a way to leave; when nothing is left to happen the flow is complete, and leaves no
\* timer behind.
NeverStranded ==
  /\ which = "Rack" => Rack!NeverStranded
  /\ which = "RackSplit" => RackSplit!NeverStranded
  /\ which = "TlpOnly" => TlpOnly!NeverStranded /\ TlpOnly!TypeOK
  /\ which = "Fast" => Fast!NeverStranded
  /\ which = "Paced" => Paced!NeverStranded /\ Paced!EndsComplete /\ Paced!NothingSurvives
=============================================================================
