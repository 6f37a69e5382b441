------------------------------ MODULE RackTlp ------------------------------
(***************************************************************************)
(* RACK loss detection and tail loss probes of a UEC sender with sender    *)
(* based congestion control.  Time is explicit, since what both decide on  *)
(* is time: the simulation steps from one event to the next, and only the  *)
(* delay of each packet up to its ACK, or its loss, is open.               *)
(*                                                                         *)
(* As in UecSrc the fields of the sender form a record s and an operator   *)
(* stands for a method.  Packets have one size, counted as 1; the RTS that *)
(* a timeout may send, and credit, are left to UecSrc and UecCredit.       *)
(***************************************************************************)
EXTENDS Integers, Sequences, FiniteSets, FiniteSetsExt, TLC

CONSTANTS
  NPkts, Window,    \* packets of the flow, and window the controller keeps to
  NSub,             \* RSS subflows
  Ports,            \* ports of the NIC; a packet occupies one for one unit
  UseRack, UseTlp,  \* the mode: rack, rack+tlp or tlp-only
  Delays,           \* times from sending a packet to its ACK: {delay} of each subflow, or any
  SubDelay,         \* extra delay per subflow
  Rto, MinReo, MinPto, BaseRtt,
  MaxLoss           \* bound on the packets lost

\* What this module assumes of its constants.
RackTlpAssumption ==
  NPkts \in Nat \ {0} /\ Window \in Nat \ {0} /\ NSub \in Nat \ {0} /\ Ports \in Nat \ {0} /\ Rto > 0

VARIABLES
  s,      \* the sender
  net,    \* copies on their way, with the time of their ACK
  recv,   \* packets the receiver has
  lost,   \* packets lost so far
  tick    \* changes with every event

vars == <<s, net, recv, lost, tick>>
Psn == 0 .. NPkts - 1
Subs == 0 .. NSub - 1
NoTime == 0

FreshTlp == [end |-> 0, retrans |-> FALSE, probe |-> FALSE, sample |-> TRUE, deadline |-> NoTime]
Sender ==
  [now |-> 2 * Rto, highest |-> 0, backlog |-> NPkts,
   tx |-> [p \in Psn |-> NoTime],      \* send_time of the records of _tx_bitmap
   rtx |-> {}, copies |-> [p \in Psn |-> 0], inFlight |-> 0, cwnd |-> Window,
   blocked |-> FALSE, regs |-> 0, busy |-> <<>>,   \* the NIC: requests queued, ends of transmissions
   rto |-> NoTime, rtoFrom |-> NoTime, \* _rtx_timeout and _rto_send_time
   pto |-> NoTime, ptoSub |-> -1,      \* _tlp_pto_timeout and _tlp_pto_subflow
   split |-> FALSE,                    \* the state per subflow has been allocated
   rack |-> [f \in -1 .. NSub - 1 |-> [xmit |-> 0, end |-> 0, min |-> NoTime]],
   tlp |-> [f \in -1 .. NSub - 1 |-> FreshTlp],
   rtt |-> NoTime, done |-> FALSE, bad |-> FALSE, out |-> {},
   timedOut |-> Rto, early |-> FALSE]  \* history: age of the last packet timed out; a probe not due

Outstanding(x) == {p \in Psn : x.tx[p] # NoTime}

\* rackSubflowForSeqno
Subflow(x, p) == IF x.split THEN p % NSub ELSE -1
Of(x, f) == {p \in Outstanding(x) : Subflow(x, p) = f}

-----------------------------------------------------------------------------
(* Timers *)
StartRTO(x, t) ==
  IF x.rto = NoTime \/ t + Rto < x.rto THEN [x EXCEPT !.rto = Max({t + Rto, x.now}), !.rtoFrom = t] ELSE x
\* Mutant: the timer is only stopped.
RecalculateRTONone(x) == [x EXCEPT !.rto = NoTime]
\* The timer runs for the packet sent first of those waited for.
RecalculateRTO(x) ==
  LET y == [x EXCEPT !.rto = NoTime]
  IN  IF Outstanding(x) = {} THEN y ELSE StartRTO(y, Min({x.tx[p] : p \in Outstanding(x)}))

Srtt(x) == IF x.rtt # NoTime THEN x.rtt ELSE BaseRtt
Pto(x) == Max({2 * Srtt(x), MinPto})
RtoSooner(x) == x.rto # NoTime /\ Rto <= Pto(x)

\* tlpComputeAndArmPTO(-1): one deadline and the timer for it.
ArmGlobal(x) ==
  IF \/ x.rtx # {} \/ Outstanding(x) = {} \/ (x.done /\ x.backlog = 0)
     \/ x.tlp[-1].probe \/ ~x.tlp[-1].sample
  THEN x
  ELSE IF RtoSooner(x) THEN [x EXCEPT !.tlp[-1].deadline = NoTime]
  ELSE [x EXCEPT !.tlp[-1].deadline = x.now + Pto(x), !.pto = x.now + Pto(x), !.ptoSub = -1]

\* The state of a subflow when the deadlines are brought up to date.
Deadline(x, f) ==
  LET t == x.tlp[f]
  IN  IF Of(x, f) = {} THEN [t EXCEPT !.deadline = NoTime, !.probe = FALSE, !.sample = TRUE]
      ELSE IF t.probe \/ ~t.sample \/ t.deadline > x.now THEN t
      ELSE [t EXCEPT !.deadline = IF RtoSooner(x) THEN NoTime ELSE x.now + Pto(x)]
\* tlpArmEarliestPTO: one timer for the earliest of the deadlines.
ArmEarliest(x) ==
  LET y == [x EXCEPT !.tlp = [f \in Subs |-> Deadline(x, f)] @@ @]
      armed == {f \in Subs : y.tlp[f].deadline # NoTime}
      at == Min({y.tlp[f].deadline : f \in armed})
  IN  IF armed = {} \/ (x.pto # NoTime /\ x.pto <= at) THEN y
      ELSE [y EXCEPT !.pto = at, !.ptoSub = Min({f \in armed : y.tlp[f].deadline = at}),
                     !.bad = @ \/ at < x.now]
Arm(x) == IF ~UseTlp THEN x ELSE IF x.split THEN ArmEarliest(x) ELSE ArmGlobal(x)

-----------------------------------------------------------------------------
(* Sending *)
CanSend(x) == (x.rtx # {} \/ x.backlog > 0) /\ x.cwnd >= x.inFlight + 1
Transmitted(x, p) ==
  Arm(StartRTO([x EXCEPT !.tx[p] = x.now, !.copies[p] = @ + 1, !.inFlight = @ + 1,
                         !.out = @ \cup {<<p, x.copies[p] + 1>>}], x.now))
SendRtxPacket(x) ==
  IF x.rtx = {} THEN [x EXCEPT !.bad = TRUE]
  ELSE Transmitted([x EXCEPT !.rtx = @ \ {Min(@)}], Min(x.rtx))
SendPacket(x) ==
  IF x.rtx # {} THEN SendRtxPacket(x)
  ELSE Transmitted([x EXCEPT !.backlog = @ - 1, !.highest = @ + 1], x.highest)
\* startSending takes a queued request of the source off the list.
StartSending(x) == [x EXCEPT !.busy = Append(@, x.now + 1), !.regs = Max({@ - 1, 0})]
PortFree(x) == Len(x.busy) < Ports

RECURSIVE SendIfPermitted(_)
SendIfPermitted(x) ==
  IF ~CanSend(x) \/ x.blocked \/ x.bad THEN x
  ELSE IF PortFree(x) THEN SendIfPermitted(StartSending(SendPacket(x)))
  ELSE [x EXCEPT !.blocked = TRUE, !.regs = @ + 1]

\* timeToSend; a source that cannot send passes the turn to the next request, its own.
RECURSIVE TimeToSend(_)
TimeToSend(x) ==
  LET y == [x EXCEPT !.blocked = FALSE]
      sent == StartSending(SendPacket(y))
  IN  IF x.regs = 0 THEN x
      ELSE IF ~CanSend(y) THEN TimeToSend([y EXCEPT !.regs = @ - 1])
      ELSE IF ~CanSend(sent) THEN sent
      ELSE IF PortFree(sent) THEN [sent EXCEPT !.bad = TRUE]
      ELSE [sent EXCEPT !.blocked = TRUE, !.regs = @ + 1]

QueueForRtx(x, p) == SendIfPermitted([x EXCEPT !.rtx = @ \cup {p}, !.bad = @ \/ p \in x.rtx])
\* Mutant: whether a port is free is not asked.
RequestAgainNow(x) == IF x.bad THEN x ELSE StartSending(SendRtxPacket(x))
\* The handlers that queue a packet then ask the NIC once more.
RequestAgain(x) ==
  IF x.bad THEN x ELSE IF PortFree(x) THEN StartSending(SendRtxPacket(x)) ELSE [x EXCEPT !.regs = @ + 1]

-----------------------------------------------------------------------------
(* RACK *)
\* The packet sent last of those that have been delivered, and the shortest round trip.
RackOnAckUpdate(x, p, t) ==
  LET y == [x EXCEPT !.split = NSub > 1]
      f == Subflow(y, p)
      r == x.rack[f]
      later == t > r.xmit \/ (t = r.xmit /\ p > r.end)
  IN  [y EXCEPT !.rack[f] = [xmit |-> IF later THEN t ELSE r.xmit, end |-> IF later THEN p ELSE r.end,
                             min |-> IF r.min = NoTime THEN x.now - t ELSE Min({r.min, x.now - t})]]
ReoWnd(r) == Max({r.min \div 4, MinReo})
\* Packets of _send_times that were sent long enough before one that was delivered.
Overtaken(x) ==
  {p \in Outstanding(x) : LET r == x.rack[Subflow(x, p)]
                          IN  r.min # NoTime /\ r.xmit > ReoWnd(r) /\ x.tx[p] <= r.xmit - ReoWnd(r)}
MarkForRetransmission(x) == [x EXCEPT !.inFlight = @ - 1, !.cwnd = Max({@ - 1, 1})]
RECURSIVE MarkLost(_, _)
MarkLost(x, ps) ==
  IF ps = {} THEN x
  ELSE LET p == CHOOSE q \in ps : \A o \in ps : x.tx[q] <= x.tx[o]
       IN  MarkLost(QueueForRtx(MarkForRetransmission([x EXCEPT !.tx[p] = NoTime]), p), ps \ {p})
RackDetectLosses(x) ==
  LET ps == Overtaken(x) IN IF ps = {} THEN x ELSE RecalculateRTO(MarkLost(x, ps))

-----------------------------------------------------------------------------
(* Tail loss probes *)
\* The packet sent again is no longer waited for.  The timer is not set anew.
Untracked(x, p) == [x EXCEPT !.tx[p] = NoTime, !.inFlight = @ - 1]
\* The last of the packets ps is sent again as the probe of f.
ProbeWith(x, f, p) ==
  RequestAgain(QueueForRtx(
    [Untracked(x, p) EXCEPT !.tlp[f] = [@ EXCEPT !.retrans = TRUE, !.end = p, !.probe = TRUE, !.sample = FALSE]], p))
ProbeLegacy(x) ==
  IF x.backlog > 0
  THEN LET y == SendIfPermitted([x EXCEPT !.tlp[-1].retrans = FALSE])
           sent == y.out # x.out
       IN  [y EXCEPT !.tlp[-1] = [@ EXCEPT !.end = IF sent THEN Max({y.highest - 1, 0}) ELSE @,
                                           !.probe = sent, !.sample = ~sent]]
  ELSE IF Outstanding(x) = {} THEN [x EXCEPT !.tlp[-1] = [@ EXCEPT !.probe = FALSE, !.sample = TRUE]]
  ELSE ProbeWith(x, -1, CHOOSE p \in Outstanding(x) : \A q \in Outstanding(x) : x.tx[q] <= x.tx[p])
ProbeSubflow(x, f) ==
  LET y == [x EXCEPT !.ptoSub = -1, !.tlp[f].deadline = NoTime,
                     !.early = @ \/ x.tlp[f].deadline = NoTime \/ x.tlp[f].deadline > x.now]
  IN  ArmEarliest(IF Of(x, f) = {} THEN [y EXCEPT !.tlp[f] = [@ EXCEPT !.probe = FALSE, !.sample = TRUE]]
                  ELSE ProbeWith(y, f, Max(Of(x, f))))
TlpSendProbe(x) ==
  LET y == [x EXCEPT !.pto = NoTime]
  IN  IF x.split /\ x.ptoSub >= 0 THEN ProbeSubflow(y, x.ptoSub) ELSE ProbeLegacy(y)

\* classifyTlpAck: an ACK of the probe or of a later packet.
Resolves(t, p) == t.probe /\ p >= t.end
ResolveTlpAck(x, p) ==
  LET f == Subflow(x, p)
  IN  [x EXCEPT !.tlp[f] = [@ EXCEPT !.probe = @ /\ ~Resolves(x.tlp[f], p), !.sample = TRUE,
                                     !.deadline = IF f = -1 THEN @ ELSE NoTime]]

-----------------------------------------------------------------------------
(* Handlers *)
RtxTimerExpired(x) ==
  LET y == [x EXCEPT !.rto = NoTime]
      p == CHOOSE q \in Outstanding(x) : \A o \in Outstanding(x) : x.tx[q] <= x.tx[o]
      reset == [f \in Subs |-> [x.tlp[f] EXCEPT !.probe = FALSE, !.sample = TRUE, !.deadline = NoTime]]
               @@ (-1 :> [x.tlp[-1] EXCEPT !.probe = FALSE, !.sample = TRUE])
      z == MarkForRetransmission(RecalculateRTO(
             [y EXCEPT !.tx[p] = NoTime, !.pto = NoTime, !.tlp = reset, !.timedOut = x.now - x.tx[p]]))
      q == QueueForRtx(z, p)
  IN  IF Outstanding(x) = {} THEN y
      ELSE IF z.rtx # {} \/ q.cwnd < 1 + q.inFlight THEN q
      ELSE RequestAgain(q)

\* handleAckno for packets queued: marking them took them off what is in flight, as the ACK will again.
Unqueue(x, ps) == [x EXCEPT !.rtx = @ \ ps, !.inFlight = @ + Cardinality(x.rtx \cap ps)]
EraseRecords(x, ps) ==
  LET y == [x EXCEPT !.tx = [p \in ps |-> NoTime] @@ @]
  IN  IF \E p \in ps \cap Outstanding(x) : x.tx[p] = x.rtoFrom THEN RecalculateRTO(y) ELSE y
Finished(x) == [x EXCEPT !.done = TRUE, !.rto = NoTime, !.pto = NoTime, !.rtx = {}, !.inFlight = 0,
                         !.tx = [p \in Psn |-> NoTime],
                         !.tlp = [f \in -1 .. NSub - 1 |-> [@[f] EXCEPT !.probe = FALSE, !.sample = TRUE, !.deadline = NoTime]]]
\* An ACK of copy c of p, for a receiver that now has the packets got.
ProcessAck(x, p, c, got) ==
  LET t == IF x.tx[p] # NoTime /\ c = x.copies[p] /\ c <= 2 THEN x.tx[p] ELSE NoTime
      a == [x EXCEPT !.inFlight = @ - Cardinality(got \ recv), !.rtt = IF t = NoTime THEN @ ELSE x.now - t]
      b == ResolveTlpAck(EraseRecords(Unqueue(a, got), got), p)
      d == IF t # NoTime /\ UseRack THEN RackDetectLosses(RackOnAckUpdate(b, p, t)) ELSE b
      e == [Arm(d) EXCEPT !.cwnd = Window]
  IN  IF got = Psn THEN Finished(e) ELSE SendIfPermitted(Arm(e))

-----------------------------------------------------------------------------
\* The packets a handler sent leave, each with a delay or to be lost.
Complete(after, n) == \E x \in {after} :
  /\ s' = [x EXCEPT !.out = {}]
  /\ \E fate \in [x.out -> Delays \cup {NoTime}] :
       LET gone == {o \in x.out : fate[o] = NoTime}
       IN  /\ lost + Cardinality(gone) <= MaxLoss
           /\ lost' = lost + Cardinality(gone)
           /\ net' = n \cup {[psn |-> o[1], copy |-> o[2], due |-> x.now + fate[o] + SubDelay * (o[1] % NSub)] : o \in x.out \ gone}

Init == s = Sender /\ net = {} /\ recv = {} /\ lost = 0 /\ tick = 0
Start == s.highest = 0 /\ s.backlog = NPkts /\ Complete(SendIfPermitted(s), net) /\ UNCHANGED recv

\* The event list goes to the earliest time something is due.
Times == {m.due : m \in net} \cup {s.busy[i] : i \in DOMAIN s.busy} \cup ({s.rto, s.pto} \ {NoTime})
At(t) == s.highest > 0 /\ t \in Times /\ \A u \in Times : t <= u
Later(t) == [s EXCEPT !.now = t]

PortDone ==
  /\ s.busy # <<>> /\ At(Head(s.busy))
  /\ Complete(TimeToSend([Later(Head(s.busy)) EXCEPT !.busy = Tail(@)]), net)
  /\ UNCHANGED recv
Ack ==
  \E m \in net :
    /\ At(m.due)
    /\ recv' = recv \cup {m.psn}
    /\ IF s.done THEN net' = net \ {m} /\ s' = Later(m.due) /\ UNCHANGED lost
       ELSE Complete(ProcessAck(Later(m.due), m.psn, m.copy, recv'), net \ {m})
\* doNextEvent: the retransmission timer, then the probe timer, if they are due.
Timer ==
  /\ \E t \in {s.rto, s.pto} \ {NoTime} :
       /\ At(t)
       /\ LET x == IF s.rto = t THEN RtxTimerExpired(Later(t)) ELSE Later(t)
          IN  Complete(IF x.pto = t THEN TlpSendProbe(x) ELSE x, net)
  /\ UNCHANGED recv

Event == tick' = 1 - tick
Next == Event /\ (Start \/ PortDone \/ Ack \/ Timer)
\* The event list runs as long as it has an event.
EventDue == (s.highest = 0 \/ Times # {}) /\ Event
Spec == Init /\ [][Next]_vars
-----------------------------------------------------------------------------
\* "The ackno is either in tx_bitmap or in rtx_queue or in neither, but never in both"; the window
\* counts what is in flight.
TypeOK ==
  /\ Outstanding(s) \cap s.rtx = {}
  /\ s.inFlight \in 0 .. NPkts /\ s.regs \in 0 .. NPkts + 2 /\ Len(s.busy) <= Ports
  /\ \A p \in Psn : s.copies[p] = 0 <=> p >= s.highest

\* The assertions of the sender hold: a packet is queued once, a retransmission finds one queued, and
\* no timer is set in the past.
AssertionsHold == ~s.bad

\* As long as the flow is not done something will happen: what is outstanding has a timer, and what
\* is queued waits for the NIC or for the window.
NeverStranded ==
  s.highest > 0 /\ ~s.done =>
    /\ Outstanding(s) # {} => s.rto # NoTime
    /\ s.rtx # {} \/ s.backlog > 0 => s.regs > 0 \/ Outstanding(s) # {}

\* In flight are the packets with a record that the receiver has not told of: what a probe replaces
\* is not counted twice.
InFlightCounts == ~s.done => s.inFlight = Cardinality(Outstanding(s))

\* Packets that overtake those of other subflows only are no sign of loss.
NothingSentTwice == \A p \in Psn : s.copies[p] <= 1

\* "we're no longer waiting for the packet we set the timer for - figure out what the timer should be
\* now": a packet that times out has been outstanding for the timeout.
\* The code does not keep this: see section 3 of the README.
TimeoutIsDue == s.timedOut >= Rto

\* "When it fires, we probe that subflow": a subflow is probed when its own deadline has come.
\* The code does not keep this: see section 3 of the README.
ProbeIsDue == ~s.early
=============================================================================
