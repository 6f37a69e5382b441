------------------------------ MODULE PacedRtx ------------------------------
(***************************************************************************)
(* A UEC sender with -pflr_pace_rtx, the mode of the "pfld_paced" runs:    *)
(* what is to be sent again waits for a pacing timer instead of leaving at *)
(* once, and when all of it has left, the same timer checks after a round  *)
(* trip what has not been acknowledged.                                    *)
(*                                                                         *)
(* Time is counted in the times of one packet on the wire.  Packets have   *)
(* one size, counted as 1; each is acknowledged, trimmed or lost.  A NACK  *)
(* stands for a trimmed packet and for one a probe found missing.  The RTS *)
(* that a timeout may send is left to UecSrc; jitter is zero, the default. *)
(***************************************************************************)
EXTENDS EventList, FiniteSetsExt, TLC

CONSTANTS
  NPkts, Window,      \* packets of the flow, congestion window
  Forward, Back,      \* times to the receiver, and from it
  BaseRtt, Rto,
  Subflows,           \* the pace is one packet in a round trip of a subflow
  EndTime,            \* of the simulation, or 0
  Ties,               \* whether a timeout and a check may fall on one picosecond
  MaxLoss, MaxTrim    \* bounds on the messages lost and the packets trimmed

\* What this module assumes of its constants.
PacedAssumption ==
  /\ NPkts \in Nat \ {0} /\ Window \in Nat \ {0} /\ Forward \subseteq Nat \ {0} /\ Back \subseteq Nat \ {0}
  /\ BaseRtt \in Nat \ {0} /\ Rto > BaseRtt /\ Subflows \in Nat \ {0} /\ EndTime \in Nat
  /\ Ties \in BOOLEAN /\ MaxLoss \in Nat /\ MaxTrim \in Nat

VARIABLES
  s,       \* the sender, its NIC and the event list
  net,     \* messages on their way: the time of their arrival, data or what the receiver said
  recv,    \* packets the receiver has
  lost, trimmed

vars == <<s, net, recv, lost, trimmed>>
Psn == 0 .. NPkts - 1
None == -1

Sender ==
  [el |-> EmptyList(EndTime), highest |-> 0, backlog |-> NPkts,
   sent |-> [p \in Psn |-> None],        \* the records, with the times they were sent at
   times |-> [p \in Psn |-> 0],          \* how often each was sent again, up to 2
   rtx |-> {}, inFlight |-> 0, cwnd |-> Window, rtt |-> BaseRtt, recvd |-> 0,
   blocked |-> FALSE, regs |-> 0, busy |-> FALSE,
   rto |-> None, rtoSent |-> None, rtoHandle |-> NullHandle,
   pace |-> FALSE, paceAt |-> 0, paceNext |-> 0, paceHandle |-> NullHandle, tail |-> FALSE, rounds |-> 0,
   done |-> FALSE, bad |-> FALSE, out |-> {},
   lastRtx |-> None, marks |-> {}]       \* what the properties below ask about

Now(x) == x.el.now
Outstanding(x) == {p \in Psn : x.sent[p] # None}

-----------------------------------------------------------------------------
(* Timers *)
ClearRTO(x) == [x EXCEPT !.rto = None, !.rtoHandle = NullHandle]
CancelRTO(x) ==
  IF x.rto = None THEN x ELSE ClearRTO([x EXCEPT !.el = CancelPendingSourceByHandle(@, "src", x.rtoHandle)])
\* The timer for a packet sent at time t; past the end of the simulation there is none.
SetRTO(x, t) ==
  LET at == Max({t + Rto, Now(x)})
  IN  [x EXCEPT !.el = SourceIsPending(@, "src", at), !.rtoHandle = HandleOf(x.el, at), !.rtoSent = t,
                !.rto = IF TooLate(x.el, at) THEN None ELSE at]
StartRTO(x, t) == IF x.rto = None THEN SetRTO(x, t) ELSE IF t + Rto < x.rto THEN SetRTO(CancelRTO(x), t) ELSE x
RecalculateRTO(x) ==
  LET y == CancelRTO(x)
  IN  IF Outstanding(y) = {} THEN y ELSE StartRTO(y, Min({y.sent[p] : p \in Outstanding(y)}))

CancelPace(x) ==
  [x EXCEPT !.el = CancelPendingSourceByHandle(@, "src", x.paceHandle), !.pace = FALSE, !.paceHandle = NullHandle]
CancelTailCheck(x) == [IF x.tail /\ x.pace THEN CancelPace(x) ELSE x EXCEPT !.tail = FALSE]

-----------------------------------------------------------------------------
(* Sending *)
CanSend(x) == (x.rtx # {} \/ x.backlog > 0) /\ x.cwnd >= x.inFlight + 1
Interval(x) == Max({1, x.rtt \div Subflows})
CreateSendRecord(x, p) ==
  [x EXCEPT !.sent[p] = Now(x), !.times[p] = IF p < x.highest THEN Min({@ + 1, 2}) ELSE 0]
Transmitted(x, p) ==
  StartRTO([CreateSendRecord(x, p) EXCEPT !.inFlight = @ + 1, !.out = @ \cup {p}, !.highest = Max({@, p + 1})], Now(x))
SendRtxPacket(x) ==
  LET p == Min(x.rtx)
      close == x.lastRtx # None /\ Now(x) < x.lastRtx + Max({1, BaseRtt \div Subflows})
  IN  IF x.rtx = {} THEN [x EXCEPT !.bad = TRUE]
      ELSE Transmitted([x EXCEPT !.rtx = @ \ {p}, !.lastRtx = Now(x), !.marks = IF close THEN @ \cup {"close"} ELSE @], p)
SendPacket(x) == IF x.rtx # {} THEN SendRtxPacket(x) ELSE Transmitted([x EXCEPT !.backlog = @ - 1], x.highest)
\* The NIC: the port is busy for one packet's time.
StartSending(x) == [x EXCEPT !.busy = TRUE, !.regs = Max({@ - 1, 0}), !.el = SourceIsPending(@, "nic", Now(x) + 1)]

\* Sending makes the port busy, so what is left waits for the NIC.
BlockOnNic(x) == [x EXCEPT !.blocked = TRUE, !.regs = @ + 1]
BlockToGoOn(x) == IF CanSend(x) THEN BlockOnNic(x) ELSE x
SendIfPermitted(x) ==
  IF ~CanSend(x) \/ x.blocked THEN x
  ELSE IF x.busy THEN BlockOnNic(x)
  ELSE BlockToGoOn(StartSending(SendPacket(x)))

\* A source that cannot send passes the turn to the next request, which is its own.
TimeToSend(x) ==
  IF x.regs = 0 THEN x
  ELSE IF ~CanSend(x) THEN [x EXCEPT !.blocked = FALSE, !.regs = 0]
  ELSE BlockToGoOn(StartSending(SendPacket([x EXCEPT !.blocked = FALSE])))

PaceAt(x) == Max({Now(x), x.paceNext})
\* scheduleRtxPacedSend: a timer for the next packet, unless it may leave now.
ScheduleRtxPacedSend(x) ==
  LET at == PaceAt(x)
      y == [x EXCEPT !.paceNext = at + Interval(x)]
  IN  IF x.rtx = {} THEN x
      ELSE IF at <= Now(x) THEN SendIfPermitted(y)
      ELSE IF x.pace THEN y
      ELSE [y EXCEPT !.el = SourceIsPending(@, "src", at), !.paceHandle = HandleOf(x.el, at), !.paceAt = at,
                     !.pace = ~TooLate(x.el, at)]

-----------------------------------------------------------------------------
(* Answers of the receiver *)
Unqueue(x, ps) == [x EXCEPT !.rtx = @ \ ps, !.inFlight = @ + Cardinality(x.rtx \cap ps)]
EraseRecords(x, ps) ==
  LET y == [x EXCEPT !.sent = [p \in Psn |-> IF p \in ps THEN None ELSE @[p]]]
  IN  IF \E p \in ps \cap Outstanding(x) : x.sent[p] = x.rtoSent THEN RecalculateRTO(y) ELSE y
Finished(x) ==
  LET y == IF x.pace THEN CancelPace(CancelRTO(x)) ELSE CancelRTO(x)
  IN  [y EXCEPT !.done = TRUE, !.tail = FALSE, !.rounds = 0, !.paceNext = 0, !.paceAt = 0, !.rtx = {}, !.inFlight = 0,
                !.sent = [p \in Psn |-> None]]

\* An ACK of a packet, first sent or sent again, by a receiver that had the packets got.  The round trip
\* is measured where it is known which copy the ACK is for.
ProcessAck(x, m) ==
  LET known == x.sent[m.psn] # None /\ x.times[m.psn] = (IF m.again THEN 1 ELSE 0)
      a == [x EXCEPT !.recvd = Max({@, Cardinality(m.got)}), !.inFlight = @ - Max({Cardinality(m.got) - x.recvd, 0}),
                     !.rtt = IF known THEN Now(x) - x.sent[m.psn] ELSE @]
      b == [EraseRecords(Unqueue(a, m.got), m.got) EXCEPT !.cwnd = Window]
  IN  IF x.done THEN x ELSE IF m.got = Psn THEN Finished(b) ELSE SendIfPermitted(b)

\* "Reset RTO from now".
NackTimer(x) == StartRTO(CancelRTO(x), Now(x))
Nacked(x, p) ==
  [x EXCEPT !.rtt = Now(x) - x.sent[p], !.sent[p] = None, !.inFlight = @ - 1, !.rtx = @ \cup {p}, !.bad = @ \/ p \in x.rtx]
KeepPace(x) == IF x.pace THEN x ELSE ScheduleRtxPacedSend(x)
ForgetTail(x) == [IF x.tail /\ x.pace THEN CancelTailCheck(x) ELSE x EXCEPT !.rounds = 0]
ProcessNack(x, p) ==
  IF x.sent[p] = None THEN x
  ELSE NackTimer(KeepPace(ForgetTail(IF x.sent[p] = x.rtoSent THEN RecalculateRTO(Nacked(x, p)) ELSE Nacked(x, p))))

-----------------------------------------------------------------------------
(* doNextEvent of the source: whatever is due now *)
Oldest(x) == CHOOSE q \in Outstanding(x) : \A r \in Outstanding(x) : x.sent[q] <= x.sent[r]
TimedOut(x, p) ==
  [RecalculateRTO([x EXCEPT !.sent[p] = None, !.marks = IF Now(x) < x.sent[p] + Rto THEN @ \cup {"early"} ELSE @])
   EXCEPT !.inFlight = @ - 1, !.cwnd = Max({@ - 1, 1}), !.rtx = @ \cup {p}, !.bad = @ \/ p \in x.rtx]
\* The packet is sent at once unless others wait or the window is full.
SendExpired(x, waiting) ==
  IF waiting # {} \/ x.cwnd < 1 + x.inFlight THEN KeepPace(x)
  ELSE IF x.busy THEN [x EXCEPT !.regs = @ + 1] ELSE StartSending(SendRtxPacket(x))
Expire(x) == IF Outstanding(x) = {} THEN x ELSE SendExpired(TimedOut(x, Oldest(x)), x.rtx)
RtxTimerExpired(x) == Expire(CancelTailCheck(ClearRTO(x)))

TailSet(x, ps) ==
  [x EXCEPT !.sent = [p \in Psn |-> IF p \in ps THEN None ELSE @[p]], !.rtx = @ \cup ps, !.inFlight = @ - Cardinality(ps)]
AfterTail(x) == IF x.rtx = {} THEN x ELSE NackTimer(ScheduleRtxPacedSend(x))
\* Everything that still has a record is sent again.
TailCheck(x, spurious) ==
  LET ps == Outstanding(x) \ x.rtx
  IN  AfterTail(TailSet([x EXCEPT !.tail = FALSE, !.rounds = @ + 1,
                                  !.marks = IF ps \cap spurious # {} THEN @ \cup {"spurious"} ELSE @], ps))
TailCheckDue(x) == x.rtx = {} /\ Outstanding(x) # {} /\ ~x.done /\ x.backlog = 0 /\ ~x.tail /\ x.rounds < 3
\* The timer is taken to be pending whatever the event list returned.
ScheduleTailCheck(x) ==
  LET at == Now(x) + x.rtt
  IN  [x EXCEPT !.tail = TRUE, !.paceNext = at, !.paceAt = at, !.pace = TRUE,
                !.el = SourceIsPending(@, "src", at), !.paceHandle = HandleOf(x.el, at)]
PaceFired(x) == [x EXCEPT !.pace = FALSE, !.paceHandle = NullHandle]
PacedSend(x) == IF ~x.done /\ x.rtx # {} THEN ScheduleRtxPacedSend(SendIfPermitted(x)) ELSE x
CheckTail(x, spurious) ==
  IF x.tail /\ x.rtx = {} /\ Outstanding(x) # {} /\ ~x.done THEN TailCheck(x, spurious) ELSE x
CheckLater(x) == IF TailCheckDue(x) THEN ScheduleTailCheck(x) ELSE x
PaceTimer(x, spurious) == CheckLater(CheckTail(PacedSend(PaceFired(x)), spurious))

BlockForMore(x) == IF x.backlog > 0 THEN BlockOnNic(x) ELSE x
\* startFlow sends without a look at the window.
StartFlow(x) ==
  IF x.busy THEN BlockOnNic(x)
  ELSE BlockForMore(StartSending(SendPacket(x)))

PaceWhenDue(x, spurious) == IF x.pace /\ x.paceAt = Now(x) THEN PaceTimer(x, spurious) ELSE x
StartWhenDue(x) == IF x.highest = 0 THEN StartFlow(x) ELSE x
\* An event of the source is told from others by its time.
DoNextEvent(x, spurious) ==
  StartWhenDue(PaceWhenDue(IF x.rto = Now(x) THEN RtxTimerExpired(x) ELSE x, spurious))
PortDone(x) == TimeToSend([x EXCEPT !.busy = FALSE])

-----------------------------------------------------------------------------
Init ==
  /\ s = [Sender EXCEPT !.el = SourceIsPending(@, "src", 0)]
  /\ net = {} /\ recv = {} /\ lost = 0 /\ trimmed = 0

\* Packets leave, each to arrive at some time, or lost.
Complete(after, n) == \E x \in {after} :
  /\ s' = [x EXCEPT !.out = {}]
  /\ \E fate \in [x.out -> Forward \cup {None}] :
       LET gone == {p \in x.out : fate[p] = None}
       IN  /\ lost' = lost + Cardinality(gone) /\ lost' <= MaxLoss
           /\ net' = n \cup {[at |-> Now(x) + fate[p], what |-> "data", psn |-> p, again |-> x.times[p] > 0] : p \in x.out \ gone}

Times == {m.at : m \in net} \cup {s.el.pending[i].at : i \in DOMAIN s.el.pending}
First(t) == \A u \in Times : t <= u
Tie == ~Ties /\ s.tail /\ s.pace /\ s.rto = s.paceAt
Halted == s.bad \/ s.el.fault # "none" \/ Tie
\* Of what is due at one time, events of the list keep their order; messages come in any.
RunEvent ==
  /\ ~Halted /\ s.el.pending # <<>> /\ First(NextEvent(s.el).at)
  /\ LET x == [s EXCEPT !.el = Advanced(@)]
     IN  Complete(IF NextEvent(s.el).src = "nic" THEN PortDone(x) ELSE DoNextEvent(x, {m.psn : m \in net}), net)
  /\ UNCHANGED <<recv, trimmed>>
Arrival(m) == ~Halted /\ m \in net /\ First(m.at)
Reached(m) == [s EXCEPT !.el.now = m.at]
\* The receiver answers: an ACK with all it has, or a NACK for a packet that comes trimmed.
AtReceiver ==
  \E m \in net, d \in Back \cup {None}, trim \in BOOLEAN :
    /\ Arrival(m) /\ m.what = "data"
    /\ trimmed' = trimmed + (IF trim THEN 1 ELSE 0) /\ trimmed' <= MaxTrim
    /\ lost' = lost + (IF d = None THEN 1 ELSE 0) /\ lost' <= MaxLoss
    /\ recv' = IF trim THEN recv ELSE recv \cup {m.psn}
    /\ s' = Reached(m)
    /\ net' = (net \ {m}) \cup
              IF d = None THEN {}
              ELSE IF trim THEN {[at |-> m.at + d, what |-> "nack", psn |-> m.psn]}
              ELSE {[at |-> m.at + d, what |-> "ack", psn |-> m.psn, again |-> m.again, got |-> recv']}
AtSender ==
  \E m \in net :
    /\ Arrival(m) /\ m.what # "data"
    /\ Complete(IF m.what = "nack" THEN ProcessNack(Reached(m), m.psn) ELSE ProcessAck(Reached(m), m), net \ {m})
    /\ UNCHANGED <<recv, trimmed>>
Next == RunEvent \/ AtReceiver \/ AtSender
Spec == Init /\ [][Next]_vars
-----------------------------------------------------------------------------
\* A packet has a record or is queued, not both.
TypeOK ==
  /\ Outstanding(s) \cap s.rtx = {} /\ s.regs \in 0 .. NPkts + 2 /\ s.rounds \in 0 .. 3

\* No assertion fails, of the sender about its queue and of the event list about handles and times.
AssertionsHold == ~s.bad /\ s.el.fault = "none"

\* The window counts the packets that have a record, through paced repeats, checks and late answers.
InFlightCounts == ~s.done => s.inFlight = Cardinality(Outstanding(s))

\* A packet that is waited for has the timer, and what is to be sent has a way to leave.
NeverStranded ==
  s.highest > 0 /\ ~s.done =>
    /\ Outstanding(s) # {} => s.rto # None
    /\ s.rtx # {} \/ s.backlog > 0 => s.regs > 0 \/ s.pace \/ Outstanding(s) # {}

\* The simulator stops when nothing is left to happen; then the flow is complete.
EndsComplete == s.el.pending = <<>> /\ net = {} => s.done

\* "Ensure no stale retransmission state survives a completed flow" (880): no timer is left to run.
NothingSurvives == s.done => \A i \in DOMAIN s.el.pending : s.el.pending[i].src = "src" => s.el.pending[i].at = s.el.now

\* "RTO only needs to catch retransmission failures" (2144): a packet times out when it has been
\* waited for that long.
\* The code does not keep this: see section 3 of the README.
TimeoutsAreDue == "early" \notin s.marks

\* "Pace at subflow granularity" (4536): two packets sent again keep their distance.
\* The code does not keep this: see section 3 of the README.
RepeatsArePaced == "close" \notin s.marks

\* "Whatever remains is genuinely lost" (2238): a check does not send again what is on its way or answered.
\* The code does not keep this: see section 3 of the README.
OnlyLostSentAgain == "spurious" \notin s.marks
=============================================================================
