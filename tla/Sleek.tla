------------------------------- MODULE Sleek -------------------------------
(***************************************************************************)
(* Sleek, the loss recovery of a UEC sender with sender based congestion   *)
(* control: the number of packets the receiver holds out of order, or a    *)
(* probe that comes back quickly, starts a recovery that sends what is     *)
(* missing again; a probe is sent when no ACK comes.                       *)
(*                                                                         *)
(* Time is counted from the present: a timer holds the time it has left, a *)
(* record the time since the packet was sent, and an event takes all of    *)
(* them on.  What is open is the delay of each packet up to its ACK, or    *)
(* its loss.  Packets have one size, counted as 1, and are acknowledged    *)
(* one by one; the RTS that a timeout may send is left to UecSrc.          *)
(***************************************************************************)
EXTENDS Integers, Sequences, FiniteSets, FiniteSetsExt, SequencesExt, TLC

CONSTANTS
  NPkts, Window, MaxWnd,  \* packets of the flow, congestion window, upper bound of the threshold
  MinOoo,                 \* lower bound of the threshold
  Delays, ProbeDelays,    \* times from sending data, or a probe, to the ACK
  BaseRtt, Target,        \* round trip without queueing, and the queueing delay aimed at
  Rto,
  MaxLoss,                \* bound on the data packets lost
  MaxAge                  \* times since are not told apart from here on

\* What this module assumes of its constants.
SleekAssumption ==
  NPkts \in Nat \ {0} /\ Window \in Nat \ {0} /\ BaseRtt > 0 /\ Target > 0 /\ MaxAge > Rto

VARIABLES
  s,      \* the sender
  net,    \* packets on their way, with the time to their ACK
  recv,   \* packets the receiver has
  lost,   \* packets lost so far
  tick    \* changes with every event

vars == <<s, net, recv, lost, tick>>
Psn == 0 .. NPkts - 1
None == -1

Sender ==
  [highest |-> 0, backlog |-> NPkts, age |-> [p \in Psn |-> None],   \* the records of _tx_bitmap
   timed |-> {},                                                    \* those of _send_times
   rtx |-> {}, again |-> {},                  \* queued; sent again before
   inFlight |-> 0, cwnd |-> Window, blocked |-> FALSE, regs |-> 0, busy |-> <<>>,
   rto |-> None, rtoAge |-> None,
   loss |-> FALSE, recovery |-> 0, highestRtx |-> 0,
   probe |-> None, probeNo |-> 0, probeAge |-> 0,
   done |-> FALSE, bad |-> FALSE, unknown |-> FALSE, out |-> {}]

Outstanding(x) == {p \in Psn : x.age[p] # None}
Oldest(x, ps) == CHOOSE p \in ps : \A q \in ps : x.age[q] <= x.age[p]

-----------------------------------------------------------------------------
(* The retransmission timer *)
StartRTO(x, a) ==
  IF x.rto = None \/ Rto - a < x.rto THEN [x EXCEPT !.rto = Max({Rto - a, 0}), !.rtoAge = a] ELSE x
\* The timer runs for the packet of _send_times that was sent first.
RecalculateRTO(x) ==
  LET y == [x EXCEPT !.rto = None]
  IN  IF x.timed = {} THEN y ELSE StartRTO(y, x.age[Oldest(x, x.timed)])

-----------------------------------------------------------------------------
(* Sending *)
CanSend(x) == (x.rtx # {} \/ x.backlog > 0) /\ (x.cwnd >= x.inFlight + 1 \/ (x.loss /\ x.rtx # {}))
Transmitted(x, p) ==
  StartRTO([x EXCEPT !.age = (p :> 0) @@ @, !.timed = @ \cup {p}, !.inFlight = @ + 1,
                     !.again = IF p < x.highest THEN @ \cup {p} ELSE @,
                     !.out = @ \cup {[probe |-> FALSE, psn |-> p]}, !.highest = Max({@, p + 1})], 0)
SendRtxPacket(x) ==
  IF x.rtx = {} THEN [x EXCEPT !.bad = TRUE] ELSE Transmitted([x EXCEPT !.rtx = @ \ {Min(@)}], Min(x.rtx))
SendPacket(x) == IF x.rtx # {} THEN SendRtxPacket(x) ELSE Transmitted([x EXCEPT !.backlog = @ - 1], x.highest)
StartSending(x) == [x EXCEPT !.busy = Append(@, 1), !.regs = Max({@ - 1, 0})]
PortFree(x) == x.busy = <<>>

RECURSIVE SendIfPermitted(_)
SendIfPermitted(x) ==
  IF ~CanSend(x) \/ x.blocked \/ x.bad THEN x
  ELSE IF PortFree(x) THEN SendIfPermitted(StartSending(SendPacket(x)))
  ELSE [x EXCEPT !.blocked = TRUE, !.regs = @ + 1]

\* timeToSend; a source that cannot send passes the turn to the next request, its own.
RECURSIVE TimeToSend(_)
TimeToSend(x) ==
  LET y == [x EXCEPT !.blocked = FALSE]
      sent == StartSending(SendPacket(y))
  IN  IF x.regs = 0 THEN x
      ELSE IF ~CanSend(y) THEN TimeToSend([y EXCEPT !.regs = @ - 1])
      ELSE IF ~CanSend(sent) THEN sent ELSE [sent EXCEPT !.blocked = TRUE, !.regs = @ + 1]

QueueForRtx(x, p) == SendIfPermitted([x EXCEPT !.rtx = @ \cup {p}, !.bad = @ \/ p \in x.rtx])

\* A busy port takes the request all the same, and will offer the sender a turn.
SendProbe(x) ==
  IF PortFree(x)
  THEN StartSending([x EXCEPT !.probeNo = Min({@ + 1, NPkts + 1}), !.probeAge = 0, !.probe = 5 * BaseRtt,
                              !.out = @ \cup {[probe |-> TRUE, psn |-> Min({x.probeNo + 1, NPkts + 1})]}])
  ELSE [x EXCEPT !.regs = @ + 1, !.probe = BaseRtt]

-----------------------------------------------------------------------------
(* Recovery *)
Threshold(x) == Max({Min({(3 * x.cwnd) \div 2, MaxWnd}), MinOoo})
\* p is no longer waited for and will be sent again.
GivenUp(x, p) == [x EXCEPT !.age = (p :> None) @@ @, !.timed = @ \ {p}, !.inFlight = @ - 1, !.highestRtx = p + 1]
SendAgain(x, p) ==
  LET y == QueueForRtx(GivenUp(x, p), p) IN IF x.age[p] = x.rtoAge THEN RecalculateRTO(y) ELSE y

\* What the recovery sends again: packets that have a record, within the window, beyond those it sent before.
Missing(x, cum) ==
  SetToSortSeq({p \in Outstanding(x) \ x.rtx : p >= Max({cum, x.highestRtx}) /\ p < Min({x.recovery, cum + x.cwnd})}, <)
RunSleek(x, ooo, cum) ==
  LET left == [x EXCEPT !.loss = @ /\ cum < x.recovery]
      on == IF left.loss \/ left.rtx # {} THEN left ELSE [left EXCEPT !.loss = TRUE, !.recovery = x.highest]
  IN  IF ooo < Threshold(left) /\ ~left.loss THEN left ELSE SendIfPermitted(FoldLeft(SendAgain, on, Missing(on, cum)))

\* The probe timer starts again as long as something is missing.
ProbeTimer(x, cum) ==
  [x EXCEPT !.probe = IF cum < x.highest \/ x.backlog > 0
                      THEN IF x.backlog = 0 THEN BaseRtt + Target ELSE 3 * BaseRtt ELSE None]

-----------------------------------------------------------------------------
(* Handlers *)
Unqueue(x, ps) == [x EXCEPT !.rtx = @ \ ps, !.inFlight = @ + Cardinality(x.rtx \cap ps)]
EraseRecords(x, ps) ==
  LET y == [x EXCEPT !.age = [p \in ps |-> None] @@ @, !.timed = @ \ ps]
  IN  IF \E p \in ps \cap Outstanding(x) : x.age[p] = x.rtoAge THEN RecalculateRTO(y) ELSE y
Finished(x) == [x EXCEPT !.done = TRUE, !.rto = None, !.rtx = {}, !.inFlight = 0, !.timed = {},
                         !.age = [p \in Psn |-> None] @@ @]

\* An ACK for a receiver that now has the packets got; quick if it is that of a probe that met no queue.
ProcessAck(x, got, quick) ==
  LET cum == Min({p \in 0 .. NPkts : p \notin got})
      ooo == Cardinality({p \in got : p > cum})
      a == EraseRecords(Unqueue([x EXCEPT !.inFlight = @ - Cardinality(got \ recv), !.cwnd = Window], got), got)
      b == ProbeTimer(a, cum)
      c == IF quick THEN [b EXCEPT !.loss = TRUE, !.recovery = x.highest, !.highestRtx = cum] ELSE b
      d == SendIfPermitted(RunSleek(c, ooo, cum))
  IN  IF x.done THEN d ELSE IF got = Psn THEN Finished(d) ELSE d

\* In a recovery the packet only leaves _send_times: sleek is to send it again.
TimedOutInRecovery(x, p) ==
  LET y == [x EXCEPT !.timed = @ \ {p}]
  IN  IF p \notin x.again THEN RecalculateRTO(y) ELSE [y EXCEPT !.highestRtx = p]
TimedOut(x, p) ==
  LET y == RecalculateRTO([x EXCEPT !.timed = @ \ {p}, !.age = (p :> None) @@ @])
      z == [y EXCEPT !.inFlight = @ - 1, !.cwnd = Max({@ - 1, 1})]
      q == QueueForRtx(z, p)
  IN  IF z.rtx # {} \/ q.cwnd < 1 + q.inFlight THEN q
      ELSE IF PortFree(q) THEN StartSending(SendRtxPacket(q)) ELSE [q EXCEPT !.regs = @ + 1]
RtxTimerExpired(x) ==
  LET y == [x EXCEPT !.rto = None]
      p == Oldest(y, y.timed)
  IN  IF y.timed = {} THEN y ELSE IF y.loss THEN TimedOutInRecovery(y, p) ELSE TimedOut(y, p)

-----------------------------------------------------------------------------
\* The packets a handler sent leave, each with a delay or to be lost; a new probe takes the place of
\* the last.
Complete(after, n) == \E x \in {after} :
  LET data == {o \in x.out : ~o.probe}
      probes == x.out \ data
      still == IF probes = {} THEN n ELSE {[m EXCEPT !.last = FALSE] : m \in n}
  IN  /\ s' = [x EXCEPT !.out = {}]
      /\ \E fate \in [data -> Delays \cup {None}], d \in ProbeDelays :
           LET gone == {o \in data : fate[o] = None}
           IN  /\ lost' = lost + Cardinality(gone) /\ lost' <= MaxLoss
               /\ net' = still \cup {[probe |-> FALSE, psn |-> o.psn, due |-> fate[o], last |-> FALSE] : o \in data \ gone}
                               \cup {[probe |-> TRUE, psn |-> o.psn, due |-> d, last |-> TRUE] : o \in probes}

Init == s = Sender /\ net = {} /\ recv = {} /\ lost = 0 /\ tick = 0
Start == s.highest = 0 /\ Complete(SendIfPermitted(s), net) /\ UNCHANGED recv

\* The event list goes to the earliest time something is due.
Times == {m.due : m \in net} \cup {s.busy[i] : i \in DOMAIN s.busy} \cup ({s.rto, s.probe} \ {None})
At(t) == s.highest > 0 /\ t \in Times /\ \A u \in Times : t <= u
Older(a, t) == IF a = None THEN None ELSE Min({a + t, MaxAge})
Nearer(left, t) == IF left = None THEN None ELSE left - t
Later(t) ==
  [s EXCEPT !.age = [p \in Psn |-> Older(@[p], t)], !.rtoAge = Older(@, t), !.probeAge = Older(@, t),
            !.rto = Nearer(@, t), !.probe = Nearer(@, t), !.busy = [i \in DOMAIN @ |-> @[i] - t]]
Passed(t) == {[m EXCEPT !.due = @ - t] : m \in net}

PortDone ==
  /\ s.busy # <<>> /\ At(Head(s.busy))
  /\ Complete(TimeToSend([Later(Head(s.busy)) EXCEPT !.busy = Tail(@)]), Passed(Head(s.busy)))
  /\ UNCHANGED recv
Ack ==
  \E m \in net :
    /\ ~m.probe /\ At(m.due)
    /\ recv' = recv \cup {m.psn}
    /\ Complete(ProcessAck(Later(m.due), recv', FALSE), Passed(m.due) \ {[m EXCEPT !.due = 0]})
\* The delay of a probe that is not the last one is taken from the average, which may be anything.
ProbeAck ==
  \E m \in net :
    /\ m.probe /\ At(m.due) /\ UNCHANGED recv
    /\ \E quick \in IF m.last THEN {s.probeAge + m.due < BaseRtt + Target} ELSE BOOLEAN :
         Complete([ProcessAck(Later(m.due), recv, quick) EXCEPT !.unknown = @ \/ m.psn >= s.highest],
                  Passed(m.due) \ {[m EXCEPT !.due = 0]})
\* doNextEvent: the retransmission timer, then the probe timer, if they are due.
Timer ==
  /\ \E t \in {s.rto, s.probe} \ {None} :
       /\ At(t)
       /\ LET x == IF s.rto = t THEN RtxTimerExpired(Later(t)) ELSE Later(t)
          IN  Complete(IF s.probe = t THEN SendProbe(x) ELSE x, Passed(t))
  /\ UNCHANGED recv

Event == tick' = 1 - tick
Next == Event /\ (Start \/ PortDone \/ Ack \/ ProbeAck \/ Timer)
\* The event list runs as long as it has an event.
EventDue == (s.highest = 0 \/ Times # {}) /\ Event
Spec == Init /\ [][Next]_vars
-----------------------------------------------------------------------------
\* A packet has a record or is queued, not both; the timer waits only for packets with a record.
TypeOK ==
  /\ Outstanding(s) \cap s.rtx = {} /\ s.timed \subseteq Outstanding(s)
  /\ s.inFlight \in 0 .. NPkts /\ s.regs \in 0 .. NPkts + 2 /\ Len(s.busy) <= 1

\* The assertions of the sender hold: no packet is queued that is queued already.
AssertionsHold == ~s.bad

\* The window counts the packets that have a record, through timeouts, recoveries and late ACKs.
InFlightCounts == ~s.done => s.inFlight = Cardinality(Outstanding(s))

\* A timeout in a recovery may leave packets without a timer of their own; then the probe timer runs,
\* or an ACK is on its way.
NeverStranded ==
  s.highest > 0 /\ ~s.done =>
    /\ Outstanding(s) # {} => s.rto # None \/ s.probe # None
    /\ s.rtx # {} \/ s.backlog > 0 => s.regs > 0 \/ Outstanding(s) # {}

\* An ACK tells of a packet that has been sent: the times it was sent again are looked up.
\* The code does not keep this: see section 3 of the README.
EveryAckIsKnown == ~s.unknown
=============================================================================
