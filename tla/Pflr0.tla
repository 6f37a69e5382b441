-------------------------------- MODULE Pflr0 --------------------------------
(***************************************************************************)
(* Precise fast loss detection at the sender: pflr scheme 0, with RSS.     *)
(* The sender keeps, for every entropy value (EV), the packets last sent   *)
(* on it in their order.  Packets of one EV stay in order, so the answer   *)
(* to one of them makes a loss of those before it.  The last packets of    *)
(* the subflows are followed by probes.                                    *)
(*                                                                         *)
(* Packets have one size, counted as 1.  A timer runs out when nothing is  *)
(* on its way.  An RTS, which a timeout without a window sends, is left    *)
(* out: its answer moves neither the count in flight nor the window.       *)
(* Probes within the flow (-pflr_proactive_probe) are off, the default.    *)
(***************************************************************************)
EXTENDS Integers, Sequences, FiniteSetsExt, SequencesExt

CONSTANTS
  NPkts, Window,      \* packets of the flow, congestion window
  NSlots, Gens,       \* subflows, and the EVs each may draw
  Coalesce,           \* the receiver answers several packets at once
  Reorder,            \* answers overtake each other
  LoseAnswers,        \* answers may be among what is lost
  MaxLoss, MaxTrim, MaxChange      \* bounds: messages lost, packets trimmed, changes of path

\* What this module assumes of its constants.
Pflr0Assumption ==
  /\ {NPkts, Window, NSlots, Gens} \subseteq Nat \ {0} /\ {Coalesce, Reorder, LoseAnswers} \subseteq BOOLEAN
  /\ {MaxLoss, MaxTrim, MaxChange} \subseteq Nat

VARIABLES
  s,                  \* the sender and its port
  path,               \* data and probes on each EV, in order
  ctrl,               \* answers of the receiver, oldest first
  recv,               \* packets the receiver has
  faults              \* how many messages were lost, packets trimmed, paths changed

vars == <<s, path, ctrl, recv, faults>>

Psn  == 0 .. NPkts - 1
Evs  == 0 .. NSlots * Gens - 1
Slot(n) == n % NSlots       \* of a psn, and of an EV

Sender ==
  [highest |-> 0, backlog |-> NPkts,
   cur |-> [i \in 0 .. NSlots - 1 |-> i],     \* _rss_state_entropies
   order |-> <<>>,                            \* the send records, oldest first
   rtx |-> {}, record |-> [e \in Evs |-> <<>>],   \* pflr0_sender_record
   probes |-> <<>>, inFlight |-> 0, cwnd |-> Window, recvd |-> 0,
   blocked |-> FALSE, regs |-> 0, busy |-> FALSE, done |-> FALSE,
   out |-> <<>>,                              \* what the handler sends
   bad |-> "none", leak |-> 0,
   marked |-> {}, wrong |-> {}]               \* what the properties below ask about

Outstanding(x) == ToSet(x.order)
Without(seq, ps) == SelectSeq(seq, LAMBDA p : p \notin ps)

-----------------------------------------------------------------------------
(* Sending *)
ProbeNext(x) == x.rtx = {} /\ x.probes # <<>>
CanSend(x) == ProbeNext(x) \/ ((x.rtx # {} \/ x.backlog > 0) /\ x.cwnd >= x.inFlight + 1)

\* Mutant: the psn moves to the front of the list.
RegisterInFront(x, p, ev) ==
  [x EXCEPT !.record = [e \in Evs |-> IF e = ev THEN <<p>> \o Without(@[e], {p}) ELSE Without(@[e], {p})]]
\* The psn moves to the end of the list of its new path.
RegisterSend(x, p, ev) ==
  [x EXCEPT !.record = [e \in Evs |-> IF e = ev THEN Append(Without(@[e], {p}), p) ELSE Without(@[e], {p})]]

Transmitted(x, p, again) ==
  LET ev == x.cur[Slot(p)]
      y == RegisterSend([x EXCEPT !.order = Append(@, p), !.inFlight = @ + 1], p, ev)
      ar == again \/ y.backlog = 0 \/ y.inFlight + 1 >= y.cwnd
  IN  [y EXCEPT !.out = Append(@, [ev |-> ev, psn |-> p, probe |-> FALSE, ar |-> ar])]
SendRtxPacket(x) == LET p == Min(x.rtx) IN Transmitted([x EXCEPT !.rtx = @ \ {p}], p, TRUE)
SendNewPacket(x) ==
  LET p == x.highest
      y == [x EXCEPT !.backlog = @ - 1, !.highest = @ + 1]
      last == y.backlog < NSlots
  IN  Transmitted(IF last THEN [y EXCEPT !.probes = Append(@, [psn |-> p, ev |-> x.cur[Slot(p)]])] ELSE y, p, FALSE)
SendProbePacket(x) ==
  LET m == Head(x.probes)
  IN  [x EXCEPT !.probes = Tail(@), !.out = Append(@, [ev |-> m.ev, psn |-> m.psn, probe |-> TRUE, ar |-> FALSE])]
SendPacket(x) == IF x.rtx # {} THEN SendRtxPacket(x) ELSE IF x.probes # <<>> THEN SendProbePacket(x) ELSE SendNewPacket(x)

BlockOnNic(x) == [x EXCEPT !.blocked = TRUE, !.regs = @ + 1]
StartSending(x) == [x EXCEPT !.busy = TRUE, !.regs = Max({@ - 1, 0})]
\* Sending makes the port busy, so what is left waits for the NIC.
SendIfPermitted(x) ==
  IF ~CanSend(x) \/ x.blocked THEN x
  ELSE IF x.busy THEN BlockOnNic(x)
  ELSE LET y == StartSending(SendPacket(x)) IN IF CanSend(y) THEN BlockOnNic(y) ELSE y

TimeToSend(x) ==
  LET y == [x EXCEPT !.blocked = FALSE]
      sent == StartSending(SendPacket(y))
  IN  IF x.regs = 0 THEN x
      ELSE IF ~CanSend(y) THEN [y EXCEPT !.regs = 0]
      ELSE IF ~CanSend(sent) THEN sent ELSE BlockOnNic(sent)

QueueForRtx(x, p) ==
  SendIfPermitted([x EXCEPT !.rtx = @ \cup {p}, !.bad = IF p \in x.rtx THEN "queued twice" ELSE @])

-----------------------------------------------------------------------------
(* pflr0SenderReceiveAck *)
\* What is taken for lost leaves the records but stays counted as in flight.
MarkLost(x, p, by) ==
  [x EXCEPT !.order = Without(@, {p}), !.leak = @ + 1, !.marked = @ \cup {<<p, by>>},
            !.wrong = IF \E i \in DOMAIN x.out : x.out[i].psn = p THEN @ \cup {by} ELSE @]

\* One turn of the loop, at position i of the list.  To queue a packet may send one, which moves the
\* entries and may erase the list that the loop is at.
Visit(x, ev, i, psn, probe) ==
  LET p == x.record[ev][i]
      y == [x EXCEPT !.record[ev] = RemoveAt(@, i)]
      z == QueueForRtx(MarkLost(y, p, IF probe THEN "probe" ELSE "ack"), p)
  IN  IF x.bad # "none" THEN x
      ELSE IF i > Len(x.record[ev]) THEN [x EXCEPT !.bad = "past the end"]
      ELSE IF (p = psn /\ ~probe) \/ p \notin Outstanding(y) THEN y
      ELSE IF z.out # y.out /\ z.record[ev] = <<>> THEN [z EXCEPT !.bad = "erased"] ELSE z

\* All that was sent on the path up to the packet answered: lost, unless this answer is its ACK.
SenderReceiveAck(x, psn, ev, probe) ==
  LET seq == x.record[ev]
      found == {i \in DOMAIN seq : seq[i] = psn}
  IN  IF found = {} THEN x
      ELSE FoldRight(LAMBDA i, y : Visit(y, ev, i, psn, probe), [i \in 1 .. Min(found) |-> i], x)

-----------------------------------------------------------------------------
(* The handlers *)
\* handleCumulativeAck and handleAckno for all the receiver has.  What waits to be sent again was taken
\* off the count when it was marked, says the code.
HandleAcks(x, got) ==
  [x EXCEPT !.rtx = @ \ got, !.inFlight = @ + Cardinality(x.rtx \cap got), !.order = Without(@, got)]

Finished(x) == [x EXCEPT !.done = TRUE, !.rtx = {}, !.order = <<>>, !.inFlight = 0]

\* Feedback may move a subflow to another path, whose EV has its number in the low bits.
Moves(x, slots) ==
  {x} \cup IF faults.change = MaxChange THEN {}
           ELSE {[x EXCEPT !.cur[Slot(e)] = e] : e \in {f \in Evs : Slot(f) \in slots}}
Used(x) == {i \in DOMAIN x.cur : i < x.highest}

AckCounted(x, m) ==
  LET n == Cardinality(m.got)
  IN  [x EXCEPT !.inFlight = @ - Max({n - x.recvd, 0}), !.recvd = Max({@, n})]
ProcessAck(x, m) ==
  LET a == HandleAcks(SenderReceiveAck(AckCounted(x, m), m.psn, m.ev, FALSE), m.got)
  IN  IF x.done \/ a.bad # "none" THEN {a}
      ELSE {IF m.got = Psn THEN Finished(b) ELSE SendIfPermitted([b EXCEPT !.cwnd = Window]) : b \in Moves(a, Used(a))}
ProcessProbeAck(x, m) ==
  LET a == SenderReceiveAck(x, m.psn, m.ev, TRUE) IN {IF a.bad = "none" THEN SendIfPermitted(a) ELSE a}
ProcessNack(x, p) ==
  LET a == QueueForRtx([x EXCEPT !.order = Without(@, {p}), !.inFlight = @ - 1], p)
  IN  IF p \notin Outstanding(x) THEN {x} ELSE {SendIfPermitted(b) : b \in Moves(a, Used(a))}

\* The oldest packet.  With the packet queued, and sent if that could be, the NIC is asked once more.
RtxTimerExpired(x) ==
  LET p == Head(x.order)
      Marked(b) == [b EXCEPT !.order = Tail(@), !.inFlight = @ - 1, !.cwnd = Max({@ - 1, 1})]
      Requested(y) == IF y.cwnd < 1 + y.inFlight THEN y ELSE [y EXCEPT !.regs = @ + 1, !.bad = IF y.busy THEN @ ELSE "empty queue"]
  IN  {IF x.rtx # {} THEN QueueForRtx(Marked(b), p) ELSE Requested(QueueForRtx(Marked(b), p)) : b \in Moves(x, {Slot(p)})}

PortDone(x) == TimeToSend([x EXCEPT !.busy = FALSE])

-----------------------------------------------------------------------------
Init ==
  /\ s = Sender /\ path = [e \in Evs |-> <<>>] /\ ctrl = <<>> /\ recv = {}
  /\ faults = [lost |-> 0, trimmed |-> 0, change |-> 0]

\* What takes a packet for lost that the receiver has or that is on its way.
Mistaken(x) ==
  {m[2] : m \in {n \in x.marked :
     n[1] \in recv \/ \E e \in Evs : \E i \in DOMAIN path[e] : path[e][i].psn = n[1] /\ ~path[e][i].probe}}

Sent(e, x) == SelectSeq(x.out, LAMBDA m : m.ev = e)
\* A handler ends: its packets join their paths.
Complete(outcomes) == \E x \in outcomes :
  /\ s' = [x EXCEPT !.out = <<>>, !.marked = {}, !.wrong = @ \cup Mistaken(x)]
  /\ path' = [e \in Evs |-> path[e] \o Sent(e, x)]
  /\ faults' = [faults EXCEPT !.change = @ + (IF x.cur # s.cur THEN 1 ELSE 0)]

Halted == s.bad # "none"
Idle == ctrl = <<>> /\ ~s.busy /\ \A e \in Evs : path[e] = <<>>

\* startFlow: the first packet, and the rest as the NIC permits.
StartFlow ==
  /\ s.highest = 0 /\ Complete({LET y == StartSending(SendPacket(s)) IN IF y.backlog > 0 THEN BlockOnNic(y) ELSE y})
  /\ UNCHANGED <<ctrl, recv>>
PortEvent == ~Halted /\ s.busy /\ Complete({PortDone(s)}) /\ UNCHANGED <<ctrl, recv>>
Timeout == ~Halted /\ Idle /\ s.order # <<>> /\ Complete(RtxTimerExpired(s)) /\ UNCHANGED <<ctrl, recv>>
Answers(m) == CASE m.kind = "ack" -> ProcessAck(s, m) [] m.kind = "probe" -> ProcessProbeAck(s, m) [] m.kind = "nack" -> ProcessNack(s, m.psn)
AtSender ==
  \E i \in DOMAIN ctrl :
    /\ ~Halted /\ (Reorder \/ i = 1) /\ ctrl' = RemoveAt(ctrl, i)
    /\ Complete(Answers(ctrl[i])) /\ UNCHANGED recv

\* The receiver answers probes, packets it has, the first one and those that ask for it; others now or later.
Answer(m, got) == [kind |-> IF m.probe THEN "probe" ELSE "ack", psn |-> m.psn, ev |-> m.ev, got |-> got]
MayWait(m) == Coalesce /\ ~m.probe /\ ~m.ar /\ recv # {} /\ m.psn \notin recv
AtReceiver ==
  \E e \in Evs, now \in BOOLEAN :
    /\ ~Halted /\ path[e] # <<>> /\ (now \/ MayWait(Head(path[e])))
    /\ LET m == Head(path[e])
       IN  /\ recv' = IF m.probe THEN recv ELSE recv \cup {m.psn}
           /\ path' = [path EXCEPT ![e] = Tail(@)]
           /\ ctrl' = IF now THEN Append(ctrl, Answer(m, recv')) ELSE ctrl
    /\ UNCHANGED <<s, faults>>
\* A full queue drops a packet or strips it: data becomes a NACK, or an ACK where the receiver has it,
\* and a probe overtakes what it follows.
Stripped(m) ==
  IF m.probe \/ m.psn \in recv THEN Answer(m, recv) ELSE [kind |-> "nack", psn |-> m.psn]
Trim ==
  \E e \in Evs : \E i \in DOMAIN path[e] :
    /\ ~Halted /\ faults.trimmed < MaxTrim /\ faults' = [faults EXCEPT !.trimmed = @ + 1]
    /\ path' = [path EXCEPT ![e] = RemoveAt(@, i)] /\ ctrl' = Append(ctrl, Stripped(path[e][i]))
    /\ UNCHANGED <<s, recv>>
Lose ==
  /\ ~Halted /\ faults.lost < MaxLoss /\ faults' = [faults EXCEPT !.lost = @ + 1]
  /\ \/ /\ LoseAnswers /\ ctrl # <<>> /\ ctrl' = Tail(ctrl) /\ UNCHANGED path
     \/ \E e \in Evs : path[e] # <<>> /\ path' = [path EXCEPT ![e] = Tail(@)] /\ UNCHANGED ctrl
  /\ UNCHANGED <<s, recv>>

Next == StartFlow \/ PortEvent \/ Timeout \/ AtSender \/ AtReceiver \/ Trim \/ Lose
Spec == Init /\ [][Next]_vars
-----------------------------------------------------------------------------
\* A packet has one send record or is queued, not both; the queue takes no packet twice.
TypeOK ==
  /\ Cardinality(Outstanding(s)) = Len(s.order) /\ Outstanding(s) \cap s.rtx = {}
  /\ s.bad # "queued twice" /\ s.regs \in 0 .. NPkts + 2

\* What is outstanding is in the list of one path, once, in the order of sending: the answer to a later
\* packet of that path finds it, and that to an earlier one does not.
RecordsInOrder ==
  s.bad = "none" =>
    /\ \A p \in Outstanding(s) :
         Cardinality({<<e, i>> \in Evs \X (1 .. NPkts) : i <= Len(s.record[e]) /\ s.record[e][i] = p}) = 1
    /\ \A e \in Evs :
         LET live == SelectSeq(s.record[e], LAMBDA p : p \in Outstanding(s))
         IN  live = SelectSeq(s.order, LAMBDA p : p \in ToSet(live))

\* The count in flight is that of the send records and of every loss detected: nothing else is lost or
\* counted twice, whatever the order of answers.
LeakPerDetection == s.bad = "none" /\ ~s.done => s.inFlight = Len(s.order) + s.leak

Stopped == Idle /\ s.highest > 0 /\ s.order = <<>> /\ s.bad = "none" /\ ~s.done
\* A flow that stops for good stops because detected losses fill its window.
StopsOnlyByLeak == Stopped => s.leak >= s.cwnd

\* "we decremented when we marked for rtx" (707): the count in flight is that of the send records.
InFlightCounts == ~s.done /\ s.bad = "none" => s.inFlight = Len(s.order)

\* The simulator stops when nothing is left to happen; then the flow is complete.
EndsComplete == ~Stopped

\* "Distinguish reordering from true loss" (README.md:15): what is taken for lost is neither received nor on its way.
\* The code does not keep this: see section 3 of the README.
NoFalseLoss == s.wrong = {}

\* With answers in order, one for each packet, an ACK takes nothing for lost that is not.
AcksAreRight == "ack" \notin s.wrong

\* The loop that queues "all previous element"s (950) stays within a list that exists.
\* The code does not keep this: see section 3 of the README.
WithinTheList == s.bad \notin {"erased", "past the end"}
=============================================================================
