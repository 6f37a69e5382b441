------------------------------- MODULE UecSrc -------------------------------
(***************************************************************************)
(* The sender of a UEC flow (class UecSrc) in its sender-based congestion  *)
(* control mode: send records, retransmission queue, in-flight accounting, *)
(* retransmission timer and the dialogue with the NIC.                     *)
(*                                                                         *)
(* The sender's fields form one record s.  An operator that stands for a   *)
(* method maps the record before the call to the record after it, so a     *)
(* handler is the composition of the methods it calls, in their order.     *)
(* Packets sent during a handler collect in s.out and join the network     *)
(* when the handler ends.                                                  *)
(*                                                                         *)
(* Abstractions.  Every data packet has size Mtu.  The congestion          *)
(* controller may choose any window of CwndChoices on an ACK.  The NIC has *)
(* one port; `free` says that it is idle when the handler runs.  Time is   *)
(* the order of transmissions: s.clock is the instant of the latest one.   *)
(***************************************************************************)
EXTENDS UecNetwork, FiniteSetsExt

CONSTANTS
    CwndChoices,  \* windows the congestion controller may set
    InitCwnd,     \* window at the start of the flow
    MaxEarly      \* bound: timer expiries while packets are still in flight

ASSUME CwndAssumption  == CwndChoices \subseteq Nat /\ InitCwnd \in Nat
                          /\ InitCwnd >= Mtu /\ \A c \in CwndChoices : c >= Mtu
ASSUME EarlyAssumption == MaxEarly \in Nat

VARIABLE src

InitSrc ==
    [started |-> FALSE, done |-> FALSE,
     highest |-> 0,             \* _highest_sent: the next new psn
     backlog |-> 0,             \* _backlog, in data packets
     tx |-> {},                 \* keys of _tx_bitmap
     sentAt |-> [p \in Psn |-> 0],  \* send_time of the records of _tx_bitmap
     sendTimes |-> {},          \* _send_times: pairs <<time, psn>>
     rtxQueue |-> {},           \* keys of _rtx_queue
     copies |-> [p \in Psn |-> 0],  \* transmissions of each psn (_rtx_times + 1)
     rts |-> {},                \* psns spent on RTS packets
     inFlight |-> 0, recvd |-> 0, cwnd |-> InitCwnd,
     rtoPending |-> FALSE, rtoSendTime |-> 0,
     blocked |-> FALSE,         \* _send_blocked_on_nic
     regs |-> 0,                \* entries of this source in the NIC's list
     clock |-> 0, out |-> {}]

Size(s, p) == IF p \in s.rts THEN Hdr ELSE Mtu

Bytes(s, S) == Mtu * Cardinality(S \ s.rts) + Hdr * Cardinality(S \cap s.rts)

-----------------------------------------------------------------------------
(* Retransmission timer *)

StartRTO(s, t) ==
    IF ~s.rtoPending \/ t < s.rtoSendTime
    THEN [s EXCEPT !.rtoPending = TRUE, !.rtoSendTime = t]
    ELSE s

RecalculateRTO(s) ==
    IF s.sendTimes = {}
    THEN [s EXCEPT !.rtoPending = FALSE]
    ELSE [s EXCEPT !.rtoPending = TRUE,
                   !.rtoSendTime = Min({e[1] : e \in s.sendTimes})]

-----------------------------------------------------------------------------
(* Send records *)

CreateSendRecord(s, p) ==
    LET t == s.clock + 1
    IN  [s EXCEPT !.clock = t, !.tx = @ \cup {p}, !.sentAt[p] = t,
                  !.sendTimes = (@ \ {<<s.sentAt[p], p>>}) \cup {<<t, p>>},
                  !.copies[p] = @ + 1]

\* Slip: the _send_times entry goes, the send record stays.
DropRecordsKeepingBitmap(s, A) ==
    [s EXCEPT !.sendTimes = {e \in @ : e[2] \notin A}]

\* Erase the send records of the psns in A and their entries in _send_times.
DropRecords(s, A) ==
    [s EXCEPT !.tx = @ \ A,
              !.sentAt = [p \in Psn |-> IF p \in A THEN 0 ELSE @[p]],
              !.sendTimes = {e \in @ : e[2] \notin A}]

\* Slip: the timer is left set for a packet that was acknowledged.
EraseRecordsKeepingTimer(s, A) == DropRecords(s, A)

\* ... and move the timer on when it was set for one of them.
EraseRecords(s, A) ==
    IF \E p \in A : s.sentAt[p] = s.rtoSendTime
    THEN RecalculateRTO(DropRecords(s, A))
    ELSE DropRecords(s, A)

\* Slip: the correction of the in-flight count is left out.
UnqueueUncorrected(s, A) == [s EXCEPT !.rtxQueue = @ \ A]

\* Take acknowledged psns off the retransmission queue.  They were taken off
\* inFlight when they were marked, and recvd_bytes takes them off again.
Unqueue(s, A) ==
    [s EXCEPT !.rtxQueue = @ \ A, !.inFlight = @ + Bytes(s, A)]

\* Slip: the next expected psn is taken as received.
HandleCumulativeAckInclusive(s, cum) ==
    LET s1 == Unqueue(s, {p \in s.rtxQueue : p <= cum})
    IN  EraseRecords(s1, {p \in s1.tx : p <= cum})

HandleCumulativeAck(s, cum) ==
    LET s1 == Unqueue(s, {p \in s.rtxQueue : p < cum})
    IN  EraseRecords(s1, {p \in s1.tx : p < cum})

\* handleAckno for every psn of the selective acknowledgement.
HandleAckno(s, sacks) ==
    EraseRecords(Unqueue(s, (s.rtxQueue \cap sacks) \ s.tx), s.tx \cap sacks)

-----------------------------------------------------------------------------
(* Sending *)

NextPacketSize(s) ==
    IF s.rtxQueue # {} THEN Size(s, Min(s.rtxQueue))
    ELSE IF s.backlog > 0 THEN Mtu ELSE 0

\* Slip: pkt_size > 0 is not required.
CanSendNSCCOfNothing(s) == s.cwnd >= s.inFlight + NextPacketSize(s)

CanSendNSCC(s) ==
    LET size == NextPacketSize(s)
    IN  size > 0 /\ s.cwnd >= s.inFlight + size

DataPacket(s, p, ar) ==
    [type |-> "DATA", psn |-> p, copy |-> s.copies[p], size |-> Size(s, p),
     ar |-> ar]

SendNewPacket(s) ==
    LET p  == s.highest
        s1 == CreateSendRecord([s EXCEPT !.backlog = @ - 1,
                                         !.inFlight = @ + Mtu,
                                         !.highest = @ + 1], p)
        ar == s1.backlog = 0 \/ s1.inFlight + Mtu >= s.cwnd
    IN  StartRTO([s1 EXCEPT !.out = @ \cup {DataPacket(s1, p, ar)}], s1.clock)

SendRtxPacket(s) ==
    LET p  == Min(s.rtxQueue)
        s1 == CreateSendRecord([s EXCEPT !.rtxQueue = @ \ {p},
                                         !.inFlight = @ + Size(s, p)], p)
    IN  StartRTO([s1 EXCEPT !.out = @ \cup {DataPacket(s1, p, TRUE)}], s1.clock)

SendPacket(s) == IF s.rtxQueue # {} THEN SendRtxPacket(s) ELSE SendNewPacket(s)

\* requestSending on a busy NIC queues the source for a callback.
RequestSending(s) == [s EXCEPT !.regs = @ + 1]
BlockOnNic(s)     == [RequestSending(s) EXCEPT !.blocked = TRUE]

\* One packet at most leaves at once: it makes the NIC busy, and the method's
\* call to itself then waits for the NIC.
SendIfPermitted(s, free) ==
    IF ~CanSendNSCC(s) \/ s.blocked THEN s
    ELSE IF ~free THEN BlockOnNic(s)
    ELSE LET s1 == SendPacket(s)
         IN  IF CanSendNSCC(s1) THEN BlockOnNic(s1) ELSE s1

QueueForRtx(s, p, free) ==
    SendIfPermitted([s EXCEPT !.rtxQueue = @ \cup {p}], free)

SendRTS(s) ==
    LET p  == s.highest
        s1 == CreateSendRecord([s EXCEPT !.rts = @ \cup {p}, !.highest = @ + 1], p)
    IN  StartRTO([s1 EXCEPT !.out = @ \cup {[type |-> "RTS", psn |-> p]}], s1.clock)

-----------------------------------------------------------------------------
(* Handlers *)

\* startFlow sends until the NIC is busy, whatever the window.
StartFlowOn(s, free) ==
    LET s0 == [s EXCEPT !.started = TRUE, !.backlog = NData]
        s1 == IF free THEN SendNewPacket(s0) ELSE s0
    IN  IF s1.backlog > 0 THEN BlockOnNic(s1) ELSE s1

\* Slip: the callback does not clear _send_blocked_on_nic.
TimeToSendStillBlocked(s) ==
    LET s0 == [s EXCEPT !.regs = @ - 1]
    IN  IF ~CanSendNSCC(s0) THEN s0
        ELSE LET s1 == SendPacket(s0)
             IN  IF CanSendNSCC(s1) THEN BlockOnNic(s1) ELSE s1

\* The NIC calls a queued source back; startSending and cantSend both take
\* the source's entry off the NIC's list.
TimeToSendOn(s) ==
    LET s0 == [s EXCEPT !.blocked = FALSE, !.regs = @ - 1]
    IN  IF ~CanSendNSCC(s0) THEN s0
        ELSE LET s1 == SendPacket(s0)
             IN  IF CanSendNSCC(s1) THEN BlockOnNic(s1) ELSE s1

\* A completed flow keeps no retransmission state.
FinishFlow(s) ==
    [s EXCEPT !.done = TRUE, !.rtoPending = FALSE, !.rtxQueue = {}, !.tx = {},
              !.sentAt = [p \in Psn |-> 0], !.sendTimes = {}, !.inFlight = 0]

\* Slip: psns spent on RTS packets count as data.
FinishedCountingRts(s, cum) == s.done \/ cum >= NData

\* Slip: off by one packet.
FinishedOneShort(s, cum) == s.done \/ cum - Cardinality(s.rts) >= NData - 1

Finished(s, cum) == s.done \/ cum - Cardinality(s.rts) >= NData

\* recvd_bytes is cumulative: only its growth leaves the flight.
CountReceived(s, recvd) ==
    IF recvd > s.recvd
    THEN [s EXCEPT !.inFlight = @ - (recvd - s.recvd), !.recvd = recvd]
    ELSE s

ProcessAck(s, m, cwnd, free) ==
    LET s1 == HandleCumulativeAck(CountReceived(s, m.recvd), m.cum)
        s2 == [HandleAckno(s1, m.sacks) EXCEPT !.cwnd = cwnd]
    IN  IF Finished(s2, m.cum)
        THEN IF s2.done THEN s2 ELSE FinishFlow(s2)
        ELSE SendIfPermitted(s2, free)

ProcessNack(s, p, cwnd, free) ==
    LET s1 == [DropRecords(s, {p}) EXCEPT !.cwnd = cwnd,
                                          !.inFlight = @ - Size(s, p)]
        s2 == QueueForRtx(s1, p, free)
    IN  IF p \notin s.tx THEN s
        ELSE IF s.sentAt[p] = s.rtoSendTime THEN RecalculateRTO(s2)
        ELSE s2

\* Slip: the packet given up for lost stays in the in-flight count.
MarkWithoutDecrement(s, p) == [s EXCEPT !.cwnd = Max({@ - Size(s, p), Mtu})]

MarkForRetransmission(s, p) ==
    [s EXCEPT !.inFlight = @ - Size(s, p),
              !.cwnd = Max({@ - Size(s, p), Mtu})]

\* The oldest outstanding packet is given up for lost.  An RTS is sent at most
\* once per round trip: rtsDue says that one may be sent now.
RtxTimerExpired(s, free, rtsDue) ==
    LET s0    == [s EXCEPT !.rtoPending = FALSE]
        first == CHOOSE e \in s.sendTimes : \A f \in s.sendTimes : e[1] <= f[1]
        p     == first[2]
        s1    == MarkForRetransmission(RecalculateRTO(DropRecords(s0, {p})), p)
        s2    == QueueForRtx(s1, p, free)
    IN  IF s.sendTimes = {} THEN s0
        ELSE IF s1.rtxQueue # {} THEN s2
        ELSE IF s2.cwnd < Size(s, p) + s2.inFlight
        THEN IF rtsDue THEN SendRTS(s2) ELSE s2
        \* The port is busy by now, so the second request is queued as well.
        ELSE RequestSending(s2)

-----------------------------------------------------------------------------
(* Actions *)

\* The NIC is idle only when no source waits for it.
NicMayBeFree(free) == free => src.regs = 0

\* End of a handler that consumed the packets of `consumed`.
Complete(s, consumed) ==
    /\ src' = [s EXCEPT !.out = {}]
    /\ net' = (net \ consumed) \cup s.out

StartFlow ==
    /\ ~src.started
    /\ \E free \in BOOLEAN : Complete(StartFlowOn(src, free), {})
    /\ UNCHANGED faults

TimeToSend ==
    /\ src.regs > 0
    /\ Complete(TimeToSendOn(src), {})
    /\ UNCHANGED faults

ReceiveAck ==
    /\ \E m \in InFlight("ACK"), cwnd \in CwndChoices \cup {src.cwnd}, free \in BOOLEAN :
         /\ NicMayBeFree(free)
         /\ Complete(ProcessAck(src, m, cwnd, free), {m})
    /\ UNCHANGED faults

\* A NACK never opens the window.
ReceiveNack ==
    /\ \E m \in InFlight("NACK"), free \in BOOLEAN,
          cwnd \in {c \in CwndChoices : c <= src.cwnd} \cup {src.cwnd} :
         /\ NicMayBeFree(free)
         /\ Complete(ProcessNack(src, m.psn, cwnd, free), {m})
    /\ UNCHANGED faults

\* Nothing is on its way to either end.
Quiet == net = {} /\ src.regs = 0

\* The timer outlasts a round trip, but queues may delay packets for longer:
\* it may run out early MaxEarly times.
RetransmitTimeout ==
    /\ src.rtoPending
    /\ \/ Quiet /\ UNCHANGED faults
       \/ /\ ~Quiet
          /\ faults.early < MaxEarly
          /\ faults' = [faults EXCEPT !.early = @ + 1]
    /\ \E free, rtsDue \in BOOLEAN :
         /\ NicMayBeFree(free)
         /\ rtsDue => Cardinality(src.rts) < MaxRts
         /\ src.rts = {} /\ MaxRts > 0 => rtsDue
         /\ Complete(RtxTimerExpired(src, free, rtsDue), {})

SrcNext ==
    StartFlow \/ TimeToSend \/ ReceiveAck \/ ReceiveNack \/ RetransmitTimeout
=============================================================================
