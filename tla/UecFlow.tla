------------------------------ MODULE UecFlow ------------------------------
(***************************************************************************)
(* One flow: a UecSrc and a UecSink joined by the fabric of UecNetwork.    *)
(***************************************************************************)
EXTENDS UecSrc, UecSink

vars == <<src, snk, net, faults>>

Init == src = InitSrc /\ snk = InitSink /\ NetInit

Drop        == (\E m \in net : Lose(m)) /\ UNCHANGED <<src, snk>>
TrimPacket  == (\E m \in InFlight("DATA") : Trim(m)) /\ UNCHANGED <<src, snk>>

\* The simulation has nothing left to do once the flow has completed.
Idle == src.done /\ net = {} /\ UNCHANGED vars

Next ==
    \/ SrcNext /\ UNCHANGED snk
    \/ SinkNext /\ UNCHANGED src
    \/ Drop
    \/ TrimPacket
    \/ Idle

\* The event list runs every pending event: the start of the flow, NIC
\* callbacks, packet arrivals at both ends and the retransmission timer.  Each
\* conjunct is WF_vars(A) with ENABLED <<A>>_vars written out: every step of
\* these actions changes net, src.regs or src.started.
FairStart   == <>[](~src.started) => []<><<StartFlow /\ UNCHANGED snk>>_vars
FairNic     == <>[](src.regs > 0) => []<><<TimeToSend /\ UNCHANGED snk>>_vars
FairSrc     == <>[](InFlight("ACK") \cup InFlight("NACK") # {})
                   => []<><<(ReceiveAck \/ ReceiveNack) /\ UNCHANGED snk>>_vars
FairSink    == <>[](InFlight("DATA") \cup InFlight("TRIM") \cup InFlight("RTS") # {})
                   => []<><<SinkNext /\ UNCHANGED src>>_vars
FairTimeout == <>[](src.rtoPending /\ (Quiet \/ faults.early < MaxEarly))
                   => []<><<RetransmitTimeout /\ UNCHANGED snk>>_vars

Fairness == FairStart /\ FairNic /\ FairSrc /\ FairSink /\ FairTimeout

Spec == Init /\ [][Next]_vars

FairSpec == Spec /\ Fairness

-----------------------------------------------------------------------------
(* Properties *)

Received == {p \in Psn : Has(snk, p)}
Sent     == {p \in Psn : p < src.highest}

\* Every field keeps its type: what the handlers of UecSrc and UecSink write
\* stays in range (psns below the bound, counters natural, the in-flight count
\* an integer that may be negative).
TypeOK ==
    /\ net \subseteq Msg
    /\ src \in [started : BOOLEAN, done : BOOLEAN, highest : 0 .. (NData + MaxRts),
                backlog : 0 .. NData, tx : SUBSET Psn, sentAt : [Psn -> Nat],
                sendTimes : SUBSET (Nat \X Psn), rtxQueue : SUBSET Psn,
                copies : [Psn -> Nat], rts : SUBSET Psn, inFlight : Int,
                recvd : Nat, cwnd : Nat, rtoPending : BOOLEAN,
                rtoSendTime : Nat, blocked : BOOLEAN, regs : Nat, clock : Nat,
                out : {{}}]
    /\ snk \in [expected : 0 .. (NData + MaxRts), rx : SUBSET Psn, ooo : Nat,
                ackRequest : BOOLEAN, accepted : Nat, received : Nat,
                recvd : Nat, out : {{}}]

\* A psn is in the send records or in the retransmission queue, "but never in
\* both" (handleAckno): the in-flight corrections of both would count it twice.
NeverInBoth == src.tx \cap src.rtxQueue = {}

\* The in-flight count is the data sent, less what waits for retransmission,
\* less what the receiver has reported: no path through ACKs, NACKs, timeouts
\* and retransmissions counts a packet twice or forgets one.
InFlightLedger ==
    ~src.done =>
        src.inFlight = Mtu * (src.highest - Cardinality(src.rts))
                       - Bytes(src, src.rtxQueue) - src.recvd

\* The sender answers for every packet the receiver lacks until the flow is
\* complete: it is outstanding under the timer or queued for retransmission.
NothingForgotten == ~src.done => Sent \ Received \subseteq src.tx \cup src.rtxQueue

\* The timer runs whenever a packet is outstanding, is set for the oldest one,
\* and _send_times holds exactly the send times of the records: no entry is
\* stale and no outstanding packet is without a timer.
RtoCoversOldest ==
    /\ src.sendTimes = {<<src.sentAt[p], p>> : p \in src.tx}
    /\ src.rtoPending <=> src.tx # {}
    /\ src.rtoPending => /\ \E p \in src.tx : src.sentAt[p] = src.rtoSendTime
                         /\ \A p \in src.tx : src.sentAt[p] >= src.rtoSendTime

\* The sender completes a flow only when the receiver holds every packet sent,
\* RTS packets included, although completion is computed from the cumulative
\* ACK and the number of RTS packets alone (checkFinished).
CompleteMeansReceived ==
    src.done => Sent \subseteq Received /\ src.highest = NData + Cardinality(src.rts)

\* The reassembly state is consistent whatever arrives: the next expected psn
\* is missing, buffered psns lie beyond it, the out-of-order count is their
\* number, and the bytes reported never exceed the flow (assert in processData).
ReassemblyConsistent ==
    /\ \A p \in snk.rx : p > snk.expected
    /\ snk.ooo = Cardinality(snk.rx)
    /\ snk.received <= NData

\* A source waiting for its NIC is in the NIC's list, so the callback that
\* clears _send_blocked_on_nic will come.
BlockedIsRegistered == src.blocked => src.regs > 0

\* A source enters the NIC's list once ("the NIC already knows we want to
\* send", sendIfPermitted), so that the NIC shares the port evenly.
RegisteredAtMostOnce == src.regs <= 1

\* An RTS asks the receiver for help when the window does not let a timed out
\* packet go ("window won't allow us to send yet", rtxTimerExpired): it is sent
\* only while that packet still waits.
RtsOnlyWhenStuck ==
    [][src'.rts # src.rts => src'.rtxQueue # {}]_vars

\* After both corrections the in-flight count is not negative (the check that
\* processAck names after the selective acknowledgements).
InFlightNotNegative == src.inFlight >= 0

\* A completed flow stays completed and silent: late ACKs, NACKs and NIC
\* callbacks (checkFinished leaves it in the NIC's list) make it send nothing
\* and start no timer.
QuietAfterCompletion ==
    [][src.done => /\ src'.done
                   /\ src'.highest = src.highest
                   /\ src'.copies = src.copies
                   /\ ~src'.rtoPending]_vars

\* Every flow completes, whatever the fabric drops, trims and reorders.
EventuallyComplete == <>src.done

\* The flow implements the reliable transfer of ReliableTransfer.
Transfer == INSTANCE ReliableTransfer
    WITH Packets <- Psn, NeededPackets <- NData,
         offered <- Sent, delivered <- Received, complete <- src.done

Implements == Transfer!TransferSpec
=============================================================================
