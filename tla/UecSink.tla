------------------------------ MODULE UecSink ------------------------------
(***************************************************************************)
(* The receiver of a UEC flow (class UecSink): reassembly state, ACK       *)
(* generation (selective, delayed, requested) and NACKs for trimmed        *)
(* packets.  As in UecSrc, the fields form a record k, methods are         *)
(* operators on it, and replies collect in k.out.                          *)
(***************************************************************************)
EXTENDS UecNetwork, FiniteSetsExt

CONSTANTS
    SackWindow,   \* psns covered by the bitmap of one ACK (64)
    AckThreshold  \* bytes accepted before an unrequested ACK

ASSUME SackAssumption == SackWindow \in Nat \ {0} /\ AckThreshold \in Nat

VARIABLE snk

InitSink ==
    [expected |-> 0,        \* _expected_epsn
     rx |-> {},             \* psns set in _epsn_rx_bitmap
     ooo |-> 0,             \* _out_of_order_count
     ackRequest |-> FALSE,  \* _ack_request
     accepted |-> 0,        \* _accepted_bytes
     received |-> 0,        \* _received_bytes, in data packets
     recvd |-> 0,           \* _recvd_bytes
     out |-> {}]

Has(k, p) == p < k.expected \/ p \in k.rx

SackBitmapBase(k, p) == Max({p - (SackWindow - 1), k.expected + 1})

Sack(k, ref) ==
    [type |-> "ACK", cum |-> k.expected, recvd |-> k.recvd,
     sacks |-> {q \in k.rx : ref <= q /\ q < ref + SackWindow}]

Reply(k, m) == [k EXCEPT !.out = @ \cup {m}]

\* Record the arrival of p: advance past it and every buffered successor, or
\* buffer it.
Accept(k, p) ==
    IF p = k.expected
    THEN LET gap == Min({q \in (p + 1) .. (NData + MaxRts) : q \notin k.rx})
         IN  [k EXCEPT !.expected = gap,
                       !.rx = {q \in @ : q > gap},
                       !.ooo = @ - (gap - (p + 1))]
    ELSE [k EXCEPT !.rx = @ \cup {p}, !.ooo = @ + 1]

\* A new packet: count it, and acknowledge it now if it was marked, if enough
\* bytes were accepted, if the sender asked, or if the last gap closed while a
\* request was open.
ProcessNewData(k, m, ecn) ==
    LET k1    == [k EXCEPT !.accepted = @ + m.size,
                           !.received = IF m.size = Mtu THEN @ + 1 ELSE @,
                           !.recvd = @ + m.size,
                           !.ackRequest = @ \/ m.ar]
        k2    == Accept(k1, m.psn)
        drained == m.psn = k.expected /\ k2.ooo = 0 /\ k2.ackRequest
        k3    == IF drained THEN [k2 EXCEPT !.ackRequest = FALSE] ELSE k2
        force == k.received = 0 \/ m.ar \/ drained
        ref   == IF ecn \/ m.ar THEN m.psn ELSE SackBitmapBase(k3, m.psn)
    IN  IF ecn \/ force \/ k3.accepted >= AckThreshold
        THEN Reply([k3 EXCEPT !.accepted = 0], Sack(k3, ref))
        ELSE k3

\* A duplicate is acknowledged straight away.
ProcessDuplicate(k, p, ecn) ==
    Reply([k EXCEPT !.accepted = 0],
          Sack(k, IF ecn THEN p ELSE SackBitmapBase(k, p)))

\* Slip: only the cumulative point identifies duplicates.
ProcessDataForgettingBuffered(k, m, ecn) ==
    IF m.psn < k.expected THEN ProcessDuplicate(k, m.psn, ecn)
    ELSE ProcessNewData(k, m, ecn)

ProcessData(k, m, ecn) ==
    IF Has(k, m.psn) THEN ProcessDuplicate(k, m.psn, ecn)
    ELSE ProcessNewData(k, m, ecn)

ProcessTrimmed(k, p) ==
    IF Has(k, p) THEN Reply(k, Sack(k, SackBitmapBase(k, p)))
    ELSE Reply(k, [type |-> "NACK", psn |-> p])

\* An RTS takes a psn but carries no bytes; it is always acknowledged.
ProcessRts(k, p) ==
    IF Has(k, p) THEN ProcessDuplicate(k, p, FALSE)
    ELSE LET k1 == Accept(k, p)
             k2 == IF p = k.expected /\ k1.ooo = 0
                   THEN [k1 EXCEPT !.ackRequest = FALSE] ELSE k1
         IN  Reply(k2, Sack(k2, p))

-----------------------------------------------------------------------------
(* Actions *)

Respond(k, m) ==
    /\ snk' = [k EXCEPT !.out = {}]
    /\ net' = (net \ {m}) \cup k.out
    /\ UNCHANGED faults

ReceiveData == \E m \in InFlight("DATA"), ecn \in BOOLEAN :
                   Respond(ProcessData(snk, m, ecn), m)

ReceiveTrimmed == \E m \in InFlight("TRIM") : Respond(ProcessTrimmed(snk, m.psn), m)

ReceiveRts == \E m \in InFlight("RTS") : Respond(ProcessRts(snk, m.psn), m)

SinkNext == ReceiveData \/ ReceiveTrimmed \/ ReceiveRts
=============================================================================
