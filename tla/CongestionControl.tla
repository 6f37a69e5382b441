-------------------------- MODULE CongestionControl --------------------------
(***************************************************************************)
(* The window of a sender: NSCC, SMaRTT and DCTCP.                         *)
(*                                                                         *)
(* Windows are integers, their fractions rounded any way within what a     *)
(* rule may add or take.  Time is abstracted to whether a period is over;  *)
(* the moving averages (delay, ECN) may stand anywhere.  ACKs may be lost: *)
(* one ACK tells of any number of packets.                                 *)
(***************************************************************************)
EXTENDS Integers, FiniteSetsExt

CONSTANTS
    Algorithm,      \* "NSCC", "SMaRTT" or "DCTCP"
    Mtu,            \* _mtu, and _min_cwnd
    Bdp,            \* _base_bdp, the first window
    MaxWnds,        \* what _maxwnd may be: lower round trip times make it smaller
    Gate,           \* _enable_qa_gate
    Eta,            \* _eta
    Bytes,          \* bound: bytes of the flow
    MaxLoss         \* bound: NACKs and timeouts

\* What this module assumes of its constants.
CongestionAssumption ==
    /\ Algorithm \in {"NSCC", "SMaRTT", "DCTCP"}
    /\ {Mtu, Bdp, Bytes} \subseteq Nat \ {0} /\ {Eta, MaxLoss} \subseteq Nat
    /\ Bytes % Mtu = 0 /\ Gate \in BOOLEAN
    /\ MaxWnds \subseteq Nat /\ \E m \in MaxWnds : Mtu <= Bdp /\ Bdp <= m
    /\ \A m \in MaxWnds : Mtu <= m

VARIABLES
    c,          \* the congestion control state
    flight,     \* _in_flight
    queued,     \* _backlog and _rtx_backlog
    losses

vars == <<c, flight, queued, losses>>

Delays == {"low", "below", "above", "far above"}    \* against 1 us, the target, the threshold
AboveTarget(delay) == delay \in {"above", "far above"}

InitWindow ==
    [cwnd |-> Bdp, maxwnd |-> Max(MaxWnds),
     achieved |-> 0, received |-> 0,        \* _achieved_bytes, _received_bytes
     ignored |-> 0, toIgnore |-> 0,         \* _bytes_ignored, _bytes_to_ignore
     period |-> "never",                    \* _qa_endtime: 0, ahead or passed
     adapt |-> FALSE,                       \* _trigger_qa, need_quick_adapt
     surplus |-> FALSE]                     \* quick_adapt met a window below _achieved_bytes

Ignoring(w) == w.ignored < w.toIgnore

\* Slip: the window may fall below the maximum of its bounds, but not rise.
BoundedAbove(w) == [w EXCEPT !.cwnd = Min({@, w.maxwnd})]

\* set_cwnd_bounds and clamp_cwnd.
Bounded(w) == [w EXCEPT !.cwnd = Min({Max({@, Mtu}), w.maxwnd})]

Windows(w, set) == {[w EXCEPT !.cwnd = x] : x \in set}

-----------------------------------------------------------------------------
(* NSCC *)

NewPeriod(w) == [w EXCEPT !.achieved = 0, !.period = "ahead"]

\* The window is cut to what the last period achieved, and the feedback on what
\* is in flight does not count.
Cut(w, inFlight) ==
    [NewPeriod(w) EXCEPT !.cwnd = Max({w.achieved, Mtu}), !.toIgnore = inFlight,
                         !.ignored = 0, !.adapt = FALSE]

CutDue(w, loss, delay) ==
    /\ w.period = "passed"
    /\ w.adapt \/ loss \/ delay = "far above"
    /\ Gate => w.achieved < w.maxwnd \div 8

QuickAdapt(w, loss, delay, inFlight) ==
    IF w.period = "ahead" THEN [ran |-> FALSE, w |-> w]
    ELSE IF CutDue(w, loss, delay) /\ w.cwnd >= w.achieved
         THEN [ran |-> TRUE, w |-> Cut(w, inFlight)]
    ELSE [ran |-> FALSE,
          w |-> [NewPeriod(w) EXCEPT !.surplus = @ \/ CutDue(w, loss, delay)]]

\* fair, proportional and fast increase; multiplicative decrease.
Reaction(w, bytes, skip, delay) ==
    Windows(w, IF skip /\ AboveTarget(delay) THEN (w.cwnd \div 2) .. w.cwnd
               ELSE IF ~skip /\ delay = "low" THEN w.cwnd .. w.cwnd + bytes
               ELSE {w.cwnd})

\* Increases are collected and applied by period, no more than was received.
FulfillAdjustment(w) ==
    {w} \cup {[v EXCEPT !.received = 0] : v \in Windows(w, w.cwnd .. w.cwnd + w.received)}

OnAckNSCC(w, bytes, skip, delay, inFlight) ==
    LET q == QuickAdapt(w, FALSE, delay, inFlight)
    IN  IF Ignoring(w) /\ skip THEN {w}
        ELSE IF q.ran THEN {q.w}
        ELSE UNION {{Bounded([u EXCEPT !.cwnd = @ + e]) : e \in {0, Eta}} :
                u \in UNION {FulfillAdjustment(Bounded(v)) :
                    v \in Reaction(q.w, bytes, skip, delay)}}

OnNackNSCC(w, avg) ==
    LET v == [Bounded([w EXCEPT !.cwnd = @ - Mtu]) EXCEPT !.adapt = TRUE]
    IN  IF Ignoring(v) THEN v ELSE QuickAdapt(v, TRUE, avg, flight).w

-----------------------------------------------------------------------------
(* SMaRTT *)

SmarttQuickAdapt(w, inFlight) ==
    IF w.period = "ahead" THEN w
    ELSE LET v == NewPeriod(w)
         IN  IF w.adapt /\ w.period = "passed" /\ w.cwnd \div 4 > w.achieved
             THEN Cut(w, inFlight) ELSE v

\* Fast increase, or one of the main loops: by ECN with additive or fair steps,
\* by round trip time, or the vanilla loop.  A decrease may wait for the average.
MainLoop(w, skip) ==
    Windows(w, IF skip THEN w.cwnd - Mtu .. w.cwnd ELSE w.cwnd .. w.cwnd + Mtu)

OnAckSMaRTT(w, skip, inFlight) ==
    LET v == IF Ignoring(w) THEN w ELSE SmarttQuickAdapt(w, inFlight)
    IN  {Bounded(u) : u \in IF Ignoring(v) /\ skip THEN {v} ELSE MainLoop(v, skip)}

OnNackSMaRTT(w) ==
    LET v == [w EXCEPT !.achieved = @ + 1]
    IN  IF Ignoring(w) THEN v
        ELSE SmarttQuickAdapt([v EXCEPT !.cwnd = Max({@ - Mtu, Mtu}), !.adapt = TRUE], flight)

-----------------------------------------------------------------------------
(* DCTCP *)

OnAckDCTCP(w, bytes, skip) ==
    Bounded([w EXCEPT !.cwnd = IF skip THEN Max({@ - bytes \div 3, Mtu})
                               ELSE @ + (bytes * Mtu) \div @])

OnNackDCTCP(w) == [w EXCEPT !.cwnd = Max({@ - Mtu, Mtu})]

-----------------------------------------------------------------------------
(* The handlers *)

\* update_base_rtt: a lower round trip time gives a smaller _maxwnd.
Measured(w) == {[w EXCEPT !.maxwnd = m] : m \in {x \in MaxWnds : x <= w.maxwnd}}

Counted(w, bytes) ==
    [w EXCEPT !.achieved = @ + bytes, !.received = @ + bytes, !.ignored = @ + bytes]

\* rcv_wnd_pen of an oversubscribed receiver.
Penalized(w, bytes) ==
    Windows(w, {w.cwnd} \cup {Max({w.cwnd - d, Mtu}) : d \in 1 .. bytes})

OnAck(w, bytes, skip, delay, inFlight) ==
    CASE Algorithm = "NSCC"   -> OnAckNSCC(w, bytes, skip, delay, inFlight)
      [] Algorithm = "SMaRTT" -> OnAckSMaRTT(w, skip, inFlight)
      [] OTHER                -> {OnAckDCTCP(w, bytes, skip)}

OnNack(w, avg) ==
    CASE Algorithm = "NSCC" -> OnNackNSCC(w, avg)
      [] Algorithm = "SMaRTT" -> OnNackSMaRTT(w)
      [] OTHER                -> OnNackDCTCP(w)

CanSend == queued > 0 /\ c.cwnd >= flight + Mtu

Send ==
    /\ CanSend
    /\ flight' = flight + Mtu /\ queued' = queued - Mtu
    /\ UNCHANGED <<c, losses>>

\* processAck.  The packets acknowledged leave the flight before the window is
\* changed.
ProcessAck ==
    \E n \in 0 .. flight \div Mtu, skip \in BOOLEAN, delay \in Delays :
        /\ flight + queued > 0
        /\ flight' = flight - n * Mtu
        /\ \E p \in Penalized(Counted(c, n * Mtu), n * Mtu) :
             \E m \in Measured(p) : c' \in OnAck(m, n * Mtu, skip, delay, flight')
        /\ UNCHANGED <<queued, losses>>

\* processNack: the window is changed before the packet leaves the flight.
ProcessNack ==
    /\ flight > 0 /\ losses < MaxLoss
    /\ \E avg \in Delays : c' = OnNack(c, avg)
    /\ flight' = flight - Mtu /\ queued' = queued + Mtu
    /\ losses' = losses + 1

\* mark_packet_for_retransmission.
Timeout ==
    /\ flight > 0 /\ losses < MaxLoss
    /\ c' = [c EXCEPT !.cwnd = Max({@ - Mtu, Mtu})]
    /\ flight' = flight - Mtu /\ queued' = queued + Mtu
    /\ losses' = losses + 1

PeriodEnds ==
    /\ c.period = "ahead"
    /\ c' = [c EXCEPT !.period = "passed"]
    /\ UNCHANGED <<flight, queued, losses>>

Init == c = InitWindow /\ flight = 0 /\ queued = Bytes /\ losses = 0

Next == Send \/ ProcessAck \/ ProcessNack \/ Timeout \/ PeriodEnds

Spec == Init /\ [][Next]_vars

-----------------------------------------------------------------------------
(* Properties *)

Done == flight + queued = 0

\* The window and the counters stay in range.
TypeOK ==
    /\ c.cwnd \in 0 .. Max(MaxWnds)
    /\ c.maxwnd \in MaxWnds
    /\ flight \in 0 .. Bytes /\ queued \in 0 .. Bytes

\* A sender with nothing in flight may always send: no sequence of cuts, losses
\* and measurements leaves a window that admits no packet.
WindowAdmits == flight = 0 /\ queued > 0 => CanSend

\* What is still ignored after a cut will be received: the phase in which marks
\* do not count ends, at the latest with the flow.
IgnoreCovered == c.toIgnore - c.ignored <= flight + queued

\* "This shouldn't happen: QUICK ADAPT MIGHT INCREASE THE CWND" (quick_adapt).
\* The code does not keep this: see section 3 of the README.
NeverAboveWindow == ~c.surplus

=============================================================================
