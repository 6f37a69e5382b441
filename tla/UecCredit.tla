------------------------------ MODULE UecCredit ------------------------------
(***************************************************************************)
(* Receiver based congestion control: senders ask for credit with a pull   *)
(* target in every packet, the receivers of a host register with the pull  *)
(* pacer, and the pacer grants credit in turns (classes UecSrc, UecSink    *)
(* and UecPullPacer with _receiver_based_cc, the default of the driver).   *)
(*                                                                         *)
(* Abstractions.  A permitted sender sends one packet at a step, whenever  *)
(* the NIC lets it (UecNic).  Packets of a flow have one size, and their   *)
(* sequence numbers matter only as identities.  A SACK names all packets   *)
(* the sink has.  Pull numbers count from INIT_PULL, which the code makes  *)
(* large enough for every target to be positive.  _retx_backlog is left    *)
(* out: it is zero from start to end.                                      *)
(***************************************************************************)
EXTENDS Integers, Sequences, FiniteSetsExt, SequencesExt

CONSTANTS
    Flows,          \* the flows that end at the host of the pacer
    NPkts,          \* data packets of a flow
    Mtu,            \* bytes of a data packet
    Hdr,            \* bytes of an RTS (_hdr_size)
    Quantum,        \* UEC_PULL_QUANTUM
    MaxWnd,         \* _maxwnd
    CreditPerPull,  \* _credit_per_pull, in quanta
    ActiveSources,  \* values of _nic.activeSources()
    MaxRts,         \* bound: RTS packets of a flow
    MaxLoss,        \* bound: packets lost or trimmed
    MaxEarly        \* bound: timeouts while an answer is on its way

ASSUME CreditAssumption ==
    /\ {NPkts, Mtu, Hdr, Quantum, CreditPerPull} \subseteq Nat \ {0}
    /\ MaxWnd \in Nat /\ MaxWnd >= Mtu /\ Hdr <= Mtu
    /\ ActiveSources \subseteq Nat \ {0} /\ ActiveSources # {}
    /\ {MaxRts, MaxLoss, MaxEarly} \subseteq Nat

VARIABLES
    src,     \* per flow: the sender
    snk,     \* per flow: the receiver
    pacer,   \* the pull pacer
    net,     \* packets in flight
    faults   \* losses and early timeouts so far

vars == <<src, snk, pacer, net, faults>>

Data(n) == <<"data", n>>
Rts(n)  == <<"rts", n>>
Packets == {Data(n) : n \in 1 .. NPkts} \cup {Rts(n) : n \in 1 .. MaxRts}
Size(p) == IF p[1] = "data" THEN Mtu ELSE Hdr

InitSrc ==
    [backlog |-> NPkts,   \* _backlog, in packets
     out |-> {},          \* _tx_bitmap
     rtx |-> {},          \* _rtx_queue
     credit |-> MaxWnd, spec |-> TRUE, pull |-> 0, target |-> 0,
     rts |-> 0,           \* _stats.rts_pkts_sent
     bytes |-> 0]         \* data bytes sent so far

InitSnk ==
    [got |-> {}, latest |-> 0, highest |-> 0, inPull |-> FALSE, inSlow |-> FALSE]

InitPacer == [active |-> <<>>, idle |-> <<>>, on |-> FALSE]

-----------------------------------------------------------------------------
(* Sender *)

QuantizeCeil(b)  == -((-b) \div Quantum)
QuantizeFloor(b) == b \div Quantum
Unquantize(q)    == q * Quantum

\* Division of the code: towards zero.
Share(b, n) == IF b < 0 THEN -((-b) \div n) ELSE b \div n

Backlog(s) ==
    (s.backlog + Cardinality({p \in s.rtx : p[1] = "data"})) * Mtu
      + Cardinality({p \in s.rtx : p[1] = "rts"}) * Hdr

\* Slip: the demand is not limited to a window.
ComputePullTargetUnbounded(s, active) ==
    QuantizeCeil(Share(Backlog(s) - s.credit, active) + Unquantize(s.pull))

\* While it speculates a sender asks for a packet's worth at least.
ComputePullTarget(s, active) ==
    LET want == Min({Backlog(s), MaxWnd}) - s.credit
        ask  == IF s.spec /\ want < Mtu /\ s.backlog > 0 THEN Mtu ELSE want
    IN  QuantizeCeil(Share(ask, active) + Unquantize(s.pull))

Permitted(s) == s.credit > 0 /\ (s.rtx # {} \/ s.backlog > 0)

SpendCredit(s, p) == [s EXCEPT !.credit = @ - Size(p), !.bytes = @ + Size(p)]

Retarget(s, active) == [s EXCEPT !.target = ComputePullTarget(s, active)]

SendRtxPacket(s, p, active) ==
    Retarget([SpendCredit(s, p) EXCEPT !.rtx = @ \ {p}, !.out = @ \cup {p}], active)

SendNewPacket(s, active) ==
    LET p == Data(NPkts - s.backlog + 1)
    IN  Retarget([SpendCredit(s, p) EXCEPT !.backlog = @ - 1, !.out = @ \cup {p}], active)

StopSpeculating(s) ==
    IF s.spec THEN [s EXCEPT !.spec = FALSE, !.credit = Min({@, 0})] ELSE s

\* Slip: credit of an older pull is added again.
HandlePullAgain(s, pullno) ==
    [s EXCEPT !.credit = Min({MaxWnd, @ + Unquantize(CreditPerPull)}), !.pull = pullno]

HandlePull(s, pullno) ==
    IF pullno > s.pull
    THEN [s EXCEPT !.credit = Min({MaxWnd, @ + Unquantize(pullno - s.pull)}),
                   !.pull = pullno]
    ELSE s

\* Slip: the send record stays.
QueueForRtxKeeping(s, p) == [s EXCEPT !.rtx = @ \cup {p}]

QueueForRtx(s, p) == [s EXCEPT !.out = @ \ {p}, !.rtx = @ \cup {p}]

SendRTS(s) == [s EXCEPT !.rts = @ + 1, !.out = @ \cup {Rts(s.rts + 1)}]

-----------------------------------------------------------------------------
(* Receiver and pacer.  A pair of a sink and the pacer is [k, p]. *)

SinkBacklog(k) == Max({k.highest - k.latest, 0})
SlowCredit(k)  == Max({k.latest - k.highest, 0})

\* Slip: a sink that is already registered registers again.
RequestPullAgain(f, kp) ==
    [k |-> [kp.k EXCEPT !.inPull = TRUE],
     p |-> [kp.p EXCEPT !.active = Append(@, f), !.on = TRUE]]

\* Slip: the pacer is not woken.
RequestPullAsleep(f, kp) ==
    IF kp.k.inPull THEN kp
    ELSE [k |-> [kp.k EXCEPT !.inPull = TRUE],
          p |-> [kp.p EXCEPT !.active = Append(@, f)]]

\* The sink checks _in_pull, the pacer aborts on a sink that is in its list.
RequestPull(f, kp) ==
    IF kp.k.inPull THEN kp
    ELSE [k |-> [kp.k EXCEPT !.inPull = TRUE],
          p |-> [kp.p EXCEPT !.active = Append(@, f), !.on = TRUE]]

HandlePullTarget(f, kp, pt) ==
    IF pt > kp.k.highest
    THEN RequestPull(f, [kp EXCEPT !.k.highest = pt]) ELSE kp

\* An active pull grants what the sender asked for, and never goes backwards.
Pull(k) ==
    [k EXCEPT !.latest = Max({@, Min({@ + CreditPerPull, k.highest})})]

SlowPull(k) == [k EXCEPT !.latest = @ + CreditPerPull]

\* Slip: a satisfied sink is not put in the idle list.
ServeActiveAndForget ==
    LET f == Head(pacer.active)
        k == Pull(snk[f])
        more == SinkBacklog(k) > 0
    IN  /\ snk' = [snk EXCEPT ![f] = IF more THEN k ELSE [k EXCEPT !.inPull = FALSE]]
        /\ pacer' = [pacer EXCEPT !.active = IF more THEN Append(Tail(@), f) ELSE Tail(@)]
        /\ net' = net \cup {[to |-> f, t |-> "pull", no |-> k.latest]}

\* A turn of a sink with demand; once satisfied it moves to the idle list.
ServeActive ==
    LET f == Head(pacer.active)
        k == Pull(snk[f])
        more == SinkBacklog(k) > 0
    IN  /\ snk' = [snk EXCEPT ![f] = IF more THEN k
                                     ELSE [k EXCEPT !.inPull = FALSE, !.inSlow = TRUE]]
        /\ pacer' = [pacer EXCEPT
               !.active = IF more THEN Append(Tail(@), f) ELSE Tail(@),
               !.idle = IF more THEN @ ELSE Append(@, f)]
        /\ net' = net \cup {[to |-> f, t |-> "pull", no |-> k.latest]}

\* A turn of an idle sink: speculative credit, up to a window of it.
ServeIdle ==
    LET f == Head(pacer.idle)
        k == SlowPull(snk[f])
        more == SinkBacklog(k) = 0 /\ SlowCredit(k) < QuantizeFloor(MaxWnd)
    IN  /\ snk' = [snk EXCEPT ![f] = [k EXCEPT !.inPull = @ /\ more /\ k.inSlow, !.inSlow = more]]
        /\ pacer' = [pacer EXCEPT !.idle = IF more THEN Append(Tail(@), f) ELSE Tail(@)]
        /\ net' = net \cup {[to |-> f, t |-> "pull", no |-> k.latest]}

-----------------------------------------------------------------------------
(* Actions *)

\* The NIC lets a permitted sender send: retransmissions first.  The last
\* packet before it stops asks for an ACK.
Send(f) ==
    /\ Permitted(src[f])
    /\ \E active \in ActiveSources, p \in Packets :
         LET s == IF src[f].rtx # {} THEN SendRtxPacket(src[f], p, active)
                                     ELSE SendNewPacket(src[f], active)
         IN  /\ IF src[f].rtx # {} THEN p \in src[f].rtx
                                   ELSE p = Data(NPkts - src[f].backlog + 1)
             /\ src' = [src EXCEPT ![f] = s]
             /\ net' = net \cup
                    {[from |-> f, t |-> "data", p |-> p, target |-> s.target,
                      ar |-> src[f].rtx # {} \/ s.backlog = 0 \/ s.credit <= 0]}
    /\ UNCHANGED <<snk, pacer, faults>>

Ack(f, got) == [to |-> f, t |-> "ack", got |-> got]

\* Data and RTS: the target first, then the packet; the first packet, one that
\* asks for it and a repeated one are acknowledged at once, others perhaps.
ReceiveData(m) ==
    /\ m.t \in {"data", "rts"}
    /\ LET f  == m.from
           kp == HandlePullTarget(f, [k |-> snk[f], p |-> pacer], m.target)
           kq == IF m.t = "rts" THEN RequestPull(f, kp) ELSE kp
           k  == [kq.k EXCEPT !.got = @ \cup {m.p}]
           forced == m.ar \/ m.p \in snk[f].got \/ snk[f].got = {}
       IN  /\ snk' = [snk EXCEPT ![f] = k]
           /\ pacer' = kq.p
           /\ \E reply \in BOOLEAN :
                /\ forced => reply
                /\ net' = (net \ {m}) \cup IF reply THEN {Ack(f, k.got)} ELSE {}
    /\ UNCHANGED <<src, faults>>

ReceiveTrimmed(m) ==
    /\ m.t = "trim"
    /\ LET f  == m.from
           kp == RequestPull(f, HandlePullTarget(f, [k |-> snk[f], p |-> pacer], m.target))
       IN  IF m.p \in snk[f].got
           THEN /\ net' = (net \ {m}) \cup {Ack(f, snk[f].got)}
                /\ UNCHANGED <<snk, pacer>>
           ELSE /\ net' = (net \ {m}) \cup {[to |-> f, t |-> "nack", p |-> m.p]}
                /\ snk' = [snk EXCEPT ![f] = kp.k]
                /\ pacer' = kp.p
    /\ UNCHANGED <<src, faults>>

PacerTurn ==
    /\ pacer.on
    /\ \/ pacer.active # <<>> /\ ServeActive
       \/ pacer.active = <<>> /\ pacer.idle # <<>> /\ ServeIdle
       \/ /\ pacer.active = <<>> /\ pacer.idle = <<>>
          /\ pacer' = [pacer EXCEPT !.on = FALSE]
          /\ UNCHANGED <<snk, net>>
    /\ UNCHANGED <<src, faults>>

\* A pull older than the last one, and an ACK for packets acknowledged already,
\* change nothing in a sender that has stopped to speculate.  They need not be
\* delivered.
Stale(m, f, s) ==
    /\ ~s.spec
    /\ \/ m.t = "pull" /\ m.to = f /\ m.no <= s.pull
       \/ m.t = "ack" /\ m.to = f /\ m.got \cap (s.out \cup s.rtx) = {}

Answer(m, s) ==
    /\ src' = [src EXCEPT ![m.to] = s]
    /\ net' = {n \in net \ {m} : ~Stale(n, m.to, s)}
    /\ UNCHANGED <<snk, pacer, faults>>

ReceiveAck(m) ==
    /\ m.t = "ack"
    /\ Answer(m, StopSpeculating([src[m.to] EXCEPT !.out = @ \ m.got, !.rtx = @ \ m.got]))

ReceiveNack(m) ==
    /\ m.t = "nack"
    /\ Answer(m, IF m.p \in src[m.to].out THEN QueueForRtx(StopSpeculating(src[m.to]), m.p)
                                         ELSE src[m.to])

ReceivePull(m) ==
    /\ m.t = "pull"
    /\ Answer(m, HandlePull(StopSpeculating(src[m.to]), m.no))

\* Whether an answer about packet p of flow f is on its way.
Pending(f, p) ==
    \E m \in net : \/ m.t \in {"data", "rts", "trim"} /\ m.from = f /\ m.p = p
                   \/ m.t = "ack" /\ m.to = f /\ p \in m.got
                   \/ m.t = "nack" /\ m.to = f /\ m.p = p

\* rtxTimerExpired without a sender window.  An RTS, at most one per round
\* trip, repeats the last target; after the packet was queued the sender may
\* have sent it at once, with the credit it had.
Timeout(f) ==
    \E p \in src[f].out, rtsDue, now \in BOOLEAN, active \in ActiveSources :
      LET queued == src[f].rtx # {}
          s0 == QueueForRtx(IF queued THEN StopSpeculating(src[f]) ELSE src[f], p)
          s1 == IF now THEN SendRtxPacket(s0, p, active) ELSE s0
          rts == rtsDue /\ (queued \/ s1.credit <= 0)
          s2 == IF rts THEN SendRTS(s1) ELSE s1
      IN  /\ now => Permitted(s0) /\ ~s0.spec /\ ~queued
          /\ rtsDue => src[f].rts < MaxRts
          /\ src[f].rts = 0 => rtsDue
          /\ Pending(f, p) => faults.early < MaxEarly
          /\ faults' = IF Pending(f, p) THEN [faults EXCEPT !.early = @ + 1] ELSE faults
          /\ src' = [src EXCEPT ![f] = s2]
          /\ net' = net
                \cup (IF now THEN {[from |-> f, t |-> "data", p |-> p, ar |-> TRUE,
                                    target |-> s1.target]} ELSE {})
                \cup (IF rts THEN {[from |-> f, t |-> "rts", p |-> Rts(s2.rts), ar |-> TRUE,
                                    target |-> s1.target]} ELSE {})
          /\ UNCHANGED <<snk, pacer>>

\* A queue of the fabric drops a packet, or strips the payload of data.
Lose(m) ==
    /\ faults.lost < MaxLoss
    /\ faults' = [faults EXCEPT !.lost = @ + 1]
    /\ \/ net' = net \ {m}
       \/ m.t = "data" /\ net' = (net \ {m}) \cup
              {[from |-> m.from, t |-> "trim", p |-> m.p, target |-> m.target]}
    /\ UNCHANGED <<src, snk, pacer>>

Receive(m) ==
    \/ ReceiveData(m) \/ ReceiveTrimmed(m)
    \/ ReceiveAck(m) \/ ReceiveNack(m) \/ ReceivePull(m)

Init ==
    /\ src = [f \in Flows |-> InitSrc]
    /\ snk = [f \in Flows |-> InitSnk]
    /\ pacer = InitPacer
    /\ net = {}
    /\ faults = [lost |-> 0, early |-> 0]

Next ==
    \/ \E f \in Flows : Send(f) \/ Timeout(f)
    \/ \E m \in net : Receive(m) \/ Lose(m)
    \/ PacerTurn

Spec == Init /\ [][Next]_vars

-----------------------------------------------------------------------------
(* Properties *)

\* Every field keeps its type; a packet waits for an answer or for its
\* retransmission, never for both.
TypeOK ==
    /\ src \in [Flows -> [backlog : 0 .. NPkts, out : SUBSET Packets, rtx : SUBSET Packets,
                          credit : Int, spec : BOOLEAN, pull : Nat, target : Int,
                          rts : 0 .. MaxRts, bytes : Nat]]
    /\ \A f \in Flows : src[f].out \cap src[f].rtx = {}
    /\ snk \in [Flows -> [got : SUBSET Packets, latest : Nat, highest : Int,
                          inPull : BOOLEAN, inSlow : BOOLEAN]]
    /\ pacer \in [active : Seq(Flows), idle : Seq(Flows), on : BOOLEAN]

\* The pacer's active list holds exactly the sinks that believe they are in
\* it, each once: requestPull never aborts on a sink it has already and
\* doNextEvent never finds one that left.
ActiveListAgrees ==
    /\ IsInjective(pacer.active)
    /\ ToSet(pacer.active) = {f \in Flows : snk[f].inPull}

\* The pacer sleeps only when it has no sink to serve (_active).
PacerAwake == pacer.active # <<>> \/ pacer.idle # <<>> => pacer.on

\* The books balance across the network: what a sender has spent and holds was
\* its first window or granted by its receiver, whatever pulls were lost,
\* overtaken or repeated; it overdraws by less than one packet.
Bank ==
    \A f \in Flows :
        /\ src[f].credit > -Mtu
        /\ src[f].pull <= snk[f].latest
        /\ src[f].bytes + src[f].credit <= MaxWnd + Unquantize(src[f].pull)

\* However late requests arrive and pulls return, a receiver has never been
\* asked for more than a window (and a packet overdrawn) beyond what the sender
\* has been granted.
DemandBounded ==
    \A f \in Flows : snk[f].highest <= src[f].pull + QuantizeCeil(MaxWnd + Mtu)

\* A sender that wants credit, has none and waits for no answer runs no timer; with
\* nothing of its flow on the way and its sink in neither list, nobody will ask again.
Stranded(f) ==
    /\ src[f].backlog > 0 \/ src[f].rtx # {}
    /\ src[f].credit <= 0 /\ src[f].out = {}
    /\ \A m \in net : IF "from" \in DOMAIN m THEN m.from # f ELSE m.to # f
    /\ f \notin ToSet(pacer.active) \cup ToSet(pacer.idle)

\* No single loss, trim or early timeout strands a sender: the pacer's slow pulls, or the
\* timer of the packet that carried the request, make up for it.  Two may, when the
\* request is lost with a copy of a packet that has been acknowledged.
StrandedByTwoFaults ==
    \A f \in Flows : Stranded(f) => faults.lost + faults.early >= 2

\* "Only send upto 1BDP worth of speculative credit" (doNextEvent of the
\* pacer): no sink is granted more than a window and one pull beyond its
\* sender's demand.
\* The code does not keep this: see section 3 of the README.
SpeculationBounded ==
    \A f \in Flows : SlowCredit(snk[f]) <= QuantizeFloor(MaxWnd) + CreditPerPull

\* Every sender has sent all of its data and has it acknowledged.
SendersDone == \A f \in Flows : src[f].backlog = 0 /\ src[f].out \cup src[f].rtx = {}

=============================================================================
