--------------------------------- MODULE Pflr ---------------------------------
(***************************************************************************)
(* Precise fast loss detection ("pflr", schemes 1, 2 and 3).  A flow is    *)
(* split into slots by its packet sequence numbers; packets of a slot that *)
(* carry one entropy value (EV) follow one path and stay in order, so that *)
(* a gap on a path is a loss.  When a slot changes its path, and at the    *)
(* end of the flow, probes close what was sent.                            *)
(*                                                                         *)
(*   scheme 1 (with USS): a slot keeps its EV; no probes.                  *)
(*   scheme 2 (with RSS): the EV is the slot and a generation.             *)
(*   scheme 3 (with RSS): the EV is the first psn sent on the path.        *)
(*                                                                         *)
(* Abstractions.  ACKs tell the sender of a packet the sink has, at any    *)
(* time (they may be lost, coalesced or reordered).  The window and the    *)
(* NIC let the sender send at any time.  NACKs are delayed but not lost.   *)
(***************************************************************************)
EXTENDS Integers, Sequences, FiniteSetsExt, SequencesExt

CONSTANTS
    Scheme,         \* _pflr_scheme_id
    NPkts,          \* data packets of the flow
    NSlots,         \* getNoSlots()
    EvSpace,        \* number of entropy values: 2^16 in the code
    Probes,         \* ~_pflr_disable_probe
    ProbeEvery,     \* _pflr_proactive_probe_pkt_count; more than NPkts: -1, none
    RtxProbes,      \* _pflr_proactive_rtx_probe
    Coalescing,     \* _pflr_receiver_trim_probe_coalescing
    AcceptPromoted, \* _pflr_accept_header_promoted_probes
    Faults,         \* what a full queue does: "drop", "trim", "promote"
    MaxFaults,      \* bound: how often
    MaxChange, MaxRto, MaxRts       \* bounds: path changes, timeouts, RTS packets

ASSUME PflrAssumption ==
    /\ Scheme \in 1 .. 3
    /\ {NPkts, NSlots, EvSpace} \subseteq Nat \ {0} /\ EvSpace % NSlots = 0
    /\ {Probes, RtxProbes, Coalescing, AcceptPromoted} \subseteq BOOLEAN
    /\ ProbeEvery \in Nat
    /\ Faults \subseteq {"drop", "trim", "promote"}
    /\ {MaxFaults, MaxChange, MaxRto, MaxRts} \subseteq Nat

VARIABLES
    snd,    \* the sender
    rcv,    \* the receiver
    net,    \* packets in flight
    hist    \* what happened to each psn; counts of faults

vars == <<snd, rcv, net, hist>>

Psns  == 0 .. NPkts + MaxRts - 1
Slots == 0 .. NSlots - 1
Evs   == 0 .. EvSpace - 1
Slot(psn) == psn % NSlots
Generations == EvSpace \div NSlots

InitialEv(slot) == IF Scheme = 3 THEN slot ELSE slot * Generations

InitSnd ==
    [next |-> 0,                    \* _highest_sent
     backlog |-> NPkts,             \* in packets
     cur |-> [s \in Slots |-> InitialEv(s)],    \* _current_evs
     probes |-> <<>>,               \* _probe_queue, _probe_type_queue
     out |-> {}, rtx |-> {},        \* _tx_bitmap, _rtx_queue
     last |-> [s \in Slots |-> <<0, 0>>],       \* _slots_last_data_packet_info
     asked |-> [s \in Slots |-> 0], \* _slots_last_proactive_probe_psn
     armed |-> IF ProbeEvery = 0 THEN Slots ELSE {}]    \* _pflr_slots_probe_is_pending

InitRcv ==
    [got |-> {},                    \* what processData and processRts accepted
     start |-> 0, end |-> 0, bits |-> {}, nacked |-> {},  \* scheme 3: bitmaps
     expect |-> [s \in Slots |-> s],                      \* scheme 1
     gens |-> [s \in Slots |-> <<[gen |-> 0, start |-> s, expect |-> s]>>]]

InitNet == [path |-> [e \in Evs |-> <<>>], hi |-> {}, nack |-> [p \in Psns |-> 0]]

InitHist ==
    [lost |-> [p \in Psns |-> 0], nacks |-> [p \in Psns |-> 0],
     rtos |-> [p \in Psns |-> 0], rts |-> {},
     faults |-> 0, changes |-> 0, crashed |-> FALSE]

Expected(r) == Min({p \in 0 .. NPkts + MaxRts : p \notin r.got})

-----------------------------------------------------------------------------
(* Sender *)

\* Probes exist with RSS only, which scheme 1 excludes.
EnqueueProbe(s, psn, ev, kind) ==
    IF Scheme = 1 THEN s
    ELSE [s EXCEPT !.probes = Append(@, [psn |-> psn, ev |-> ev, kind |-> kind])]

CloseSection(s, psn, ev) ==
    IF Probes THEN EnqueueProbe(s, psn, ev, "end") ELSE s

LastSentInSlot(s, slot) == (s.next - 1) - ((s.next - 1 - slot) % NSlots)

NewEv(s, slot) ==
    IF Scheme = 2 THEN (s.cur[slot] + 1) % EvSpace
    ELSE (LastSentInSlot(s, slot) + NSlots) % EvSpace

\* The worst subflow is given another path (processEv_rss).
ChangePath(s, slot) ==
    LET t == [s EXCEPT !.cur[slot] = NewEv(s, slot)]
    IN  IF s.backlog > 0 THEN CloseSection(t, LastSentInSlot(s, slot), s.cur[slot]) ELSE t

\* What feedback may do to the paths: nothing, or a change of a used slot.
Rerouted(s) ==
    {s} \cup IF Scheme = 1 \/ hist.changes = MaxChange THEN {}
             ELSE {ChangePath(s, slot) : slot \in {t \in Slots : t < s.next}}

\* rssBumpEntropyForSubflow, on a timeout: the same unless all is sent.
Bumped(s, slot) ==
    {s} \cup IF Scheme = 1 \/ hist.changes = MaxChange \/ s.backlog = 0 THEN {}
             ELSE {ChangePath(s, slot)}

\* Slip: the packet stays in the record of what is outstanding.
QueueForRtxKeeping(s, psn) == [s EXCEPT !.rtx = @ \cup {psn}]

QueueForRtx(s, psn) == [s EXCEPT !.out = @ \ {psn}, !.rtx = @ \cup {psn}]

SendRtxPacket(s, psn) ==
    LET t == [s EXCEPT !.rtx = @ \ {psn}, !.out = @ \cup {psn}]
    IN  IF Probes /\ RtxProbes THEN EnqueueProbe(t, psn, s.cur[Slot(psn)], "rtx") ELSE t

\* The last packets of the slots are closed by a probe, others by a probe
\* after every ProbeEvery packets of a slot.
SendNewPacket(s) ==
    LET psn  == s.next
        slot == Slot(psn)
        ev   == s.cur[slot]
        t    == [s EXCEPT !.next = @ + 1, !.backlog = @ - 1, !.out = @ \cup {psn}]
    IN  IF ~Probes THEN t
        ELSE IF t.backlog < NSlots THEN CloseSection(t, psn, ev)
        ELSE LET u == [t EXCEPT !.last[slot] = <<psn, ev>>]
             IN  IF ProbeEvery > 0 /\ (psn \div NSlots + 1) % ProbeEvery = 0
                 THEN EnqueueProbe(u, psn, ev, "data") ELSE u

\* The next dynamic probe of the slot is scheduled (every round trip).
SendProbePacket(s) ==
    LET p == Head(s.probes)
        t == [s EXCEPT !.probes = Tail(@)]
    IN  IF p.kind = "rtx" \/ ProbeEvery # 0 THEN t
        ELSE [t EXCEPT !.asked[Slot(p.psn)] = p.psn,
                       !.armed = IF s.backlog > 0 THEN @ \cup {Slot(p.psn)} ELSE @]

-----------------------------------------------------------------------------
(* Receiver: a loss detector takes a receiver and returns it with the psns   *)
(* to NACK.                                                                  *)

Gap(from, to) == {p \in Psns : from <= p /\ p < to /\ Slot(p) = Slot(to)}

Detect1(r, psn) ==
    IF r.expect[Slot(psn)] <= psn
    THEN [r |-> [r EXCEPT !.expect[Slot(psn)] = psn + NSlots],
          nacks |-> Gap(r.expect[Slot(psn)], psn)]
    ELSE [r |-> r, nacks |-> {}]

\* Generations that meet the next one are resolved.
Resolve(gs) ==
    LET open == {i \in DOMAIN gs : i < Len(gs) => gs[i].expect # gs[i + 1].start}
    IN  SubSeq(gs, Min(open), Len(gs))

Generation(ev) == ev % Generations

Detect2(r, psn, ev) ==
    LET slot == Slot(psn)
        gs   == r.gens[slot]
        gen  == Generation(ev)
        known == {i \in DOMAIN gs : gs[i].gen = gen}
        i    == Min(known)
        later   == known # {} /\ gs[i].expect <= psn
        earlier == known # {} /\ ~later /\ psn < gs[i].start
        new  == IF known = {}
                THEN Append(gs, [gen |-> gen, start |-> psn, expect |-> psn + NSlots])
                ELSE IF later THEN [gs EXCEPT ![i].expect = psn + NSlots]
                ELSE IF earlier THEN [gs EXCEPT ![i].start = psn] ELSE gs
    IN  [r |-> [r EXCEPT !.gens[slot] = Resolve(new)],
         nacks |-> IF later THEN Gap(gs[i].expect, psn)
                   ELSE IF earlier THEN Gap(psn + NSlots, gs[i].start) ELSE {}]

\* Bitmaps of scheme 3, extended to reach psn.
Extend(r, psn) == [r EXCEPT !.end = Max({@, psn + 1})]

\* Received packets at the front leave the bitmaps.
Shift(r) ==
    LET st == Min({p \in r.start .. r.end : p \notin r.bits})
    IN  [r EXCEPT !.start = st, !.bits = {p \in @ : p >= st}, !.nacked = {p \in @ : p >= st}]

\* Slip: the section's first psn is ignored, the whole window is checked.
MissingFromWindow(r, base, psn) ==
    (Gap(r.start, psn) \cup {psn}) \ (r.bits \cup r.nacked)

\* The packets of the section that begins at base, up to psn.
Missing(r, base, psn) ==
    {p \in Gap(base, psn) \cup {psn} : p >= base /\ p >= r.start} \ (r.bits \cup r.nacked)

MarkNacked(r, ps) == [r |-> [r EXCEPT !.nacked = @ \cup ps], nacks |-> ps]

Detect3(r, psn, ev, first) ==
    LET r1 == IF psn >= r.start THEN [Extend(r, psn) EXCEPT !.bits = @ \cup {psn}] ELSE r
        d  == IF first THEN MarkNacked(r1, Missing(r1, ev, psn)) ELSE [r |-> r1, nacks |-> {}]
    IN  [d EXCEPT !.r = Shift(@)]

Detect(r, psn, ev, first) ==
    CASE Scheme = 3 -> Detect3(r, psn, ev, first)
      [] Scheme = 1 /\ first -> Detect1(r, psn)
      [] Scheme = 2 /\ first -> Detect2(r, psn, ev)
      [] OTHER -> [r |-> r, nacks |-> {}]

ProcessData(r, m) ==
    LET d == Detect(r, m.psn, m.ev, m.t = "data")
    IN  [d EXCEPT !.r.got = @ \cup {m.psn}]

\* Scheme 3.  A probe that left the queue of its path proves nothing.
ProcessProbe(r, m) ==
    LET r1 == Extend(r, m.psn)
        again == {p \in {m.psn} : p >= r1.start /\ p \notin r1.bits}
    IN  IF m.promoted /\ Coalescing /\ ~AcceptPromoted THEN [r |-> r, nacks |-> {}]
        ELSE IF m.kind = "rtx" THEN MarkNacked(r1, again)
        ELSE MarkNacked(r1, Missing(r1, m.ev, m.psn))

ProcessTrimmed(r, m) ==
    LET r1 == Extend(r, m.psn)
    IN  IF m.psn \in r.got THEN [r |-> r, nacks |-> {}]
        ELSE IF Scheme # 3 \/ (~Coalescing /\ r.end = r.start)
             THEN [r |-> r, nacks |-> {m.psn}]
        ELSE MarkNacked(r1, {m.psn} \ (r1.bits \cup r1.nacked))

-----------------------------------------------------------------------------
(* Actions *)

Data(t, psn, ev) == [t |-> t, psn |-> psn, ev |-> ev]
OnPath(m) == net' = [net EXCEPT !.path[m.ev] = Append(@, m)]

CountChange(s) ==
    hist' = [hist EXCEPT !.changes = IF s.cur = snd.cur THEN @ ELSE @ + 1]

\* One packet at a time: retransmissions, then probes, then new data.
TimeToSend ==
    /\ \/ \E psn \in snd.rtx :
            /\ \A other \in snd.rtx : psn <= other
            /\ snd' = SendRtxPacket(snd, psn)
            /\ OnPath(Data("rtx", psn, snd.cur[Slot(psn)]))
       \/ /\ snd.rtx = {} /\ snd.probes # <<>>
          /\ snd' = SendProbePacket(snd)
          /\ LET p == Head(snd.probes)
             IN  OnPath([t |-> "probe", psn |-> p.psn, ev |-> p.ev, kind |-> p.kind,
                         promoted |-> FALSE])
       \/ /\ snd.rtx = {} /\ snd.probes = <<>> /\ snd.backlog > 0
          /\ snd' = SendNewPacket(snd)
          /\ OnPath(Data("data", snd.next, snd.cur[Slot(snd.next)]))
    /\ UNCHANGED <<rcv, hist>>

\* The timer of the dynamic probes: what was sent on the slot last is probed,
\* unless a probe covered it.  Only a probe that is sent sets the timer again.
ProactiveProbe(slot) ==
    /\ slot \in snd.armed
    /\ LET s == [snd EXCEPT !.armed = @ \ {slot}]
           psn == s.last[slot][1]
       IN  snd' = IF s.next > slot /\ s.asked[slot] < psn /\ s.backlog > 0
                  THEN EnqueueProbe(s, psn, s.last[slot][2], "data") ELSE s
    /\ UNCHANGED <<rcv, net, hist>>

\* processAck: a packet the sink has; the feedback of the path.
ReceiveAck ==
    /\ \E psn \in rcv.got \cap (snd.out \cup snd.rtx) :
         snd' \in Rerouted([snd EXCEPT !.out = @ \ {psn}, !.rtx = @ \ {psn}])
    /\ CountChange(snd')
    /\ UNCHANGED <<rcv, net>>

\* processNack: a NACK of a packet that is not outstanding changes nothing.
ReceiveNack(psn) ==
    /\ net.nack[psn] > 0
    /\ net' = [net EXCEPT !.nack[psn] = @ - 1]
    /\ IF psn \in snd.out THEN snd' \in Rerouted(QueueForRtx(snd, psn))
                          ELSE UNCHANGED snd
    /\ CountChange(snd')
    /\ UNCHANGED rcv

\* rtxTimerExpired; with receiver credit it may send an RTS, which takes a psn
\* and leaves by the high priority queue.
RetransmitTimeout(psn) ==
    /\ psn \in snd.out
    /\ hist.rtos[psn] < MaxRto
    /\ \E s \in Bumped(snd, Slot(psn)), rts \in BOOLEAN :
         LET q == QueueForRtx(s, psn)
             h == [hist EXCEPT !.rtos[psn] = @ + 1,
                               !.changes = IF s.cur = snd.cur THEN @ ELSE @ + 1]
         IN  IF rts
             THEN /\ Cardinality(hist.rts) < MaxRts
                  /\ snd' = [q EXCEPT !.next = @ + 1, !.out = @ \cup {snd.next}]
                  /\ net' = [net EXCEPT !.hi = @ \cup
                        {[t |-> "rts", psn |-> snd.next, ev |-> snd.cur[Slot(snd.next)]]}]
                  /\ hist' = [h EXCEPT !.rts = @ \cup {snd.next}]
             ELSE /\ snd' = q /\ hist' = h /\ UNCHANGED net
    /\ UNCHANGED rcv

\* What the sink makes of a packet.
Deliver(m) ==
    CASE m.t = "rts"   -> [r |-> [rcv EXCEPT !.got = @ \cup {m.psn}], nacks |-> {}]
      [] m.t = "trim"  -> ProcessTrimmed(rcv, m)
      [] m.t = "probe" -> ProcessProbe(rcv, m)
      [] OTHER         -> ProcessData(rcv, m)

\* Under scheme 2 a probe is answered by a probe ACK, which the sender does
\* not expect (the assertion of processProbeAck).
Receive(m, rest) ==
    IF Scheme = 2 /\ m.t = "probe"
    THEN /\ net' = rest
         /\ hist' = [hist EXCEPT !.crashed = TRUE]
         /\ UNCHANGED <<snd, rcv>>
    ELSE LET d == Deliver(m)
         IN  /\ rcv' = d.r
             /\ net' = [rest EXCEPT !.nack =
                           [p \in Psns |-> IF p \in d.nacks THEN @[p] + 1 ELSE @[p]]]
             /\ hist' = [hist EXCEPT !.nacks =
                           [p \in Psns |-> IF p \in d.nacks THEN @[p] + 1 ELSE @[p]]]
             /\ UNCHANGED snd

ArriveInOrder(ev) ==
    /\ net.path[ev] # <<>>
    /\ Receive(Head(net.path[ev]), [net EXCEPT !.path[ev] = Tail(@)])

ArriveHigh(m) == m \in net.hi /\ Receive(m, [net EXCEPT !.hi = @ \ {m}])

\* A full queue drops a packet, strips the payload of data, or moves a probe to
\* the high priority queue, where nothing keeps it behind its data.
Overflow(ev) ==
    /\ hist.faults < MaxFaults
    /\ \E i \in DOMAIN net.path[ev] :
         LET m == net.path[ev][i]
             rest == [net EXCEPT !.path[ev] = RemoveAt(@, i)]
             counted == [hist EXCEPT !.faults = @ + 1]
         IN  \/ /\ m.t # "probe"
                /\ \/ "drop" \in Faults /\ net' = rest
                   \/ /\ "trim" \in Faults
                      /\ net' = [rest EXCEPT !.hi = @ \cup {[m EXCEPT !.t = "trim"]}]
                /\ hist' = [counted EXCEPT !.lost[m.psn] = @ + 1]
             \/ /\ m.t = "probe" /\ "promote" \in Faults
                /\ \/ net' = rest
                   \/ net' = [rest EXCEPT !.hi = @ \cup {[m EXCEPT !.promoted = TRUE]}]
                /\ hist' = counted
    /\ UNCHANGED <<snd, rcv>>

Init == snd = InitSnd /\ rcv = InitRcv /\ net = InitNet /\ hist = InitHist

Next ==
    /\ ~hist.crashed
    /\ \/ TimeToSend \/ ReceiveAck
       \/ \E slot \in Slots : ProactiveProbe(slot)
       \/ \E psn \in Psns : ReceiveNack(psn) \/ RetransmitTimeout(psn)
       \/ \E ev \in Evs : ArriveInOrder(ev) \/ Overflow(ev)
       \/ \E m \in net.hi : ArriveHigh(m)

Spec == Init /\ [][Next]_vars

-----------------------------------------------------------------------------
(* Properties *)

\* The sender's packets are in one place each; the bitmaps of the receiver
\* cover what they mark.
TypeOK ==
    /\ snd.out \cap snd.rtx = {} /\ snd.out \cup snd.rtx \subseteq 0 .. snd.next - 1
    /\ snd.next + snd.backlog <= NPkts + MaxRts
    /\ \A s \in Slots : snd.cur[s] \in Evs
    /\ rcv.bits \cup rcv.nacked \subseteq rcv.start .. rcv.end - 1

\* "allowing the receiver to distinguish reordering from true loss"
\* (README.md): a packet of data is reported lost only if a copy of it was lost.
NoFalseNack ==
    \A p \in Psns \ hist.rts : hist.nacks[p] > 0 => hist.lost[p] > 0

\* Trims, gaps and probes report the same loss once: every NACK of a packet is
\* paid for by a lost copy, or by a timeout that made one too many.
OneNackPerLoss ==
    \A p \in Psns \ hist.rts : hist.nacks[p] <= hist.lost[p] + hist.rtos[p]

\* The detector's bitmaps agree with the reassembly: they hold the data that
\* came, and begin no later than the packet that is expected.  So the index
\* psn - start of a trimmed packet, which is at least the expected one, never
\* falls below zero.
WindowAgrees ==
    /\ rcv.start <= Expected(rcv)
    /\ rcv.bits \subseteq rcv.got
    /\ {p \in rcv.got \ hist.rts : p >= rcv.start} \subseteq rcv.bits

\* "check we're not seeing NACKed RTS packets" (processNack): no NACK names an
\* RTS that is outstanding.
\* The code does not keep this: see section 3 of the README.
RtsNeverNacked ==
    \A p \in hist.rts : net.nack[p] > 0 => p \notin snd.out

\* The assertion of processProbeAck: probe ACKs come under scheme 0 only.
\* The code does not keep this: see section 3 of the README.
ProbeAckExpected == ~hist.crashed

\* Every packet has been received.
Delivered == rcv.got = 0 .. NPkts - 1

=============================================================================
