------------------------------- MODULE UecNic -------------------------------
(***************************************************************************)
(* The NIC of a host (class UecNIC): its ports, the list of sources that   *)
(* wait for a turn and the queue of control packets, together with what    *)
(* the senders of the host do with it.                                     *)
(*                                                                         *)
(* Abstractions.  A sender is reduced to counts of packets: `backlog` never *)
(* sent, `rtx` in its retransmission queue, `out` outstanding, and `room`, *)
(* the packets its window still admits.  The round robin pointer over the  *)
(* ports is left out: a search for a free port may find any of them, and a *)
(* second search finds another one when there is one.  Packets take any    *)
(* time to leave a port.                                                   *)
(***************************************************************************)
EXTENDS Naturals, Sequences, FiniteSetsExt

CONSTANTS
    Srcs,          \* the senders of the host
    NPorts,        \* ports of the NIC (_no_of_ports)
    NPkts,         \* data packets of each flow
    MaxRts,        \* bound: RTS records of a sender beyond its data packets
    MaxRoom,       \* bound: packets a window admits
    MaxControl,    \* bound: control packets waiting
    MaxList,       \* bound: length of the list when a timer expires
    RatioData,     \* _ratio_data
    RatioControl   \* _ratio_control

ASSUME NicAssumption ==
    /\ IsFiniteSet(Srcs)
    /\ {NPorts, NPkts, MaxRoom, RatioData, RatioControl} \subseteq Nat \ {0}
    /\ {MaxRts, MaxControl, MaxList} \subseteq Nat

VARIABLE host

Ports == 1 .. NPorts

Idle == 0

Flow0(started, backlog) ==
    [started |-> started, backlog |-> backlog, rtx |-> 0, out |-> 0, room |-> MaxRoom,
     blocked |-> FALSE]

InitHost ==
    [port |-> [p \in Ports |-> Idle],  \* the port whose route the packet took
     list |-> <<>>,                    \* _active_srcs
     control |-> 0,                    \* packets of _control
     crt |-> 0,                        \* _crt
     fault |-> "none",                 \* the assertion or exception that fired
     src |-> [s \in Srcs |-> Flow0(FALSE, 0)]]

Free(h) == {p \in Ports : h.port[p] = Idle}

Waiting(h) == {h.list[i] : i \in 1 .. Len(h.list)}

CanSend(f) == f.rtx + f.backlog > 0 /\ f.room > 0

\* The assertions and exceptions at which the program stops.
Faults == {"control waits", "not at the front", "route after sending", "empty rtx queue"}

Fails(h, what) == [h EXCEPT !.fault = what]

-----------------------------------------------------------------------------
(* Senders *)

\* k packets leave, retransmissions first.
Send(f, k) ==
    LET r == Min({k, f.rtx})
    IN  [f EXCEPT !.rtx = @ - r, !.backlog = @ - (k - r), !.out = @ + k,
                  !.room = @ - Min({k, @})]

RequestSending(h, s) == [h EXCEPT !.list = Append(@, s)]

BlockOnNic(h, s) == [RequestSending(h, s) EXCEPT !.src[s].blocked = TRUE]

\* The ports of T each send a packet of s.  requestSending asserts that no
\* control packet waits, startSending that no other source does.
SendAtOnce(h, s, T) ==
    IF T = {} THEN h
    ELSE IF h.control > 0 THEN Fails(h, "control waits")
    ELSE IF h.list # <<>> THEN Fails(h, "not at the front")
    ELSE [h EXCEPT !.port = [p \in Ports |-> IF p \in T THEN p ELSE @[p]],
                   !.src[s] = Send(@, Cardinality(T))]

\* sendIfPermitted calls itself until the window, the data or the free ports
\* are used up.
Permitted(h, s) ==
    LET f == h.src[s]
    IN  IF f.blocked THEN 0
        ELSE Min({f.rtx + f.backlog, f.room, Cardinality(Free(h))})

SendIfPermitted(h, s, T) ==
    LET h1 == SendAtOnce(h, s, T)
    IN  IF CanSend(h1.src[s]) /\ ~h1.src[s].blocked THEN BlockOnNic(h1, s) ELSE h1

\* startFlow sends while a port is free, whatever the window.
StartFlowOn(h, s, T) ==
    LET h0 == [h EXCEPT !.src[s] = Flow0(TRUE, NPkts)]
        h1 == SendAtOnce(h0, s, T)
    IN  IF h1.src[s].backlog > 0 THEN BlockOnNic(h1, s) ELSE h1

-----------------------------------------------------------------------------
(* Control packets *)

SendControlNow(h, p) == [h EXCEPT !.port[p] = p, !.control = @ - 1]

\* Slip: the packet is left to the next turn although a port is free.
SendControlPacketLater(h, p) == [h EXCEPT !.control = @ + 1]

SendControlPacket(h, p) ==
    LET h1 == [h EXCEPT !.control = @ + 1]
    IN  IF Free(h) = {} THEN h1 ELSE SendControlNow(h1, p)

-----------------------------------------------------------------------------
(* Turns *)

\* The senders that cannot use their turn leave the list (cantSend gives the
\* next one a chance); this is the place of the first one that can.
Turn(h) ==
    Min({i \in 1 .. Len(h.list) : CanSend(h.src[h.list[i]])} \cup {Len(h.list) + 1})

CalledBack(h) == {h.list[i] : i \in {j \in 1 .. Len(h.list) : j <= Turn(h)}}

Unblock(h) ==
    [h EXCEPT !.list = SubSeq(@, Turn(h) + 1, Len(@)),
              !.src = [s \in Srcs |->
                         IF s \in CalledBack(h) THEN [@[s] EXCEPT !.blocked = FALSE]
                                                ELSE @[s]]]

\* Slip: cantSend does not pass the turn on.
GiveTurnOnce(h, route, p) ==
    LET s  == Head(h.list)
        h1 == [h EXCEPT !.list = Tail(@), !.src[s].blocked = FALSE]
        h2 == [h1 EXCEPT !.port[p] = route, !.src[s] = Send(@, 1)]
    IN  IF ~CanSend(h.src[s]) THEN h1
        ELSE IF ~CanSend(h2.src[s]) THEN h2
        ELSE IF Free(h2) # {} THEN Fails(h2, "route after sending")
        ELSE BlockOnNic(h2, s)

\* Slip: a sender that could send more does not ask for another turn.
GiveTurnForgetting(h, route, p) ==
    LET h1 == Unblock(h)
        s  == h.list[Turn(h)]
    IN  IF Turn(h) > Len(h.list)
        THEN IF h.control > 0 THEN SendControlNow(h1, p) ELSE h1
        ELSE [h1 EXCEPT !.port[p] = route, !.src[s] = Send(@, 1)]

\* The callbacks of one data turn: timeToSend of the first sender that can
\* send, on the route of one free port; startSending looks for a free port
\* again.  A sender that could send more asks for another turn and must not
\* get it at once.
GiveTurn(h, route, p) ==
    LET h1 == Unblock(h)
        s  == h.list[Turn(h)]
        h2 == [h1 EXCEPT !.port[p] = route, !.src[s] = Send(@, 1)]
    IN  IF Turn(h) > Len(h.list)
        THEN IF h.control > 0 THEN SendControlNow(h1, p) ELSE h1
        ELSE IF ~CanSend(h2.src[s]) THEN h2
        ELSE IF Free(h2) # {} THEN Fails(h2, "route after sending")
        ELSE BlockOnNic(h2, s)

\* Slip: the counter is not reset.
NextCrtUnreset(h) == h.crt + 1

NextCrt(h) == IF h.crt + 1 >= RatioControl + RatioData THEN 0 ELSE h.crt + 1

\* Slip: the counter is compared before it wraps.
DataTurnUnwrapped(h) == h.list # <<>> /\ (h.control = 0 \/ h.crt + 1 < RatioData)

\* Slip: data goes first whenever a source waits.
DataTurnAlways(h) == h.list # <<>>

\* Whether the next packet is data when both kinds wait depends on _crt.
DataTurn(h) == h.list # <<>> /\ (h.control = 0 \/ NextCrt(h) < RatioData)

PortFreed(h, freed, route, p) ==
    LET h0 == [h EXCEPT !.port[freed] = Idle]
        h1 == IF h.list # <<>> /\ h.control > 0
              THEN [h0 EXCEPT !.crt = NextCrt(h)] ELSE h0
    IN  IF DataTurn(h) THEN GiveTurn(h1, route, p)
        ELSE IF h.control > 0 THEN SendControlNow(h1, p)
        ELSE h1

-----------------------------------------------------------------------------
(* Timeouts *)

\* The oldest outstanding packet is queued for retransmission.
GiveUp(h, s, room) ==
    [h EXCEPT !.src[s].out = @ - 1, !.src[s].rtx = @ + 1, !.src[s].room = room]

\* rtxTimerExpired: the packet is queued, and sent at once if it may be; then
\* the window is tested again.  An RTS is a control packet with a send record.
RtxTimerExpired(h, s, room, T, rtsDue, p) ==
    LET h1 == SendIfPermitted(GiveUp(h, s, room), s, T)
    IN  IF h.src[s].rtx > 0 THEN h1
        ELSE IF h1.src[s].room = 0
        THEN IF rtsDue
             THEN SendControlPacket([h1 EXCEPT !.src[s].out = @ + 1], p)
             ELSE h1
        ELSE IF Free(h1) = {} THEN RequestSending(h1, s)
        ELSE IF h1.src[s].rtx = 0 THEN Fails(h1, "empty rtx queue")
        ELSE [h1 EXCEPT !.port[p] = p, !.src[s] = Send(@, 1)]

-----------------------------------------------------------------------------
(* Actions *)

Running == host.fault = "none"

\* A search for a free port finds `p`; the next one finds another if it can.
TwoSearches(h, p, q) ==
    p \in Free(h) /\ q \in Free(h) /\ (p = q => Free(h) = {p})

Start(s) ==
    /\ Running
    /\ ~host.src[s].started
    /\ \E T \in kSubset(Min({NPkts, Cardinality(Free(host))}), Free(host)) :
         host' = StartFlowOn(host, s, T)

\* The sender's window and queues change, and it sends what it may.
Feedback(s, f) ==
    LET h == [host EXCEPT !.src[s] = f]
    IN  \E T \in kSubset(Permitted(h, s), Free(h)) : host' = SendIfPermitted(h, s, T)

\* An ACK takes packets off the outstanding ones and off the retransmission
\* queue, and the controller may set any window.
Ack(s) ==
    /\ Running
    /\ \E a \in 0 .. host.src[s].out, q \in 0 .. host.src[s].rtx, room \in 0 .. MaxRoom :
         /\ a + q > 0
         /\ Feedback(s, [host.src[s] EXCEPT !.out = @ - a, !.rtx = @ - q, !.room = room])

Nack(s) ==
    /\ Running
    /\ host.src[s].out > 0
    /\ \E room \in 0 .. Min({host.src[s].room + 1, MaxRoom}) :
         Feedback(s, GiveUp(host, s, room).src[s])

Held(f) == f.backlog + f.rtx + f.out

Timeout(s) ==
    /\ Running
    /\ host.src[s].out > 0
    /\ Len(host.list) < MaxList
    /\ \E room \in host.src[s].room .. MaxRoom, rtsDue \in BOOLEAN, p \in Ports :
         LET h == GiveUp(host, s, room)
         IN  \E T \in kSubset(Permitted(h, s), Free(h)) :
               /\ rtsDue => /\ Held(host.src[s]) < NPkts + MaxRts
                            /\ host.control < MaxControl
               /\ Free(h) \ T # {} => p \in Free(h) \ T
               /\ host' = RtxTimerExpired(host, s, room, T, rtsDue, p)

\* A receiver of the host sends an ACK or a NACK.
ReceiverSends ==
    /\ Running
    /\ host.control < MaxControl
    /\ \E p \in Ports :
         /\ Free(host) # {} => p \in Free(host)
         /\ host' = SendControlPacket(host, p)

PortDone(freed) ==
    /\ Running
    /\ host.port[freed] # Idle
    /\ \E route, p \in Ports :
         /\ TwoSearches([host EXCEPT !.port[freed] = Idle], route, p)
         /\ host' = PortFreed(host, freed, route, p)

\* An assertion or an exception ends the program.
Stopped == ~Running /\ UNCHANGED host

Next ==
    \/ \E s \in Srcs : Start(s) \/ Ack(s) \/ Nack(s) \/ Timeout(s)
    \/ ReceiverSends
    \/ \E p \in Ports : PortDone(p)
    \/ Stopped

Init == host = InitHost

Spec == Init /\ [][Next]_host

\* A packet leaves its port after its transmission time: the event that
\* sourceIsPending schedules comes.
FairSpec == Spec /\ \A p \in Ports : WF_host(PortDone(p))

-----------------------------------------------------------------------------
(* Properties *)

\* Every field keeps its type: counts stay natural and the list holds senders.
TypeOK ==
    host \in [port : [Ports -> Ports \cup {Idle}], list : Seq(Srcs), control : Nat,
              crt : 0 .. (RatioControl + RatioData - 1),
              fault : Faults \cup {"none"},
              src : [Srcs -> [started : BOOLEAN, backlog : Nat, rtx : Nat, out : Nat,
                              room : Nat, blocked : BOOLEAN]]]

\* No port idles while a sender is in the list or a control packet waits: the
\* event that would serve them is always scheduled.
WorkConserving == host.list # <<>> \/ host.control > 0 => Free(host) = {}

\* A sender with data and window to send it is waiting for the NIC: no path
\* through ACKs, NACKs, timeouts and turns loses the wakeup (_send_blocked_on_nic
\* stays set, or the sender returns without asking).
NoLostWakeup ==
    \A s \in Srcs : /\ CanSend(host.src[s]) => host.src[s].blocked
                    /\ host.src[s].blocked => s \in Waiting(host)

\* A packet leaves on the route of the port that its transmission keeps busy,
\* although timeToSend's route and startSending's port are searched for apart.
PortMatchesRoute == \A p \in Ports : host.port[p] \in {Idle, p}

\* The NIC and its senders agree on whose turn it is: the assertion of
\* requestSending and the exceptions of startSending ("queued_src != src") and
\* timeToSend ("requestSending returned non-NULL") never fire.
InStep == host.fault \notin {"control waits", "not at the front", "route after sending"}

\* sendRtxPacket is called only with a packet to retransmit (its assertion).
RetransmitsSomething == host.fault # "empty rtx queue"

\* Round robin: a sender in the list is called back, however many control
\* packets arrive and however often other senders come back.
EverySenderServed ==
    \A s \in Srcs :
        <>[](s \in Waiting(host)) =>
            []<><<\E p \in Ports : PortDone(p) /\ DataTurn(host) /\ s \in CalledBack(host)>>_host

\* Control packets are sent, however much data the senders have.
ControlServed ==
    <>[](host.control > 0) => []<><<host'.control < host.control>>_host
=============================================================================
