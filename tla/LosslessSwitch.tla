--------------------------- MODULE LosslessSwitch ---------------------------
(***************************************************************************)
(* Lossless operation with LosslessQueue (queue type LOSSLESS): an output  *)
(* port that fills up makes its switch pause every neighbour, and a switch *)
(* that receives a pause frame passes it to one of its ports, found by the *)
(* id of the switch that sent it.  Frames are handed over in one call; the *)
(* wires of the packets are taken to be short.                             *)
(***************************************************************************)
EXTENDS Integers, Sequences, FiniteSets, FiniteSetsExt, SequencesExt

CONSTANTS
  Ports,       \* the output queues, in the order the topology wires them
  MaxSize,     \* _maxsize of each, in packets
  Fed,         \* the ports that hosts feed directly
  Routes,      \* pairs of ports: where packets of one may go next
  Polite       \* whether hosts stop at the threshold although no frame tells them to

\* What this module assumes of its constants.
PortAssumption == Fed \subseteq DOMAIN Ports /\ MaxSize \in Nat
RouteAssumption == \A r \in Routes : Ports[r[1]].to = Ports[r[2]].at

VARIABLES
  size,      \* _queuesize
  send,      \* _state_send
  recv,      \* _state_recv
  crashed    \* a queue without a switch had to send a pause

vars == <<size, send, recv, crashed>>
All == DOMAIN Ports
IsHost(s) == s.tier = "host"

\* _ports of a switch: addPort is called for the links between switches only.
PortsOf(s) == SelectSeq([i \in All |-> i], LAMBDA i : Ports[i].at = s /\ ~IsHost(Ports[i].to))
Registered(p) == ~IsHost(Ports[p].to)

\* initThresholds; a queue that was never added to a switch keeps its maximum.
HighThreshold(p) == IF Registered(p) THEN MaxSize - 5 * Len(PortsOf(Ports[p].at)) ELSE MaxSize
LowThreshold(p) == IF Registered(p) THEN 2 ELSE 0
\* What this module assumes of its constants.
ThresholdAssumption == \A p \in All : HighThreshold(p) > LowThreshold(p)

Init ==
  /\ size = [p \in All |-> 0] /\ send = [p \in All |-> "READY"]
  /\ recv = [p \in All |-> "READY"] /\ crashed = FALSE

(***************************************************************************)
(* Pause frames.                                                           *)
(***************************************************************************)
\* receivePacket of the switch: the first port whose other end has the id.
Egress(s, id) ==
  LET match == {i \in DOMAIN PortsOf(s) : Ports[PortsOf(s)[i]].to.id = id}
  IN  IF match = {} THEN {} ELSE {PortsOf(s)[Min(match)]}

\* sendPause: the ports that hear a frame of p's switch about p.
Informed(p) ==
  UNION {Egress(Ports[q].to, Ports[q].at.id) :
           q \in {r \in Range(PortsOf(Ports[p].at)) : r # p}}
Told(p, pause, s, n) ==
  [q \in All |-> IF q \notin Informed(p) THEN s[q]
                 ELSE IF ~pause THEN "READY"
                 ELSE IF n[q] > 0 /\ s[q] # "PAUSED" THEN "PAUSE_RECEIVED" ELSE "PAUSED"]

(***************************************************************************)
(* Packets.  A port that is not paused and has packets is sending one; a   *)
(* packet with no next port goes to a host that takes it at once.          *)
(***************************************************************************)
Full(p, n) == n > HighThreshold(p)

Enqueued(p, n, s) ==
  LET pauses == Full(p, n[p]) /\ recv[p] # "PAUSED"
  IN  IF pauses /\ ~Registered(p)
      THEN crashed' = TRUE /\ size' = n /\ send' = s /\ UNCHANGED recv
      ELSE /\ size' = n /\ UNCHANGED crashed
           /\ recv' = IF pauses THEN [recv EXCEPT ![p] = "PAUSED"] ELSE recv
           /\ send' = IF pauses THEN Told(p, TRUE, s, n) ELSE s

FromHost(p) ==
  /\ ~crashed /\ p \in Fed /\ (Polite => size[p] <= HighThreshold(p))
  /\ Enqueued(p, [size EXCEPT ![p] = @ + 1], send)

\* completeService: the packet is out, the queue settles its pause and, below the
\* low threshold, ends the one it asked for.
Leaves(p) ==
  LET n == [size EXCEPT ![p] = @ - 1]
      s == [send EXCEPT ![p] = IF @ = "PAUSE_RECEIVED" THEN "PAUSED" ELSE @]
      resumes == n[p] < LowThreshold(p) /\ recv[p] = "PAUSED"
  IN  [n |-> n, s |-> IF resumes THEN Told(p, FALSE, s, n) ELSE s, resumes |-> resumes]

Deliver(p) ==
  /\ ~crashed /\ size[p] > 0 /\ send[p] # "PAUSED" /\ (\A q \in All : <<p, q>> \notin Routes)
  /\ size' = Leaves(p).n /\ send' = Leaves(p).s
  /\ recv' = IF Leaves(p).resumes THEN [recv EXCEPT ![p] = "READY"] ELSE recv
  /\ UNCHANGED crashed

Forward(p, q) ==
  /\ ~crashed /\ size[p] > 0 /\ send[p] # "PAUSED"
  /\ <<p, q>> \in Routes
  /\ LET u == Leaves(p)
         n == [u.n EXCEPT ![q] = @ + 1]
         pauses == Full(q, n[q]) /\ recv[q] # "PAUSED" /\ Registered(q)
     IN  /\ size' = n
         /\ crashed' = (Full(q, n[q]) /\ recv[q] # "PAUSED" /\ ~Registered(q))
         /\ recv' = [recv EXCEPT ![p] = IF u.resumes THEN "READY" ELSE @,
                                 ![q] = IF pauses THEN "PAUSED" ELSE @]
         /\ send' = IF pauses THEN Told(q, TRUE, u.s, n) ELSE u.s

Next == \E p \in All : FromHost(p) \/ Deliver(p) \/ (\E q \in All : Forward(p, q))
Spec == Init /\ [][Next]_vars

-----------------------------------------------------------------------------
\* The type of the state.
TypeOK ==
  /\ size \in [All -> 0 .. MaxSize]
  /\ send \in [All -> {"READY", "PAUSE_RECEIVED", "PAUSED"}]
  /\ recv \in [All -> {"READY", "PAUSED"}] /\ crashed \in BOOLEAN

\* No queue takes a packet it has no room for, and none has to pause neighbours
\* it does not know ("LOSSLESS not working! I should have dropped this packet").
Lossless == ~crashed /\ \A p \in All : size[p] <= MaxSize

\* A port is stopped only while the switch it faces is blocked: a frame goes to
\* "the egress queue that should process this".
OnlyNeighboursStop ==
  \A q \in All : send[q] # "READY" =>
    \E p \in All : recv[p] = "PAUSED" /\ Ports[q].to = Ports[p].at

\* While a port is over its threshold and asked for silence, every port that could
\* send to it is silent, or finishes the one packet it was sending.
BlockedHolds ==
  \A p \in All : recv[p] = "PAUSED" =>
    \A q \in All : <<q, p>> \in Routes => send[q] # "READY"
=============================================================================
