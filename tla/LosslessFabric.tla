--------------------------- MODULE LosslessFabric ---------------------------
(***************************************************************************)
(* Lossless operation with virtual input queues: hosts send over wires to  *)
(* the LosslessInputQueue of their port, which only counts what it has let *)
(* into the switch; a LosslessOutputQueue remembers for each packet the    *)
(* input queue that counted it and tells it when the packet has left.  The *)
(* input queue pauses and resumes its host over a wire of the same length. *)
(* The hosts' send state is the one module PausableQueue checks.           *)
(***************************************************************************)
EXTENDS Integers, Sequences, FiniteSets, FiniteSetsExt, SequencesExt

CONSTANTS
  Hosts, Outs,   \* the ports with an input queue, and the output queues
  High, Low,     \* _high_threshold and _low_threshold, in packets
  MaxSize,       \* _maxsize of an input queue, in packets
  Delay,         \* packets that fit on a wire
  Total          \* bound: packets each host sends, 0 when it never stops

ASSUME ThresholdAssumption == High \in Nat \ {0} /\ Low \in Nat /\ High > Low
ASSUME SizeAssumption == MaxSize \in Nat /\ Delay \in Nat \ {0} /\ Total \in Nat

VARIABLES
  left,       \* packets each host still has to send
  sending,    \* whether a host is sending one
  send,       \* _state_send of the host
  wire,       \* packets on the wire to the switch
  frames,     \* pause frames on the way back, with the packets sent since
  size,       \* _queuesize of the input queue
  recv,       \* _state_recv of the input queue
  queue,      \* _vq of each output queue: the input queue of each packet
  busy,       \* _sending of each output queue
  out         \* _state_send of each output queue

vars == <<left, sending, send, wire, frames, size, recv, queue, busy, out>>
States == {"READY", "PAUSE_RECEIVED", "PAUSED"}

Init ==
  /\ left = [h \in Hosts |-> Total] /\ sending = [h \in Hosts |-> FALSE]
  /\ send = [h \in Hosts |-> "READY"]
  /\ wire = [h \in Hosts |-> 0] /\ frames = [h \in Hosts |-> <<>>]
  /\ size = [h \in Hosts |-> 0] /\ recv = [h \in Hosts |-> "READY"]
  /\ queue = [o \in Outs |-> <<>>] /\ busy = [o \in Outs |-> FALSE]
  /\ out = [o \in Outs |-> "READY"]

(***************************************************************************)
(* A host and its wire.                                                    *)
(***************************************************************************)
Start(h) ==
  /\ send[h] = "READY" /\ ~sending[h] /\ (left[h] > 0 \/ Total = 0)
  /\ sending' = [sending EXCEPT ![h] = TRUE]
  /\ UNCHANGED <<left, send, wire, frames, size, recv, queue, busy, out>>

\* The host has sent one packet more since each frame that is on the way.
Aged(fs) == [i \in DOMAIN fs |-> [fs[i] EXCEPT !.age = @ + 1]]
\* The wire is as long as Delay packets: so many are on it, and a frame that
\* comes the other way arrives before the host has sent so many.
Finish(h) ==
  /\ sending[h] /\ wire[h] < Delay
  /\ \A i \in DOMAIN frames[h] : frames[h][i].age < Delay
  /\ sending' = [sending EXCEPT ![h] = FALSE]
  /\ left' = [left EXCEPT ![h] = IF Total = 0 THEN 0 ELSE @ - 1]
  /\ wire' = [wire EXCEPT ![h] = @ + 1]
  /\ frames' = [frames EXCEPT ![h] = Aged(@)]
  /\ send' = [send EXCEPT ![h] = IF @ = "PAUSE_RECEIVED" THEN "PAUSED" ELSE @]
  /\ UNCHANGED <<size, recv, queue, busy, out>>

HearFrame(h) ==
  /\ frames[h] # <<>>
  /\ send' = [send EXCEPT ![h] = IF ~Head(frames[h]).pause THEN "READY"
                                 ELSE IF sending[h] THEN "PAUSE_RECEIVED" ELSE "PAUSED"]
  /\ frames' = [frames EXCEPT ![h] = Tail(@)]
  /\ UNCHANGED <<left, sending, wire, size, recv, queue, busy, out>>

Frame(h, pause) == [frames EXCEPT ![h] = Append(@, [pause |-> pause, age |-> 0])]

(***************************************************************************)
(* The input queue and the output queue it hands the packet to.            *)
(***************************************************************************)
\* Mutant: the input queue pauses its host for every packet above the threshold.
CountedAlways(h) ==
  /\ size' = [size EXCEPT ![h] = @ + 1]
  /\ recv' = [recv EXCEPT ![h] = IF size[h] + 1 > High THEN "PAUSED" ELSE @]
  /\ frames' = IF size[h] + 1 > High THEN Frame(h, TRUE) ELSE frames
\* Mutant: the input queue never pauses.
CountedOnly(h) == size' = [size EXCEPT ![h] = @ + 1] /\ UNCHANGED <<recv, frames>>
Counted(h) ==
  LET full == size[h] + 1 > High /\ recv[h] # "PAUSED"
  IN  /\ size' = [size EXCEPT ![h] = @ + 1]
      /\ recv' = [recv EXCEPT ![h] = IF full THEN "PAUSED" ELSE @]
      /\ frames' = IF full THEN Frame(h, TRUE) ELSE frames

Deliver(h, o) ==
  /\ wire[h] > 0
  /\ wire' = [wire EXCEPT ![h] = @ - 1]
  /\ Counted(h)
  /\ queue' = [queue EXCEPT ![o] = Append(@, h)]
  /\ busy' = [busy EXCEPT ![o] = @ \/ (queue[o] = <<>> /\ out[o] = "READY")]
  /\ UNCHANGED <<left, sending, send, out>>

Released(h) ==
  LET empty == size[h] - 1 < Low /\ recv[h] = "PAUSED"
  IN  /\ size' = [size EXCEPT ![h] = @ - 1]
      /\ recv' = [recv EXCEPT ![h] = IF empty THEN "READY" ELSE @]
      /\ frames' = IF empty THEN Frame(h, FALSE) ELSE frames

\* Mutant: the newest virtual queue is told, as if _vq were popped at its front.
OwnerNewest(o) == Last(queue[o])
Owner(o) == Head(queue[o])

CompleteService(o) ==
  /\ busy[o]
  /\ Released(Owner(o))
  /\ queue' = [queue EXCEPT ![o] = Tail(@)]
  /\ out' = [out EXCEPT ![o] = IF @ = "PAUSE_RECEIVED" THEN "PAUSED" ELSE @]
  /\ busy' = [busy EXCEPT ![o] = Len(queue[o]) > 1 /\ out[o] = "READY"]
  /\ UNCHANGED <<left, sending, send, wire>>

\* The switch behind an output port pauses and resumes it.
PauseOut(o) ==
  /\ out[o] = "READY"
  /\ out' = [out EXCEPT ![o] = IF busy[o] THEN "PAUSE_RECEIVED" ELSE "PAUSED"]
  /\ UNCHANGED <<left, sending, send, wire, frames, size, recv, queue, busy>>
ResumeOut(o) ==
  /\ out[o] # "READY"
  /\ out' = [out EXCEPT ![o] = "READY"]
  /\ busy' = [busy EXCEPT ![o] = @ \/ queue[o] # <<>>]
  /\ UNCHANGED <<left, sending, send, wire, frames, size, recv, queue>>

Next ==
  \/ \E h \in Hosts : Start(h) \/ Finish(h) \/ HearFrame(h)
  \/ \E h \in Hosts, o \in Outs : Deliver(h, o)
  \/ \E o \in Outs : CompleteService(o) \/ PauseOut(o) \/ ResumeOut(o)

Spec == Init /\ [][Next]_vars

-----------------------------------------------------------------------------
\* The type of the state.
TypeOK ==
  /\ left \in [Hosts -> 0 .. Total] /\ sending \in [Hosts -> BOOLEAN]
  /\ send \in [Hosts -> States] /\ recv \in [Hosts -> {"READY", "PAUSED"}]
  /\ wire \in [Hosts -> 0 .. Delay] /\ size \in [Hosts -> Nat]
  /\ \A h \in Hosts : \A i \in DOMAIN frames[h] : frames[h][i].age \in 0 .. Delay
  /\ queue \in [Outs -> Seq(Hosts)] /\ busy \in [Outs -> BOOLEAN] /\ out \in [Outs -> States]

\* The packets of host h in the switch: each is a place in an output queue.
Inside(h) == UNION {{<<o, i>> : i \in {j \in DOMAIN queue[o] : queue[o][j] = h}} : o \in Outs}

\* An input queue counts exactly the packets it let into the switch that have
\* not left an output queue, whatever output they went to.
CountsItsPackets ==
  \A h \in Hosts : size[h] = Cardinality(Inside(h))

\* With room for two wires and one packet above the threshold nothing is dropped
\* ("LOSSLESS not working! I should have dropped this packet").
Lossless == \A h \in Hosts : size[h] + wire[h] <= MaxSize + Delay /\ size[h] <= MaxSize

\* Once its frames have arrived, a host is paused exactly when its input queue
\* says so: no frame is lost, repeated or out of turn.
FramesAgree ==
  \A h \in Hosts :
    LET last == IF frames[h] = <<>> THEN send[h] # "READY" ELSE Last(frames[h]).pause
    IN  /\ last <=> recv[h] = "PAUSED"
        /\ \A i \in 1 .. Len(frames[h]) - 1 : frames[h][i].pause # frames[h][i + 1].pause

\* Every packet of every host has left the switch.
Drained == \A h \in Hosts : left[h] = 0 /\ wire[h] = 0 /\ size[h] = 0
=============================================================================
