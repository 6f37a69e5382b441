--------------------------- MODULE PausableQueue ---------------------------
(***************************************************************************)
(* The sending side of every queue that obeys pause frames: the host       *)
(* queues PriorityQueue ("prio") and FairPriorityQueue ("fair"), ECNQueue  *)
(* ("ecn") and the send state that LosslessQueue and LosslessOutputQueue   *)
(* share ("lossless").  A pause does not cancel the service event that is  *)
(* already in the event list, so each class has to remember that one is.   *)
(***************************************************************************)
EXTENDS Integers, FiniteSets, FiniteSetsExt

CONSTANTS
  Kind,      \* which class is modelled
  Flows,     \* the flows that share the queue
  Prios,     \* the priority lists used
  Cap,       \* bound: packets in the queue
  Repeats    \* whether the peer may send two pauses in a row

NoFlow == 99    \* end of the flow map

\* What this module assumes of its constants.
KindAssumption == Kind \in {"prio", "fair", "ecn", "lossless"}
ListAssumption == IsFiniteSet(Flows) /\ Flows \subseteq Nat \ {NoFlow} /\ Prios \subseteq 0 .. 2 /\ Prios # {}
BoundAssumption == Cap \in Nat /\ Repeats \in BOOLEAN

VARIABLES
  waiting,    \* packets of each flow in each priority list
  current,    \* _current_queue of each fair list
  sending,    \* _sending: the list of the packet being sent, None when NULL or 0
  servicing,  \* _servicing: the list the pending event will serve
  events,     \* service events of this queue in the event list
  state,      \* _state_send
  failed,     \* an assertion of the class has failed
  told,       \* history: the last frame the peer sent
  late,       \* history: packets sent since the peer sent a pause
  passed      \* history: packets of other flows sent while a flow's waited

vars == <<waiting, current, sending, servicing, events, state, failed, told, late, passed>>
None == 3       \* Q_NONE
InList(w, p) == MapThenSumSet(LAMBDA f : w[p][f], Flows)
Active(w, p) == {f \in Flows : w[p][f] > 0}
\* queuesize(), in packets: FairPriorityQueue still counts the one it is sending.
Size(v) == MapThenSumSet(LAMBDA p : InList(v.w, p), Prios)
             + (IF Kind = "fair" /\ v.s # None THEN 1 ELSE 0)

Init ==
  /\ waiting = [p \in Prios |-> [f \in Flows |-> 0]]
  /\ current = [p \in Prios |-> NoFlow]
  /\ sending = None /\ servicing = None /\ events = 0
  /\ state = "READY" /\ failed = FALSE
  /\ told = "go" /\ late = 0 /\ passed = [p \in Prios |-> [f \in Flows |-> 0]]

\* The queue as one record, for the operations that call each other.
View == [w |-> waiting, c |-> current, s |-> sending, e |-> events,
         serving |-> servicing, st |-> state, bad |-> failed]
Become(v) ==
  /\ waiting' = v.w /\ current' = v.c /\ sending' = v.s /\ events' = v.e
  /\ servicing' = v.serving /\ state' = v.st /\ failed' = v.bad
  /\ passed' = [p \in Prios |-> [f \in Flows |->
       IF v.w[p][f] = 0 \/ v.w[p][f] < waiting[p][f] THEN 0
       ELSE IF \E g \in Flows : v.w[p][g] < waiting[p][g] THEN passed[p][f] + 1
       ELSE passed[p][f]]]

(***************************************************************************)
(* Starting to send.                                                       *)
(***************************************************************************)
Following(w, p, f) ==
  LET later == {g \in Active(w, p) : g > f}
  IN  IF later # {} THEN Min(later)
      ELSE IF Active(w, p) # {} THEN Min(Active(w, p)) ELSE NoFlow
\* One packet of the current flow, then the next flow that has packets.
Dequeue(v, p) ==
  LET f == IF v.c[p] = NoFlow THEN Min(Active(v.w, p)) ELSE v.c[p]
      w == [v.w EXCEPT ![p][f] = @ - 1]
  IN  [v EXCEPT !.w = w, !.c[p] = Following(w, p, f)]

Highest(v) == Max({p \in Prios : InList(v.w, p) > 0})
Begin(v) ==
  LET u == [v EXCEPT !.e = @ + 1, !.serving = Highest(v), !.s = Highest(v),
                     !.bad = @ \/ v.st # "READY" \/ (Kind = "lossless" /\ v.s # None)]
  IN  IF Kind = "fair" THEN Dequeue(u, Highest(v)) ELSE u

(***************************************************************************)
(* Frames and packets arriving.                                            *)
(***************************************************************************)
Enqueue(v, p, f) ==
  [v EXCEPT !.w[p][f] = @ + 1, !.c[p] = IF Active(v.w, p) = {} THEN f ELSE @]
Arrive(p, f) ==
  /\ ~failed /\ Size(View) < Cap
  /\ LET free == Size(View) = 0 /\ state = "READY" /\ (Kind = "fair" => sending = None)
         v == Enqueue(View, p, f)
     IN  Become(IF free THEN Begin(v) ELSE v)
  /\ UNCHANGED <<told, late>>

\* How each class decides that a packet is on its way out.
Busy == IF Kind = "lossless" THEN sending # None ELSE Size(View) > 0
\* Mutant: a pause stops the queue at once.
PausedAtOnce(v) == [v EXCEPT !.st = "PAUSED"]
Paused(v) == [v EXCEPT !.st = IF Busy THEN "PAUSE_RECEIVED" ELSE "PAUSED"]
\* FairPriorityQueue and the lossless queues first look whether they are sending.
Resumed(v) ==
  LET u == [v EXCEPT !.st = "READY"]
  IN  IF Size(v) > 0 /\ (Kind \in {"fair", "lossless"} => v.s = None) THEN Begin(u) ELSE u

ReceivePause ==
  /\ ~failed
  /\ told = "go" \/ Repeats
  /\ Become(IF Kind = "prio" /\ state # "READY" THEN Resumed(View) ELSE Paused(View))
  /\ told' = "pause"
  /\ late' = IF told = "go" THEN 0 ELSE late

ReceiveResume ==
  /\ ~failed /\ told = "pause"
  /\ Become(IF Kind = "prio" /\ state = "READY" THEN View ELSE Resumed(View))
  /\ told' = "go" /\ late' = 0

(***************************************************************************)
(* The service event.                                                      *)
(***************************************************************************)
HasPacket(v) ==
  CASE Kind = "fair" -> v.s # None
    [] Kind = "prio" -> v.serving # None /\ InList(v.w, v.serving) > 0
    [] OTHER -> Size(v) > 0
\* The packet leaves its list now, except in the fair queue, where it already has.
Sent(v) ==
  LET p == v.serving
      f == CHOOSE g \in Active(v.w, p) : TRUE
  IN  IF ~HasPacket(v) THEN v
      ELSE IF Kind = "fair" THEN [v EXCEPT !.s = None]
      ELSE [v EXCEPT !.w[p][f] = @ - 1, !.s = None]
Settled(v) == IF v.st = "PAUSE_RECEIVED" THEN [v EXCEPT !.st = "PAUSED"] ELSE v
Rest(v) ==
  IF Size(v) > 0 /\ v.st = "READY" THEN Begin(v)
  ELSE IF Size(v) = 0 \/ Kind = "fair" THEN [v EXCEPT !.serving = None] ELSE v

CompleteService ==
  /\ events > 0 /\ ~failed
  /\ LET v == [View EXCEPT !.e = @ - 1]
     IN  IF Kind = "fair" /\ state = "PAUSED" THEN Become(v) /\ UNCHANGED late
         ELSE IF Kind \in {"ecn", "lossless"} /\ Size(v) = 0
         THEN Become([v EXCEPT !.bad = TRUE]) /\ UNCHANGED late
         ELSE /\ Become(Rest(Settled(Sent(v))))
              /\ late' = IF told = "pause" /\ HasPacket(v) THEN late + 1 ELSE late
  /\ UNCHANGED told

Next ==
  \/ \E p \in Prios, f \in Flows : Arrive(p, f)
  \/ ReceivePause
  \/ ReceiveResume
  \/ CompleteService

Spec == Init /\ [][Next]_vars

-----------------------------------------------------------------------------
\* The type of the state, with at most one service event for each packet.
TypeOK ==
  /\ waiting \in [Prios -> [Flows -> 0 .. Cap]]
  /\ \A p \in Prios : current[p] \in Active(waiting, p) \cup {NoFlow}
  /\ sending \in Prios \cup {None} /\ servicing \in Prios \cup {None}
  /\ events \in 0 .. Cap + 1
  /\ state \in {"READY", "PAUSE_RECEIVED", "PAUSED"}
  /\ failed \in BOOLEAN /\ told \in {"go", "pause"}

\* A queue that was paused finishes the packet it was sending and sends no other
\* until it is told to go on ("will do nothing until the other end unblocks us").
SilentWhilePaused == late <= 1

\* A queue that may send and has something to send has a service event coming:
\* no order of pauses, resumes, arrivals and completions leaves it stuck.
NeverStuck == told = "go" /\ Size(View) > 0 => events > 0

\* A link sends one packet at a time: never two service events, and no
\* assertion of the class fails.
OneAtATime == events <= 1 /\ ~failed

\* Only a frame that says so ends a pause ("we are allowed to send!").
\* The code does not keep this: see section 3 of the README.
OnlyResumeUnblocks == told = "pause" => state # "READY"

\* A flow of the fair queue waits for at most one packet of each other flow of
\* its priority, however flows come and go.
RoundRobin == \A p \in Prios, f \in Flows : passed[p][f] <= Cardinality(Flows) - 1
=============================================================================
