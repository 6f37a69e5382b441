----------------------------- MODULE PullQueues -----------------------------
(***************************************************************************)
(* The queues with a list for each flow: FairPullQueue, which serves the   *)
(* flows that have packets in turn and keeps no empty list, PrioPullQueue, *)
(* which does so for each priority and keeps its lists, and the single     *)
(* list of FifoPullQueue.  std::map orders flows and priorities by number; *)
(* its end() is the number after the last.                                 *)
(***************************************************************************)
EXTENDS Integers, Sequences, FiniteSets, FiniteSetsExt, SequencesExt

CONSTANTS
  Kinds,       \* which of fifo, fair and prio
  Flows,       \* flow ids, 1 .. n
  Prios,       \* priorities; one is enough for fifo and fair
  Preferred,   \* _preferred_flow of FifoPullQueue, or -1
  MaxPackets   \* bound: packets queued over a run

\* What this module assumes of its constants.
FlowAssumption == Flows \subseteq Nat \ {0} /\ Prios \subseteq Nat /\ Prios # {}

VARIABLES
  kind,
  line,      \* _pull_queue of FifoPullQueue, oldest first
  lists,     \* the packets of each flow at each priority, oldest first
  known,     \* the flows that have a list in the map of each priority
  current,   \* _current_queue of each priority
  count,     \* _pull_count
  nprio,     \* _prio_counts
  issued,    \* history: packets queued so far
  ahead      \* history: packets of g served since f, waiting, was last served

vars == <<kind, line, lists, known, current, count, nprio, issued, ahead>>

End == Max(Flows) + 1
First(s) == Min(s \cup {End})
After(s, f) == First({g \in s : g > f})

Init ==
  /\ kind \in Kinds
  /\ line = <<>>
  /\ lists = [p \in Prios |-> [f \in Flows |-> <<>>]]
  /\ known = [p \in Prios |-> {}] /\ current = [p \in Prios |-> End]
  /\ count = 0 /\ nprio = [p \in Prios |-> 0]
  /\ issued = 0
  /\ ahead = [f \in Flows |-> [g \in Flows |-> 0]]

(***************************************************************************)
(* enqueue: a new flow of FairPullQueue that is alone has the turn; the    *)
(* turn of a priority starts at the end.                                   *)
(***************************************************************************)
\* A packet of the preferred flow goes before those of that flow that are newest.
InLine(f) ==
  LET behind == CHOOSE n \in 0 .. Len(line) :
                  /\ \A i \in Len(line) - n + 1 .. Len(line) : line[i].flow = f
                  /\ n < Len(line) => line[Len(line) - n].flow # f
      packet == [flow |-> f, id |-> issued + 1]
  IN  IF f = Preferred THEN InsertAt(line, Len(line) - behind + 1, packet) ELSE Append(line, packet)

Enqueue(f, p) ==
  /\ issued < MaxPackets
  /\ issued' = issued + 1 /\ count' = count + 1
  /\ IF kind = "fifo"
     THEN line' = InLine(f) /\ UNCHANGED <<lists, known, current, nprio>>
     ELSE /\ lists' = [lists EXCEPT ![p][f] = Append(@, issued + 1)]
          /\ known' = [known EXCEPT ![p] = @ \cup {f}]
          /\ current' = IF kind = "fair" /\ known[p] = {} THEN [current EXCEPT ![p] = f] ELSE current
          /\ nprio' = [nprio EXCEPT ![p] = @ + 1]
          /\ UNCHANGED line
  /\ UNCHANGED <<kind, ahead>>

(***************************************************************************)
(* dequeue.                                                                *)
(***************************************************************************)
Turn(p) == IF current[p] = End THEN First(known[p]) ELSE current[p]
\* The first flow from the turn on that has packets; only PrioPullQueue keeps empty lists.
Served(p) ==
  LET able == {f \in known[p] : lists[p][f] # <<>>}
      later == {f \in able : f >= Turn(p)}
  IN  IF kind = "fair" THEN Turn(p) ELSE IF later # {} THEN Min(later) ELSE Min(able)

\* The turn after f has been served, the flows with lists then being s.
NextTurn(p, f, s) ==
  LET n == After(s, f)
  IN  IF kind = "fair" /\ n = End THEN First(s) ELSE n

Urgent == Min({p \in Prios : nprio[p] > 0})

Dequeue ==
  /\ count > 0
  /\ count' = count - 1
  /\ IF kind = "fifo"
     THEN line' = Tail(line) /\ UNCHANGED <<lists, known, current, nprio, ahead>>
     ELSE LET p == Urgent
              f == Served(p)
              s == IF kind = "fair" /\ Len(lists[p][f]) = 1 THEN known[p] \ {f} ELSE known[p]
          IN  /\ lists' = [lists EXCEPT ![p][f] = Tail(@)]
              /\ known' = [known EXCEPT ![p] = s]
              /\ current' = [current EXCEPT ![p] = NextTurn(p, f, s)]
              /\ nprio' = [nprio EXCEPT ![p] = @ - 1]
              /\ ahead' = [h \in Flows |-> [g \in Flows |->
                             IF h = f \/ \A r \in Prios : lists[r][h] = <<>> THEN 0
                             ELSE IF g = f /\ lists[p][h] # <<>> THEN ahead[h][g] + 1 ELSE ahead[h][g]]]
              /\ UNCHANGED line
  /\ UNCHANGED <<kind, issued>>

(***************************************************************************)
(* flush_flow                                                              *)
(***************************************************************************)
FlushedCount(f, p) == count - Len(lists[p][f])
FlushFlow(f, p) ==
  /\ IF kind = "fifo"
     THEN /\ line' = SelectSeq(line, LAMBDA x : x.flow # f)
          /\ count' = Len(line')
          /\ UNCHANGED <<lists, known, current, nprio>>
     ELSE LET s == known[p] \ {f}
              moved == IF current[p] = f THEN After(s, f) ELSE current[p]
          IN  /\ f \in known[p]
              /\ count' = FlushedCount(f, p)
              /\ nprio' = [nprio EXCEPT ![p] = @ - Len(lists[p][f])]
              /\ lists' = [lists EXCEPT ![p][f] = <<>>]
              /\ known' = [known EXCEPT ![p] = s]
              /\ current' = [current EXCEPT ![p] = IF kind = "fair" /\ moved = End THEN First(s) ELSE moved]
              /\ UNCHANGED line
  /\ ahead' = [ahead EXCEPT ![f] = [g \in Flows |-> 0]]
  /\ UNCHANGED <<kind, issued>>

Done == issued = MaxPackets /\ count = 0 /\ UNCHANGED vars
Next ==
  \/ \E f \in Flows, p \in Prios : Enqueue(f, p) \/ FlushFlow(f, p)
  \/ Dequeue
  \/ Done
Spec == Init /\ [][Next]_vars

-----------------------------------------------------------------------------
Waiting == MapThenSumSet(LAMBDA p : MapThenSumSet(LAMBDA f : Len(lists[p][f]), Flows), Prios)
\* The counts by which a caller knows whether to ask again are those of the lists, and the turn
\* never points at a list that has been erased.
CountsAgree ==
  /\ count = IF kind = "fifo" THEN Len(line) ELSE Waiting
  /\ kind # "fifo" => \A p \in Prios :
       /\ nprio[p] = MapThenSumSet(LAMBDA f : Len(lists[p][f]), Flows)
       /\ current[p] \in known[p] \cup {End}
       /\ kind = "fair" => \A f \in Flows : lists[p][f] # <<>> <=> f \in known[p]

\* While a flow waits, no other flow of its priority is served twice, whatever flows come, drain
\* or are flushed meanwhile.
FairTurns == Cardinality(Prios) = 1 => \A f, g \in Flows : ahead[f][g] <= 1

\* Packets of a flow leave in the order they were queued in, except those FifoPullQueue prefers.
FlowInOrder ==
  /\ \A i, j \in 1 .. Len(line) : i < j /\ line[i].flow = line[j].flow /\ line[i].flow # Preferred
                                     => line[i].id < line[j].id
  /\ \A p \in Prios, f \in Flows : \A i, j \in 1 .. Len(lists[p][f]) :
       i < j => lists[p][f][i] < lists[p][f][j]
=============================================================================
