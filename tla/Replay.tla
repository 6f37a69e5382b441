------------------------------- MODULE Replay -------------------------------
(* The replay of a trace (logsim-interface.cpp, atlahs_htsim_api.cpp,
   lgs/Parser.hpp).  A schedule is a graph of operations per host: computations,
   sends and receives, each of which waits for others of its host to end or to
   start.  start_lgs takes operations from the active queue aq in the order of
   their times, hands sends and computations to the simulator, and lets the
   simulator run until something ends.

   The active queue is a std::priority_queue ordered by time alone; it is modelled
   as the binary heap of the standard library, because its order of equal times is
   what the program gets.  The network is reduced to the moment each flow ends,
   or to its never ending.  Times are whole nanoseconds; stray events are those
   of the network that end nothing.

   Left out, since their results are overwritten or never used: start times of
   operations, the availability of a NIC for receiving, statistics, and the
   exits on a percentage or a number of flows. *)
EXTENDS Integers, Sequences, FiniteSets, SequencesExt

CONSTANTS Schedules,   \* the schedules a run may replay
          FlowTimes,   \* how long a flow may take
          MaxLost,     \* flows whose end is never signalled
          Strays       \* whether network events may fall on the instant of an end

\* What this module assumes of its constants.
ReplayAssumption == FlowTimes \subseteq Nat \ {0} /\ MaxLost \in Nat /\ Strays \in BOOLEAN

VARIABLES sched,  \* operation -> [host, proc, kind, peer, tag, size, after, begin]
          r       \* the state of start_lgs and of LogSimInterface
vars == <<sched, r>>

Nodes == DOMAIN sched
Hosts == {sched[n].host : n \in Nodes} \union {sched[n].peer : n \in Nodes}
Cpus == Hosts \X {sched[n].proc : n \in Nodes}
Keys == Hosts \X Hosts \X {sched[n].tag : n \in Nodes}
Later(a, b) == IF a > b THEN a ELSE b
Cpu(n) == <<sched[n].host, sched[n].proc>>

(***************************************************************************)
(* The active queue.                                                       *)
(***************************************************************************)
RECURSIVE Up(_, _, _), Down(_, _)
\* e moves from place i towards the root past every later time.
Up(q, i, e) ==
  IF i > 1 /\ q[i \div 2].time > e.time THEN Up([q EXCEPT ![i] = q[i \div 2]], i \div 2, e)
                                        ELSE [q EXCEPT ![i] = e]
\* The hole at place i sinks to a leaf: the queue and the place of the leaf.
Down(q, i) ==
  LET left == 2 * i
      child == IF left < Len(q) /\ q[left + 1].time <= q[left].time THEN left + 1 ELSE left
  IN  IF left > Len(q) THEN <<q, i>> ELSE Down([q EXCEPT ![i] = q[child]], child)
Pushed(q, e) == Up(Append(q, e), Len(q) + 1, e)
Popped(q) ==
  IF Len(q) = 1 THEN <<>>
  ELSE LET hole == Down(Front(q), 1) IN Up(hole[1], hole[2], Last(q))
\* The elements of a sequence pushed one after the other.
PushedAll(q, es) == FoldLeft(Pushed, q, es)

(***************************************************************************)
(* The graph of a host (Parser.hpp).                                       *)
(***************************************************************************)
\* The members of a set of operations in the order of the trace.
InOrder(S) == [i \in 1 .. Cardinality(S) |-> CHOOSE n \in S : Cardinality({m \in S : m < n}) = i - 1]
\* Mutant: an operation is free as soon as one of its dependencies is met.
ReleasedEarly(p, ms) ==
  [p EXCEPT !.deps = [m \in Nodes |-> IF m \in ms THEN 0 ELSE @[m]],
            !.free = @ \o InOrder({m \in ms : p.deps[m] > 0})]
\* One dependency less for each of ms; those without any are executable.  The
\* counter is unsigned and wraps below zero, where it never meets zero again.
Released(p, ms) ==
  [p EXCEPT !.deps = [m \in Nodes |-> @[m] - (IF m \in ms THEN 1 ELSE 0)],
            !.free = @ \o InOrder({m \in ms : p.deps[m] = 1})]
MarkNodeAsStarted(p, n) ==
  [Released(p, {m \in Nodes : n \in sched[m].begin}) EXCEPT !.started = @ \union {n}, !.check = @ \union {sched[n].host}]
MarkNodeAsDone(p, n) ==
  [Released(p, {m \in Nodes : n \in sched[m].after}) EXCEPT !.done = @ \union {n}, !.check = @ \union {sched[n].host}]

(***************************************************************************)
(* The simulator's side.                                                   *)
(***************************************************************************)
Event(at, kind, n) == [at |-> at, kind |-> kind, node |-> n]
Pending(p, ev) == [p EXCEPT !.events = @ \union {ev}]
ExecuteCompute(p, n, at) == Pending([p EXCEPT !.computes = @ + 1], Event(at, "compute", n))
\* The null events pending for a time tell this one from the others.
Nulls(p, at) == Cardinality({ev \in p.events : ev.kind = "null" /\ ev.at = at})
\* htsim_simulate_until: a null event marks the time, if one is given.
SimulateUntil(p, until) ==
  LET q == [p EXCEPT !.more = FALSE, !.phase = "run"]
  IN  IF until = 0 THEN q ELSE Pending([q EXCEPT !.computes = @ + 1], Event(until, "null", Nulls(p, until)))

(***************************************************************************)
(* Initially the operations without dependencies are active.               *)
(***************************************************************************)
Element(n, kind, t) == [node |-> n, kind |-> kind, time |-> t]
Deps(s, n) == Cardinality(s[n].after) + Cardinality(s[n].begin)

Init ==
  /\ sched \in Schedules
  /\ r = [aq |-> PushedAll(<<>>, [i \in 1 .. Cardinality({n \in Nodes : Deps(sched, n) = 0}) |->
                   LET n == InOrder({m \in Nodes : Deps(sched, m) = 0})[i] IN Element(n, sched[n].kind, 0)]),
          deps |-> [n \in Nodes |-> Deps(sched, n)], free |-> <<>>, check |-> {},
          started |-> {}, done |-> {}, pairs |-> {}, rq |-> [k \in Keys |-> <<>>], uq |-> [k \in Keys |-> <<>>],
          cpu |-> [c \in Cpus |-> 0], nic |-> [h \in Hosts |-> 0],
          sends |-> 0, computes |-> 0, more |-> FALSE, until |-> 0,
          events |-> {}, now |-> 0, lost |-> 0, phase |-> "take"]

(***************************************************************************)
(* The inner loop takes the elements whose time has come.                  *)
(***************************************************************************)
Taking == r.phase = "take" /\ ~r.more /\ r.aq # <<>> /\ r.aq[1].time <= r.now
Node == r.aq[1].node
Op == sched[Node]
\* A send or receive of the own host becomes a computation of length one, of which
\* a copy goes back to the queue.
ToSelf == r.aq[1].kind \in {"send", "recv"} /\ Op.host = Op.peer
Kind == IF ToSelf THEN "calc" ELSE r.aq[1].kind
Rest == IF ToSelf THEN [r EXCEPT !.aq = Pushed(Popped(@), Element(Node, "calc", r.now))]
                  ELSE [r EXCEPT !.aq = Popped(@)]
Length == IF Op.kind = "calc" THEN Op.size ELSE 1

\* An element whose resources are busy goes back with the time they are free.
RetryAt(p, t) == [p EXCEPT !.aq = Pushed(@, [r.aq[1] EXCEPT !.kind = Kind, !.time = t])]

StartCalc ==
  /\ Taking /\ Kind = "calc" /\ r.cpu[Cpu(Node)] <= r.now
  /\ LET end == r.now + Length
         p == [MarkNodeAsStarted(Rest, Node) EXCEPT !.cpu[Cpu(Node)] = end, !.aq = Pushed(@, Element(Node, "running", end))]
     IN  r' = ExecuteCompute(p, Node, end)
DeferCalc ==
  /\ Taking /\ Kind = "calc" /\ r.cpu[Cpu(Node)] > r.now
  /\ r' = RetryAt(Rest, r.cpu[Cpu(Node)])
EndCalc == Taking /\ Kind = "running" /\ r' = MarkNodeAsDone(Rest, Node)

\* The processor and the NIC a send needs.
Resource == Later(r.cpu[Cpu(Node)], r.nic[Op.host])
StartSend(lose) ==
  /\ Taking /\ Kind = "send" /\ Resource <= r.now
  /\ lose => r.lost < MaxLost
  /\ \E d \in FlowTimes :
       LET p == [MarkNodeAsStarted(Rest, Node) EXCEPT
                   !.check = @ \union {Op.peer}, !.cpu[Cpu(Node)] = r.now, !.nic[Op.host] = r.now + Op.size,
                   !.until = r.now + Op.size, !.sends = @ + 1]
       IN  r' = IF lose THEN [p EXCEPT !.lost = @ + 1] ELSE Pending(p, Event(r.now + d, "flow", Node))
DeferSend ==
  /\ Taking /\ Kind = "send" /\ Resource > r.now
  /\ r' = RetryAt(Rest, Resource)

\* The receiver, sender and tag of a message, by which the queues are hashed.
Channel(n) ==
  IF sched[n].kind = "recv" THEN <<sched[n].host, sched[n].peer, sched[n].tag>>
                            ELSE <<sched[n].peer, sched[n].host, sched[n].tag>>
\* Both sides of a message are done at once.
Matched(p, send, recv) ==
  MarkNodeAsDone(MarkNodeAsDone([p EXCEPT !.pairs = @ \union {<<send, recv>>}], send), recv)
Unexpected(p, k) == [p EXCEPT !.uq[k] = Tail(@)]
\* The receive ends when the NIC of its host is free for sending; the sender's
\* processor (that of the number the receive has) and NIC are busy until then.
Delayed(p, send, t) ==
  LET cpu == <<sched[send].host, Op.proc>>
  IN  [p EXCEPT !.cpu[cpu] = Later(@, t), !.nic[sched[send].host] = Later(@, t)]
RecvFound ==
  /\ Taking /\ Kind = "recv" /\ r.uq[Channel(Node)] # <<>>
  /\ LET k == Channel(Node)
         send == r.uq[k][1]
     IN  r' = Delayed(Matched(Unexpected(MarkNodeAsStarted(Rest, Node), k), send, Node), send, Later(r.nic[Op.host], r.now))
RecvWaits ==
  /\ Taking /\ Kind = "recv" /\ r.uq[Channel(Node)] = <<>>
  /\ r' = [MarkNodeAsStarted(Rest, Node) EXCEPT !.rq[Channel(Node)] = Append(@, Node)]

\* A message is handled on the processor of the receive it matches.
Posted == r.rq[Channel(Node)]
MsgFound ==
  /\ Taking /\ Kind = "msg" /\ Posted # <<>> /\ r.cpu[Cpu(Posted[1])] <= r.now
  /\ r' = Matched([Rest EXCEPT !.rq[Channel(Node)] = Tail(@), !.cpu[Cpu(Posted[1])] = r.now], Node, Posted[1])
\* The receive goes back to the end of its queue.
ReceiveBack(q) == Append(Tail(q), q[1])
DeferMsg ==
  /\ Taking /\ Kind = "msg" /\ Posted # <<>> /\ r.cpu[Cpu(Posted[1])] > r.now
  /\ r' = [RetryAt(Rest, r.cpu[Cpu(Posted[1])]) EXCEPT !.rq[Channel(Node)] = ReceiveBack(@)]
MsgWaits ==
  /\ Taking /\ Kind = "msg" /\ Posted = <<>>
  /\ r' = [Rest EXCEPT !.uq[Channel(Node)] = Append(@, Node)]

(***************************************************************************)
(* The rest of an iteration: operations that became free, then time.       *)
(***************************************************************************)
Asking == r.phase = "take" /\ ~Taking
\* Free operations of the hosts that were marked, host by host in the order of a
\* hash set.
Orders == {f \in [1 .. Cardinality(r.check) -> r.check] : \A i, j \in DOMAIN f : i # j => f[i] # f[j]}
Freed(order) ==
  FlattenSeq([i \in DOMAIN order |-> SelectSeq(r.free, LAMBDA n : sched[n].host = order[i])])
Unlock ==
  /\ Asking
  /\ \E order \in Orders :
       /\ Freed(order) # <<>>
       /\ r' = [r EXCEPT !.aq = PushedAll(@, [i \in DOMAIN Freed(order) |-> Element(Freed(order)[i], sched[Freed(order)[i]].kind, r.now)]),
                         !.free = SelectSeq(@, LAMBDA n : sched[n].host \notin r.check),
                         !.check = {}, !.until = 0]
NothingFree == \A i \in DOMAIN r.free : sched[r.free[i]].host \notin r.check
Active == r.sends # 0 \/ r.computes # 0
Simulate ==
  /\ Asking /\ NothingFree /\ Active
  /\ r' = [SimulateUntil(r, r.until) EXCEPT !.check = {}, !.until = 0]
\* Nothing runs, and the next element lies in the future.
CatchUp ==
  /\ Asking /\ NothingFree /\ ~Active /\ r.aq # <<>> /\ r.aq[1].time > r.now
  /\ r' = [SimulateUntil(r, r.aq[1].time) EXCEPT !.check = {}, !.until = 0]
Finish ==
  /\ Asking /\ NothingFree /\ ~Active /\ r.aq = <<>>
  /\ r' = [r EXCEPT !.phase = "done"]
\* Nothing runs, the next element is due, and have_more keeps the loop off it.
Spin ==
  /\ Asking /\ NothingFree /\ ~Active /\ r.aq # <<>> /\ r.aq[1].time <= r.now
  /\ r' = [r EXCEPT !.check = {}]

(***************************************************************************)
(* The simulator runs until something ends.                                *)
(***************************************************************************)
\* have_more: another event is pending at the same instant.
Coincides(p) == Strays \/ \E ev \in p.events : ev.at = p.now
\* The trace has stopped: sends are active, and nothing can end them.
Stopped(p) == p.sends > 0 /\ p.aq = <<>> /\ ~p.more /\ p.events = {}
Onward(p) == [p EXCEPT !.phase = IF Stopped(p) THEN "deadlock" ELSE "take"]
\* flow_over, compute_over, null_over.
Over(p, ev) ==
  IF ev.kind = "flow" THEN [p EXCEPT !.sends = @ - 1, !.aq = Pushed(@, Element(ev.node, "msg", p.now))]
                      ELSE [p EXCEPT !.computes = @ - 1]
EventEnds(kinds) ==
  /\ r.phase = "run"
  /\ \E ev \in r.events, more \in BOOLEAN :
       /\ ev.kind \in kinds
       /\ \A other \in r.events : ev.at <= other.at
       /\ LET p == Over([r EXCEPT !.events = @ \ {ev}, !.now = ev.at], ev)
          IN  (more => Coincides(p)) /\ r' = Onward([p EXCEPT !.more = more])
\* The event list has run dry.
RunDry ==
  /\ r.phase = "run" /\ r.events = {}
  /\ r' = Onward(r)

Calc == StartCalc \/ DeferCalc \/ EndCalc
Send == StartSend(FALSE) \/ DeferSend
Lose == StartSend(TRUE)
Recv == RecvFound \/ RecvWaits
Msg == MsgFound \/ DeferMsg \/ MsgWaits
Loop == Unlock \/ Simulate \/ CatchUp \/ Finish
Step == Calc \/ Send \/ Recv \/ Msg \/ Loop \/ EventEnds({"flow"}) \/ EventEnds({"compute", "null"})
Next == (Step \/ Lose \/ RunDry \/ Spin) /\ UNCHANGED sched
Spec == Init /\ [][Next]_vars

(***************************************************************************)
(* Properties.                                                             *)
(***************************************************************************)
TypeOK ==
  /\ r.phase \in {"take", "run", "done", "deadlock"}
  /\ \A i \in DOMAIN r.aq : r.aq[i] \in [node : Nodes, kind : {"calc", "running", "send", "recv", "msg"}, time : Nat]
  /\ r.started \subseteq Nodes /\ r.done \subseteq Nodes
  /\ r.sends \in Nat /\ r.computes \in Nat /\ r.now \in Nat /\ r.more \in BOOLEAN
  /\ \A k \in Keys : r.rq[k] \in Seq(Nodes) /\ r.uq[k] \in Seq(Nodes)

\* An operation starts only when those it comes after have ended and those it
\* begins with have started: the counters of the graph agree with the operations
\* (Parser.hpp 122-145, 672-760).
DependenciesKept ==
  \A n \in r.started : sched[n].after \subseteq r.done /\ sched[n].begin \subseteq r.started

\* sends_active and compute_started, which keep the loop going, count the flows
\* and the events that are still to end (logsim-interface.cpp 525, 167-202).
CountsAgree ==
  /\ r.sends = r.lost + Cardinality({ev \in r.events : ev.kind = "flow"})
  /\ r.computes = Cardinality({ev \in r.events : ev.kind # "flow"})

\* A message and a receive of the same host, sender and tag never wait for each
\* other, each in its own queue (logsim-interface.cpp 691-885).
NeverBothWait == \A k \in Keys : r.rq[k] = <<>> \/ r.uq[k] = <<>>

\* When the loop ends, every operation of the trace has been carried out and no
\* message or receive is left (the test after the loop, 1043-1068).
NothingLeft ==
  r.phase = "done" => r.done = Nodes /\ \A k \in Keys : r.rq[k] = <<>> /\ r.uq[k] = <<>>

\* Computations, their ends and messages are taken at their time: the simulator
\* does not run past it ("we need to give control back to LGS", 172-173).
TakenOnTime == \A i \in DOMAIN r.aq : r.aq[i].kind \in {"calc", "running", "msg"} => r.aq[i].time >= r.now

\* Receives that become free together are posted in the order in which they were
\* put in the active queue, which for those of one dependency is that of the trace.
\* The code does not keep this: see section 3 of the README.
PostedInOrder ==
  \A k \in Keys : \A i, j \in DOMAIN r.rq[k] : i < j => r.rq[k][i] < r.rq[k][j]

\* What n waits for.
Before(n) == sched[n].after \union sched[n].begin

\* Two messages of one channel, of which the second is sent once the first is on
\* its way, meet receives that are not posted in the opposite order: MPI's
\* no-overtaking rule (lgs/README-mpi-matching 14-19).
\* The code does not keep this: see section 3 of the README.
NoOvertaking ==
  \A p, q \in r.pairs :
    Channel(p[1]) = Channel(q[1]) /\ p[1] \in Before(q[1]) => q[2] \notin Before(p[2])

\* The replay has stopped: with its trace done, or with the message that it cannot go on
\* (logsim-interface.cpp 986-1001).
Stopping == r.phase \in {"done", "deadlock"}
=============================================================================
