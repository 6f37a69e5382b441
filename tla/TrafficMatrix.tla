--------------------------- MODULE TrafficMatrix ---------------------------
(***************************************************************************)
(* From a traffic matrix file to its flows: ConnectionMatrix::load reads   *)
(* connections and triggers, in whatever order their lines come; main      *)
(* makes a source for each connection and the triggers that join them; a   *)
(* flow that finishes activates its trigger, which makes other flows       *)
(* pending, and the event list starts those before any other event.        *)
(* Times, sizes and link failures are left out, and of the header only the *)
(* two counts are kept.                                                    *)
(***************************************************************************)
EXTENDS Integers, Sequences, FiniteSets, FiniteSetsExt, SequencesExt

CONSTANTS
  Files,       \* the files considered: their connections, triggers and header counts
  ChunkHops    \* for a file of gen_allreduce: hops of a chunk, over all its passes

VARIABLES
  file,      \* the file that is loaded
  unread,    \* its lines that are still to be read
  phase,     \* load, build, run, or the error that stopped the program
  conns,     \* the connections read, in their order
  table,     \* the triggers known: type, count and flows of each id
  targets,   \* _targets of the triggers that have been made
  shots,     \* calls of activate on each of them
  pending,   \* _pending_triggers
  starts,    \* history: how often each flow has been started
  done       \* flows that have finished

vars == <<file, unread, phase, conns, table, targets, shots, pending, starts, done>>

Ids == {l.id : l \in {x \in file.lines : x.what = "trigger"}} \cup
       ({l.trigger : l \in {x \in file.lines : x.what = "conn"}} \ {0})
FlowIds == {l.id : l \in {x \in file.lines : x.what = "conn"}}

Init ==
  /\ file \in Files
  /\ unread = file.lines /\ phase = "load" /\ conns = <<>>
  /\ table = [t \in {} |-> {}] /\ targets = [t \in {} |-> <<>>]
  /\ shots = [t \in Ids |-> 0] /\ pending = <<>>
  /\ starts = [f \in FlowIds |-> 0] /\ done = {}

(***************************************************************************)
(* load                                                                    *)
(***************************************************************************)
Unspecified == [kind |-> "unspecified", count |-> 0, flows |-> <<>>]
Known(t) == IF t \in DOMAIN table THEN table[t] ELSE Unspecified
With(t, e) == [x \in DOMAIN table \cup {t} |-> IF x = t THEN e ELSE table[x]]

ReadConnection(l) ==
  /\ l.what = "conn"
  /\ IF ~l.timed /\ l.trigger = 0 THEN phase' = "no start" ELSE UNCHANGED phase
  /\ conns' = Append(conns, l)
  /\ table' = IF l.trigger = 0 THEN table
              ELSE With(l.trigger, [Known(l.trigger) EXCEPT !.flows = Append(@, l.id)])

Specified(l) == [kind |-> l.kind, count |-> l.count, flows |-> Known(l.id).flows]
ReadTrigger(l) ==
  /\ l.what = "trigger"
  /\ IF Known(l.id).kind # "unspecified" THEN phase' = "twice" ELSE UNCHANGED phase
  /\ table' = With(l.id, Specified(l))
  /\ UNCHANGED conns

\* Lines come in any order, or as gen_allreduce writes them.
Before(l, m) == (l.what # m.what /\ l.what = "conn") \/ (l.what = m.what /\ l.id <= m.id)
ReadLine(l) ==
  /\ phase = "load"
  /\ ~file.shuffled => \A m \in unread : Before(l, m)
  /\ ReadConnection(l) \/ ReadTrigger(l)
  /\ unread' = unread \ {l}
  /\ UNCHANGED <<file, targets, shots, pending, starts, done>>

Triggers == {l \in file.lines : l.what = "trigger"}
Loaded ==
  /\ phase = "load" /\ unread = {}
  /\ phase' = IF Len(conns) # file.connections \/ Cardinality(Triggers) # file.triggers THEN "count"
              ELSE IF \E t \in DOMAIN table : table[t].kind = "unspecified" THEN "not specified"
              ELSE "build"
  /\ UNCHANGED <<file, unread, conns, table, targets, shots, pending, starts, done>>

(***************************************************************************)
(* main: the connections in their order; getTrigger makes what it is asked *)
(* for, and fails for an id the file does not have.                        *)
(***************************************************************************)
Targets(t) == LET s == SelectSeq(conns, LAMBDA c : c.trigger = t) IN [i \in 1 .. Len(s) |-> s[i].id]
Asked == {c.trigger : c \in Range(conns)} \cup {c.send : c \in Range(conns)} \cup {c.recv : c \in Range(conns)}
Build ==
  /\ phase = "build"
  /\ phase' = IF Asked \ {0} \subseteq DOMAIN table THEN "run" ELSE "no such trigger"
  /\ targets' = [t \in Asked \cap DOMAIN table |-> Targets(t)]
  /\ UNCHANGED <<file, unread, conns, table, shots, pending, starts, done>>

(***************************************************************************)
(* The run.  Whatever is pending is started before anything else happens;  *)
(* of the flows that are under way any may finish next.                    *)
(***************************************************************************)
\* What the n-th call of activate makes pending.
Fired(t, n) ==
  CASE table[t].kind = "oneshot" -> targets[t]
    [] table[t].kind = "multishot" -> IF n <= Len(targets[t]) THEN <<targets[t][n]>> ELSE <<>>
    [] table[t].kind = "barrier" -> IF n = table[t].count THEN targets[t] ELSE <<>>
\* The assertions of activate.
Refused(t, n) ==
  \/ table[t].kind = "oneshot" /\ (n > 1 \/ targets[t] = <<>>)
  \/ table[t].kind = "barrier" /\ (n > table[t].count \/ targets[t] = <<>>)

Conn(f) == CHOOSE c \in Range(conns) : c.id = f

StartTimed(f) ==
  /\ phase = "run" /\ pending = <<>>
  /\ Conn(f).timed /\ starts[f] = 0
  /\ starts' = [starts EXCEPT ![f] = 1]
  /\ UNCHANGED <<file, unread, phase, conns, table, targets, shots, pending, done>>

\* The event list takes the newest of the triggered flows.
DoTrigger ==
  /\ phase = "run" /\ pending # <<>>
  /\ starts' = [starts EXCEPT ![Last(pending)] = @ + 1]
  /\ pending' = Front(pending)
  /\ UNCHANGED <<file, unread, phase, conns, table, targets, shots, done>>

\* checkFinished: all of the flow has been acknowledged.  The sink's trigger is kept, and never
\* activated.
Finish(f) ==
  /\ phase = "run" /\ pending = <<>>
  /\ starts[f] > 0 /\ f \notin done
  /\ done' = done \cup {f}
  /\ LET t == Conn(f).send
         n == shots[t] + 1
     IN  IF t = 0 THEN UNCHANGED <<phase, shots, pending>>
         ELSE /\ shots' = [shots EXCEPT ![t] = n]
              /\ phase' = IF Refused(t, n) THEN "assert" ELSE phase
              /\ pending' = pending \o Fired(t, n)
  /\ UNCHANGED <<file, unread, conns, table, targets, starts>>

Run == DoTrigger \/ \E f \in FlowIds : StartTimed(f) \/ Finish(f)
Next ==
  \/ \E l \in unread : ReadLine(l)
  \/ Loaded
  \/ Build
  \/ Run
\* The event list runs while it has events, and the network delivers every flow that has started.
Spec == Init /\ [][Next]_vars

\* Lines of a file, and a file that announces as many of each as it has.
Flow(id, timed, trigger, send) ==
  [what |-> "conn", id |-> id, timed |-> timed, trigger |-> trigger, send |-> send, recv |-> 0]
Trig(id, kind, count) == [what |-> "trigger", id |-> id, kind |-> kind, count |-> count]
File(lines, ok) ==
  [lines |-> lines, valid |-> ok, shuffled |-> TRUE,
   connections |-> Cardinality({l \in lines : l.what = "conn"}),
   triggers |-> Cardinality({l \in lines : l.what = "trigger"})]

(***************************************************************************)
(* gen_allreduce for one group of g ranks: each rank's chunk makes passes  *)
(* round the ring, and hop d of pass p names the triggers that the counter *)
(* trig_id has at that point.                                              *)
(***************************************************************************)
Hops(g) == 2 * g - 2
\* trig_id when hop d is written: it grows with every hop but the first of a pass.
TrigId(g, passes, c, p, d) == (c * passes + p) * (Hops(g) - 1) + d
AllReduce(g, passes) ==
  LET hop(c, p, d) ==
        LET t == TrigId(g, passes, c, p, d)
        IN  Flow((c * passes + p) * Hops(g) + d, p = 0 /\ d = 1,
                 IF d > 1 THEN t - 1 ELSE IF p > 0 THEN t ELSE 0,
                 IF d # Hops(g) \/ p # passes - 1 THEN t ELSE 0)
      flows == {hop(x[1], x[2], x[3]) : x \in (0 .. g - 1) \X (0 .. passes - 1) \X (1 .. Hops(g))}
      triggers == {Trig(t, "oneshot", 0) : t \in 1 .. g * passes * (Hops(g) - 1)}
  IN  [File(flows \cup triggers, TRUE) EXCEPT !.shuffled = FALSE]
-----------------------------------------------------------------------------
\* The type of the state; the program stops only for what is wrong with the file.
TypeOK ==
  /\ phase \in {"load", "build", "run", "no start", "twice", "count", "not specified",
                "no such trigger", "assert"}
  /\ Range(conns) \subseteq file.lines /\ done \subseteq FlowIds
  /\ Range(pending) \subseteq FlowIds
  /\ file.valid => phase \in {"load", "build", "run"}

\* In whatever order the lines come, the triggers are what the file says they are.
LoadFaithful ==
  phase \in {"build", "run"} =>
    \A t \in DOMAIN table :
      /\ Range(table[t].flows) = {l.id : l \in {x \in file.lines : x.what = "conn" /\ x.trigger = t}}
      /\ \E l \in Triggers : l.id = t /\ l.kind = table[t].kind /\ l.count = table[t].count

\* A flow starts once.
StartsOnce == \A f \in FlowIds : starts[f] <= 1

\* A triggered flow starts only after as many of the flows its trigger waits for have finished as
\* the trigger asks: one, the count of a barrier, or one for each flow before it and itself.
Caused ==
  phase = "run" =>
    \A f \in FlowIds : starts[f] > 0 /\ Conn(f).trigger # 0 =>
      LET t == Conn(f).trigger
          finished == Cardinality({g \in done : Conn(g).send = t})
      IN  finished >= CASE table[t].kind = "oneshot" -> 1
                        [] table[t].kind = "barrier" -> table[t].count
                        [] table[t].kind = "multishot" -> SelectInSeq(targets[t], LAMBDA x : x = f)

\* Every flow of a valid file has been run to its end.
AllDone == file.valid => done = FlowIds

\* "Will abort if called more than count".
\* The code does not keep this: see section 3 of the README.
MultiAborts ==
  \A t \in DOMAIN targets :
    table[t].kind = "multishot" /\ shots[t] > Len(targets[t]) => phase = "assert"

\* "normal intra-pass chaining": a hop of a chunk starts when the hop before it has finished.
HopsInOrder ==
  \A f \in FlowIds : f % ChunkHops # 0 /\ f + 1 \in FlowIds => (starts[f + 1] > 0 => f \in done)
=============================================================================
