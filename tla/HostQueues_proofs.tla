------------------------- MODULE HostQueues_proofs -------------------------
(***************************************************************************)
(* Three parts of the host's and the switch's queues.  The queues that     *)
(* obey pauses, for any flows, priorities and lengths, when they are fair  *)
(* or lossless: no order of pauses, resumes, arrivals and completions      *)
(* leaves them stuck, lets them send while they are paused, or makes a     *)
(* flow miss its turn.  The ring that every queue keeps its packets in:    *)
(* for any initial size and any number of doublings, CircularBuffer        *)
(* implements Deque.  And the ports that share a switch's buffer: for any  *)
(* ports, sizes, shares and weights that the hypotheses allow, the bytes   *)
(* counted are the bytes stored, they fit, and two classes that compete    *)
(* are served in the proportion of their weights.                          *)
(***************************************************************************)
EXTENDS PausableQueue, NatFacts_proofs, SequenceTheorems

CONSTANTS Value, StartSize, Unset, MaxSize    \* those of the ring
VARIABLES slots, nextPush, nextPop, count     \* those of the ring
Ring == INSTANCE CircularBuffer

\* The constants and variables of the ports that share a buffer.
CONSTANTS Ports, Sizes, TrimSize, Buffer, Alpha, Weight, CapFactor, Offered, Pairs
VARIABLES queue, bytes, used, tokens, last, chosen, error, lead
Shared == INSTANCE SharedQueue

State == {"READY", "PAUSE_RECEIVED", "PAUSED"}
Lists == [Prios -> [Flows -> Nat]]
\* The values of View.
Queue == [w : Lists, c : [Prios -> Flows \cup {NoFlow}], s : Prios \cup {None}, e : Int,
          serving : Prios \cup {None}, st : State, bad : BOOLEAN]
Assumptions == KindAssumption /\ ListAssumption /\ BoundAssumption

Total(w) == SumOf([p \in Prios |-> InList(w, p)], Prios)

-----------------------------------------------------------------------------
(* How many packets wait. *)

\* The flows and priorities are finite sets of numbers that the sentinels do not belong to.
LEMMA Finite ==
    ASSUME ListAssumption
    PROVE  /\ IsFiniteSet(Flows) /\ IsFiniteSet(Prios) /\ Prios \subseteq 0 .. 2
           /\ Flows \subseteq Nat /\ NoFlow \notin Flows /\ None \notin Prios
<1>1. IsFiniteSet(0 .. 2)
  <2>1. 0 \in Int /\ 2 \in Int
    OBVIOUS
  <2> QED
    BY <2>1, FS_Interval
<1>2. IsFiniteSet(Prios)
  BY <1>1, FS_Subset DEF ListAssumption
<1>3. Prios \subseteq 0 .. 2 /\ Flows \subseteq Nat \ {NoFlow} /\ IsFiniteSet(Flows)
  BY DEF ListAssumption
<1>4. None \notin Prios
  <2>1. 3 \notin 0 .. 2
    OBVIOUS
  <2> QED
    BY <1>3, <2>1 DEF None
<1>5. Flows \subseteq Nat /\ NoFlow \notin Flows
  BY <1>3
<1> QED
  BY <1>2, <1>3, <1>4, <1>5

\* A list holds a packet exactly if a flow has one there.
LEMMA ListHolds ==
    ASSUME ListAssumption, NEW w \in Lists, NEW p \in Prios
    PROVE  /\ InList(w, p) = SumOf(w[p], Flows)
           /\ InList(w, p) \in Nat
           /\ \A f \in Flows : w[p][f] <= InList(w, p)
           /\ InList(w, p) > 0 <=> Active(w, p) # {}
<1>1. InList(w, p) = SumOf(w[p], Flows)
  BY DEF InList, SumOf
<1>2. IsFiniteSet(Flows) /\ \A f \in Flows : w[p][f] \in Nat
  BY Finite DEF Lists
<1>3. /\ SumOf(w[p], Flows) \in Nat
      /\ \A f \in Flows : w[p][f] <= SumOf(w[p], Flows)
      /\ SumOf(w[p], Flows) = 0 <=> \A f \in Flows : w[p][f] = 0
  BY <1>2, SumOfNat
<1>4. Active(w, p) # {} <=> ~ \A f \in Flows : w[p][f] = 0
  BY <1>2 DEF Active
<1> QED
  BY <1>1, <1>3, <1>4

\* The sum that Size writes out is Total.
LEMMA TotalIs ==
    ASSUME ListAssumption, NEW w \in Lists
    PROVE  MapThenSumSet(LAMBDA p : InList(w, p), Prios) = Total(w)
<1> DEFINE g == [p \in Prios |-> InList(w, p)]
           F(u) == u = [s \in SUBSET Prios |-> IF s = {} THEN 0 ELSE
                      InList(w, CHOOSE x \in s : TRUE) + u[s \ {CHOOSE x \in s : TRUE}]]
           G(u) == u = [s \in SUBSET Prios |-> IF s = {} THEN 0 ELSE
                      g[CHOOSE x \in s : TRUE] + u[s \ {CHOOSE x \in s : TRUE}]]
<1>1. MapThenSumSet(LAMBDA p : InList(w, p), Prios) = (CHOOSE u : F(u))[Prios]
  BY DEF MapThenSumSet, MapThenFoldSet
<1>2. Total(w) = (CHOOSE u : G(u))[Prios]
  BY DEF Total, SumOf, MapThenSumSet, MapThenFoldSet
<1>3. \A s \in SUBSET Prios : s # {} => g[CHOOSE x \in s : TRUE] = InList(w, CHOOSE x \in s : TRUE)
  BY DEF InList
<1> HIDE DEF g
<1>4. \A u : F(u) <=> G(u)
  BY <1>3
<1> HIDE DEF F, G
<1>5. (CHOOSE u : F(u)) = (CHOOSE u : G(u))
  BY <1>4
<1> QED
  BY <1>1, <1>2, <1>5

\* What Size counts, and when it is zero.
LEMMA SizeIs ==
    ASSUME Assumptions, NEW v \in Queue
    PROVE  /\ Size(v) = Total(v.w) + (IF Kind = "fair" /\ v.s # None THEN 1 ELSE 0)
           /\ Size(v) \in Nat /\ Total(v.w) \in Nat
           /\ \A p \in Prios, f \in Flows : v.w[p][f] <= Total(v.w)
           /\ Total(v.w) = 0 <=> \A p \in Prios : Active(v.w, p) = {}
<1> DEFINE w == v.w
           g == [p \in Prios |-> InList(w, p)]
<1>1. w \in Lists /\ ListAssumption
  BY DEF Queue, Assumptions
<1> HIDE DEF w
<1>2. \A p \in Prios : /\ g[p] \in Nat /\ (g[p] = 0 <=> Active(w, p) = {})
                       /\ \A f \in Flows : w[p][f] <= g[p]
  BY <1>1, ListHolds
<1> HIDE DEF g
<1>3. /\ SumOf(g, Prios) \in Nat
      /\ \A p \in Prios : g[p] <= SumOf(g, Prios)
      /\ SumOf(g, Prios) = 0 <=> \A p \in Prios : g[p] = 0
  BY <1>1, <1>2, Finite, SumOfNat
<1>4. Total(w) = SumOf(g, Prios)
  BY DEF Total, g
<1>5. ASSUME NEW p \in Prios, NEW f \in Flows
      PROVE  w[p][f] <= Total(w)
  <2>1. w[p][f] \in Nat
    BY <1>1 DEF Lists
  <2> QED
    BY <1>2, <1>3, <1>4, <2>1
<1>6. Size(v) = Total(w) + (IF Kind = "fair" /\ v.s # None THEN 1 ELSE 0)
  BY <1>1, TotalIs DEF Size, w
<1> QED
  BY <1>2, <1>3, <1>4, <1>5, <1>6 DEF w

\* One packet more or less.
LEMMA TotalChange ==
    ASSUME ListAssumption, NEW w \in Lists, NEW x \in Lists, NEW p \in Prios, NEW f \in Flows,
           NEW d \in Int, x[p][f] = w[p][f] + d,
           \A q \in Prios, g \in Flows : <<q, g>> # <<p, f>> => x[q][g] = w[q][g]
    PROVE  Total(x) = Total(w) + d
<1> DEFINE a == [q \in Prios |-> InList(w, q)]
           b == [q \in Prios |-> InList(x, q)]
<1>1. IsFiniteSet(Flows) /\ IsFiniteSet(Prios)
  BY Finite
<1>2. \A q \in Prios : InList(w, q) = SumOf(w[q], Flows) /\ InList(x, q) = SumOf(x[q], Flows)
                       /\ InList(w, q) \in Nat /\ InList(x, q) \in Nat
  BY ListHolds
<1>3. InList(x, p) = InList(w, p) + d
  <2>1. \A g \in Flows : w[p][g] \in Int /\ x[p][g] \in Int /\ (g # f => x[p][g] = w[p][g])
    BY DEF Lists
  <2>2. SumOf(w[p], Flows) \in Int /\ SumOf(x[p], Flows) = SumOf(w[p], Flows) + x[p][f] - w[p][f]
    BY <1>1, <2>1, SumOfChange
  <2> QED
    BY <1>2, <2>1, <2>2
<1>4. \A q \in Prios : q # p => InList(x, q) = InList(w, q)
  <2> SUFFICES ASSUME NEW q \in Prios, q # p
               PROVE  InList(x, q) = InList(w, q)
    OBVIOUS
  <2>1. w[q] \in [Flows -> Nat] /\ x[q] \in [Flows -> Nat] /\ \A g \in Flows : x[q][g] = w[q][g]
    BY DEF Lists
  <2>2. x[q] = w[q]
    BY <2>1
  <2> QED
    BY <1>2, <2>2
<1>5. \A q \in Prios : a[q] \in Int /\ b[q] \in Int /\ (q # p => b[q] = a[q])
  BY <1>2, <1>4
<1>6. b[p] = a[p] + d
  BY <1>3
<1> HIDE DEF a, b
<1>7. SumOf(a, Prios) \in Int /\ SumOf(b, Prios) = SumOf(a, Prios) + b[p] - a[p]
  BY <1>1, <1>5, SumOfChange
<1>8. SumOf(b, Prios) = SumOf(a, Prios) + d
  BY <1>5, <1>6, <1>7
<1> QED
  BY <1>8 DEF Total, a, b

-----------------------------------------------------------------------------
(* The operations. *)

Pointers(w, c) == \A p \in Prios :
    IF Active(w, p) = {} THEN c[p] = NoFlow ELSE c[p] \in Active(w, p)

\* What holds of the queue whatever happens to it: one service event for the packet being sent,
\* if there is one, and no assertion has failed.
Well(v) ==
    /\ v \in Queue /\ ~ v.bad
    /\ Kind = "fair" => Pointers(v.w, v.c)
    /\ v.e = IF v.s = None THEN 0 ELSE 1
    /\ v.s # None => v.serving = v.s
    /\ Kind = "lossless" /\ v.s # None => Active(v.w, v.s) # {}
    /\ v.st = "PAUSED" => v.s = None
    /\ Size(v) <= Cap

\* A queue that may send does so if it has something to send.
Willing(v) == v.st = "READY" => v.s # None \/ \A p \in Prios : Active(v.w, p) = {}

\* One packet more or less in a list.
LEMMA WaitMore ==
    ASSUME ListAssumption, NEW v \in Queue, NEW p \in Prios, NEW f \in Flows, NEW d \in {-1, 1},
           v.w[p][f] + d >= 0, NEW x, x = [v.w EXCEPT ![p][f] = @ + d]
    PROVE  /\ x \in Lists /\ x[p][f] = v.w[p][f] + d
           /\ \A q \in Prios, g \in Flows : <<q, g>> # <<p, f>> => x[q][g] = v.w[q][g]
           /\ Total(x) = Total(v.w) + d
<1> DEFINE w == v.w
           n == w[p][f] + d
<1>1. w \in Lists /\ w[p][f] \in Nat
  BY DEF Queue, Lists
<1>2. n \in Nat
  BY <1>1
<1> DEFINE r == [w[p] EXCEPT ![f] = n]
<1>3. x = [w EXCEPT ![p] = r]
  OBVIOUS
<1> HIDE DEF w
<1>4. /\ r \in [Flows -> Nat] /\ r[f] = n
      /\ \A g \in Flows : g # f => r[g] = w[p][g]
  <2> HIDE DEF n
  <2> QED
    BY <1>1, <1>2 DEF Lists
<1> HIDE DEF r, n
<1>5. x \in Lists /\ x[p] = r /\ \A q \in Prios : q # p => x[q] = w[q]
  BY <1>1, <1>3, <1>4 DEF Lists
<1>6. ASSUME NEW q \in Prios, NEW g \in Flows, <<q, g>> # <<p, f>>
      PROVE  x[q][g] = w[q][g]
  <2>1. CASE q = p
    BY <1>4, <1>5, <1>6, <2>1
  <2>2. CASE q # p
    BY <1>5, <2>2
  <2> QED
    BY <2>1, <2>2
<1>7. x[p][f] = w[p][f] + d
  BY <1>4, <1>5 DEF n
<1>8. Total(x) = Total(w) + d
  <2>1. d \in Int
    OBVIOUS
  <2> QED
    BY <1>1, <1>5, <1>6, <1>7, <2>1, TotalChange
<1> QED
  BY <1>5, <1>6, <1>7, <1>8 DEF w

\* What Enqueue changes.
LEMMA EnqueueIs ==
    ASSUME ListAssumption, NEW v \in Queue, NEW p \in Prios, NEW f \in Flows
    PROVE  /\ Enqueue(v, p, f) \in Queue
           /\ Enqueue(v, p, f).w = [v.w EXCEPT ![p][f] = @ + 1]
           /\ Enqueue(v, p, f).c = [v.c EXCEPT ![p] = IF Active(v.w, p) = {} THEN f ELSE @]
           /\ Enqueue(v, p, f).s = v.s /\ Enqueue(v, p, f).e = v.e
           /\ Enqueue(v, p, f).serving = v.serving /\ Enqueue(v, p, f).st = v.st
           /\ Enqueue(v, p, f).bad = v.bad
<1> DEFINE x == [v.w EXCEPT ![p][f] = @ + 1]
           y == [v.c EXCEPT ![p] = IF Active(v.w, p) = {} THEN f ELSE @]
<1>1. x \in Lists
  <2>1. v.w[p][f] \in Nat
    BY DEF Queue, Lists
  <2> QED
    BY <2>1, WaitMore
<1>2. y \in [Prios -> Flows \cup {NoFlow}]
  BY DEF Queue
<1>3. Enqueue(v, p, f) = [v EXCEPT !.w = x, !.c = y]
  BY DEF Enqueue
<1> HIDE DEF x, y
<1>4. /\ Enqueue(v, p, f) \in Queue
      /\ Enqueue(v, p, f).w = x /\ Enqueue(v, p, f).c = y
      /\ Enqueue(v, p, f).s = v.s /\ Enqueue(v, p, f).e = v.e
      /\ Enqueue(v, p, f).serving = v.serving /\ Enqueue(v, p, f).st = v.st
      /\ Enqueue(v, p, f).bad = v.bad
  BY <1>1, <1>2, <1>3 DEF Queue
<1> QED
  BY <1>4 DEF x, y

\* Of lists some of which hold a packet, the highest that does is served.
LEMMA HighestIs ==
    ASSUME ListAssumption, NEW v \in Queue, \E p \in Prios : Active(v.w, p) # {}
    PROVE  Highest(v) \in Prios /\ Active(v.w, Highest(v)) # {}
<1> DEFINE T == {p \in Prios : InList(v.w, p) > 0}
<1>1. \A p \in Prios : InList(v.w, p) > 0 <=> Active(v.w, p) # {}
  BY ListHolds DEF Queue
<1>2. T # {} /\ T \subseteq 0 .. 2
  BY <1>1, Finite
<1>3. \E x \in T : \A y \in T : x >= y
  <2> HIDE DEF T
  <2>1. CASE 2 \in T
    BY <1>2, <2>1
  <2>2. CASE 2 \notin T /\ 1 \in T
    BY <1>2, <2>2
  <2>3. CASE 2 \notin T /\ 1 \notin T
    <3>1. \A y \in T : y = 0
      BY <1>2, <2>3
    <3>2. 0 \in T
      BY <1>2, <3>1
    <3> QED
      BY <3>1, <3>2
  <2> QED
    BY <2>1, <2>2, <2>3
<1>4. Max(T) \in T
  <2> HIDE DEF T
  <2> QED
    BY <1>3 DEF Max
<1> QED
  BY <1>1, <1>4 DEF Highest

\* The next flow has packets, if any has.
LEMMA FollowingIs ==
    ASSUME ListAssumption, NEW w \in Lists, NEW p \in Prios, NEW f \in Flows
    PROVE  IF Active(w, p) = {} THEN Following(w, p, f) = NoFlow
           ELSE Following(w, p, f) \in Active(w, p)
<1> DEFINE later == {g \in Active(w, p) : g > f}
<1>1. Active(w, p) \subseteq Nat /\ later \subseteq Active(w, p)
  BY Finite DEF Active
<1>2. later # {} => Min(later) \in later
  BY <1>1, MinNat
<1>3. Active(w, p) # {} => Min(Active(w, p)) \in Active(w, p)
  BY <1>1, MinNat
<1> QED
  BY <1>1, <1>2, <1>3 DEF Following

\* The current flow of a list has sent a packet, and the one that follows is current.
Served(w, c, x, y) == \E p \in Prios :
    /\ Active(w, p) # {}
    /\ x = [w EXCEPT ![p][c[p]] = @ - 1]
    /\ y = [c EXCEPT ![p] = Following(x, p, c[p])]

\* The flows that wait in a list.
LEMMA ActiveIs ==
    ASSUME ListAssumption, NEW w \in Lists, NEW p \in Prios, NEW f
    PROVE  f \in Active(w, p) <=> f \in Flows /\ w[p][f] > 0
  BY DEF Active

\* What Dequeue changes: the current flow of the list has its turn.
LEMMA DequeueIs ==
    ASSUME Assumptions, NEW v \in Queue, NEW p \in Prios, Active(v.w, p) # {}, Pointers(v.w, v.c)
    PROVE  /\ Dequeue(v, p) \in Queue
           /\ Served(v.w, v.c, Dequeue(v, p).w, Dequeue(v, p).c)
           /\ Pointers(Dequeue(v, p).w, Dequeue(v, p).c)
           /\ Total(Dequeue(v, p).w) = Total(v.w) - 1
           /\ Dequeue(v, p).s = v.s /\ Dequeue(v, p).e = v.e
           /\ Dequeue(v, p).serving = v.serving /\ Dequeue(v, p).st = v.st
           /\ Dequeue(v, p).bad = v.bad
<1> DEFINE f == v.c[p]
           x == [v.w EXCEPT ![p][f] = @ - 1]
           y == [v.c EXCEPT ![p] = Following(x, p, f)]
           u == Dequeue(v, p)
<1>1. ListAssumption /\ v.w \in Lists /\ v.c \in [Prios -> Flows \cup {NoFlow}]
  BY DEF Assumptions, Queue
<1>2. f \in Active(v.w, p) /\ f \in Flows /\ v.w[p][f] > 0 /\ f # NoFlow
  <2>1. f \in Active(v.w, p)
    BY DEF Pointers
  <2> QED
    BY <1>1, <2>1, ActiveIs, Finite
<1>3. /\ x \in Lists /\ x[p][f] = v.w[p][f] - 1 /\ Total(x) = Total(v.w) - 1
      /\ \A q \in Prios, g \in Flows : <<q, g>> # <<p, f>> => x[q][g] = v.w[q][g]
  <2>1. v.w[p][f] \in Nat /\ v.w[p][f] + (-1) >= 0 /\ v.w[p][f] + (-1) = v.w[p][f] - 1
    BY <1>1, <1>2 DEF Lists
  <2>2. x = [v.w EXCEPT ![p][f] = @ + (-1)]
    BY <2>1
  <2>3. Total(v.w) \in Nat
    BY SizeIs
  <2> HIDE DEF f, x
  <2>4. /\ x \in Lists /\ x[p][f] = v.w[p][f] + (-1)
        /\ \A q \in Prios, g \in Flows : <<q, g>> # <<p, f>> => x[q][g] = v.w[q][g]
        /\ Total(x) = Total(v.w) + (-1)
    BY <1>1, <1>2, <2>1, <2>2, WaitMore
  <2> QED
    BY <2>1, <2>3, <2>4
<1>4. u = [v EXCEPT !.w = x, !.c = y]
  <2>1. f = IF v.c[p] = NoFlow THEN Min(Active(v.w, p)) ELSE v.c[p]
    BY <1>2
  <2> QED
    BY <2>1 DEF Dequeue
<1> HIDE DEF f, x
<1>5. /\ y \in [Prios -> Flows \cup {NoFlow}] /\ y[p] = Following(x, p, f)
      /\ \A q \in Prios : q # p => y[q] = v.c[q]
  <2>1. Following(x, p, f) \in Flows \cup {NoFlow}
    <3>1. IF Active(x, p) = {} THEN Following(x, p, f) = NoFlow
          ELSE Following(x, p, f) \in Active(x, p)
      BY <1>1, <1>2, <1>3, FollowingIs
    <3> QED
      BY <3>1 DEF Active
  <2> QED
    BY <1>1, <2>1
<1>6. Pointers(x, y)
  <2> SUFFICES ASSUME NEW q \in Prios
               PROVE  IF Active(x, q) = {} THEN y[q] = NoFlow ELSE y[q] \in Active(x, q)
    BY DEF Pointers
  <2>1. CASE q = p
    BY <1>1, <1>2, <1>3, <1>5, <2>1, FollowingIs
  <2>2. CASE q # p
    <3>1. \A g \in Flows : x[q][g] = v.w[q][g]
      BY <1>3, <2>2
    <3>2. Active(x, q) = Active(v.w, q)
      BY <3>1 DEF Active
    <3> QED
      BY <1>5, <2>2, <3>2 DEF Pointers
  <2> QED
    BY <2>1, <2>2
<1>7. Served(v.w, v.c, x, y)
  BY DEF Served, x, f
<1> HIDE DEF y
<1>8. /\ u \in Queue /\ u.w = x /\ u.c = y /\ u.s = v.s /\ u.e = v.e /\ u.serving = v.serving
      /\ u.st = v.st /\ u.bad = v.bad
  <2> HIDE DEF u
  <2> QED
    BY <1>3, <1>4, <1>5 DEF Queue
<1> QED
  BY <1>3, <1>6, <1>7, <1>8

\* A queue at rest begins to serve.
LEMMA BeginWell ==
    ASSUME Assumptions, Kind \in {"fair", "lossless"}, NEW v, Well(v), v.s = None, v.st = "READY",
           \E p \in Prios : Active(v.w, p) # {}
    PROVE  /\ Well(Begin(v)) /\ Begin(v).s # None /\ Begin(v).st = "READY"
           /\ Kind = "fair" => /\ Served(v.w, v.c, Begin(v).w, Begin(v).c)
                               /\ Total(Begin(v).w) = Total(v.w) - 1
<1> DEFINE h == Highest(v)
           n == v.e + 1
           b == v.bad \/ v.st # "READY" \/ (Kind = "lossless" /\ v.s # None)
           u == [v EXCEPT !.e = n, !.serving = h, !.s = h, !.bad = b]
<1>1. v \in Queue /\ ListAssumption /\ v.e = 0 /\ ~ v.bad
  BY DEF Well, Assumptions
<1>2. h \in Prios /\ Active(v.w, h) # {} /\ h # None
  BY <1>1, HighestIs, Finite
<1>3. n = 1 /\ b = FALSE
  BY <1>1
<1>4. Begin(v) = IF Kind = "fair" THEN Dequeue(u, h) ELSE u
  BY DEF Begin
<1> HIDE DEF h, n, b
<1>5. /\ u \in Queue /\ u.w = v.w /\ u.c = v.c /\ u.e = 1 /\ u.serving = h /\ u.s = h
      /\ u.bad = FALSE /\ u.st = "READY"
  <2>1. u = [v EXCEPT !.e = 1, !.serving = h, !.s = h, !.bad = FALSE]
    BY <1>3
  <2> HIDE DEF u
  <2>2. u.e = 1 /\ u.serving = h /\ u.s = h /\ u.bad = FALSE
    BY <1>1, <2>1 DEF Queue
  <2>3. u.w = v.w /\ u.c = v.c /\ u.st = "READY"
    BY <1>1, <2>1 DEF Queue
  <2>4. u \in Queue
    <3>1. /\ v.w \in Lists /\ v.c \in [Prios -> Flows \cup {NoFlow}] /\ v.st \in State
          /\ h \in Prios \cup {None} /\ 1 \in Int /\ FALSE \in BOOLEAN
      BY <1>1, <1>2 DEF Queue
    <3>2. u = [w |-> v.w, c |-> v.c, s |-> h, e |-> 1, serving |-> h, st |-> v.st, bad |-> FALSE]
      BY <1>1, <2>1 DEF Queue
    <3> QED
      BY <3>1, <3>2 DEF Queue
  <2> QED
    BY <2>2, <2>3, <2>4
<1> HIDE DEF u
<1>6. Size(v) <= Cap /\ Cap \in Nat
  BY DEF Well, Assumptions, BoundAssumption
<1>7. CASE Kind = "fair"
  <2>1. Pointers(v.w, v.c)
    BY <1>7 DEF Well
  <2> DEFINE d == Dequeue(u, h)
  <2>2. /\ d \in Queue /\ Served(v.w, v.c, d.w, d.c) /\ Pointers(d.w, d.c)
        /\ Total(d.w) = Total(v.w) - 1
        /\ d.s = h /\ d.e = 1 /\ d.serving = h /\ d.st = "READY" /\ d.bad = FALSE
    BY <1>2, <1>5, <2>1, DequeueIs
  <2> HIDE DEF d
  <2>3. Size(d) <= Cap
    <3>1. Size(d) = Total(d.w) + 1 /\ Size(v) = Total(v.w) + 0 /\ Total(v.w) \in Nat
      BY <1>1, <1>2, <1>7, <2>2, SizeIs
    <3> QED
      BY <1>6, <2>2, <3>1
  <2>4. Well(d)
    BY <1>2, <1>7, <2>2, <2>3 DEF Well
  <2> QED
    BY <1>2, <1>4, <1>7, <2>2, <2>4 DEF d
<1>8. CASE Kind = "lossless"
  <2>1. Size(u) <= Cap
    <3>1. Size(u) = Total(v.w) + 0 /\ Size(v) = Total(v.w) + 0
      BY <1>1, <1>5, <1>8, SizeIs
    <3> QED
      BY <1>6, <3>1
  <2>2. Well(u)
    BY <1>2, <1>5, <1>8, <2>1 DEF Well
  <2> QED
    BY <1>2, <1>4, <1>5, <1>8, <2>2
<1> QED
  BY <1>7, <1>8

\* A packet more waits.
LEMMA EnqueueWell ==
    ASSUME Assumptions, NEW v, Well(v), Size(v) < Cap, NEW p \in Prios, NEW f \in Flows
    PROVE  /\ Well(Enqueue(v, p, f)) /\ Active(Enqueue(v, p, f).w, p) # {}
           /\ Total(Enqueue(v, p, f).w) = Total(v.w) + 1
           /\ Enqueue(v, p, f).s = v.s /\ Enqueue(v, p, f).st = v.st
<1> DEFINE u == Enqueue(v, p, f)
<1>1. ListAssumption /\ v \in Queue /\ v.w \in Lists /\ Cap \in Nat
  BY DEF Well, Assumptions, BoundAssumption, Queue
<1>2. /\ u \in Queue /\ u.w = [v.w EXCEPT ![p][f] = @ + 1]
      /\ u.c = [v.c EXCEPT ![p] = IF Active(v.w, p) = {} THEN f ELSE @]
      /\ u.s = v.s /\ u.e = v.e /\ u.serving = v.serving /\ u.st = v.st /\ u.bad = v.bad
  <2>1. u = Enqueue(v, p, f) /\ v \in Queue /\ ListAssumption
    BY <1>1
  <2> HIDE DEF u
  <2> QED
    BY <2>1, EnqueueIs
<1>3. /\ u.w \in Lists /\ u.w[p][f] = v.w[p][f] + 1
      /\ \A q \in Prios, g \in Flows : <<q, g>> # <<p, f>> => u.w[q][g] = v.w[q][g]
      /\ Total(u.w) = Total(v.w) + 1
  <2>1. v.w[p][f] \in Nat
    BY <1>1 DEF Lists
  <2> QED
    BY <1>1, <1>2, <2>1, WaitMore
<1> HIDE DEF u
<1>4. \A q \in Prios : Active(v.w, q) \subseteq Active(u.w, q)
  <2> SUFFICES ASSUME NEW q \in Prios, NEW g \in Flows, v.w[q][g] > 0
               PROVE  u.w[q][g] > 0
    BY DEF Active
  <2>1. v.w[q][g] \in Nat
    BY <1>1 DEF Lists
  <2> QED
    BY <1>3, <2>1
<1>5. f \in Active(u.w, p)
  <2>1. v.w[p][f] \in Nat
    BY <1>1 DEF Lists
  <2> QED
    BY <1>3, <2>1 DEF Active
<1>6. ASSUME Kind = "fair"
      PROVE  Pointers(u.w, u.c)
  <2>1. Pointers(v.w, v.c) /\ v.c \in [Prios -> Flows \cup {NoFlow}]
    BY <1>1, <1>6 DEF Well, Queue
  <2> SUFFICES ASSUME NEW q \in Prios
               PROVE  IF Active(u.w, q) = {} THEN u.c[q] = NoFlow ELSE u.c[q] \in Active(u.w, q)
    BY DEF Pointers
  <2>2. CASE q = p
    BY <1>2, <1>4, <1>5, <2>1, <2>2 DEF Pointers
  <2>3. CASE q # p
    <3>1. Active(u.w, q) = Active(v.w, q)
      BY <1>3, <2>3 DEF Active
    <3>2. u.c[q] = v.c[q]
      BY <1>2, <2>1, <2>3
    <3> QED
      BY <2>1, <3>1, <3>2 DEF Pointers
  <2> QED
    BY <2>2, <2>3
<1>7. Size(u) <= Cap
  <2> DEFINE k == IF Kind = "fair" /\ v.s # None THEN 1 ELSE 0
  <2>1. Size(v) = Total(v.w) + k /\ Size(u) = Total(u.w) + k /\ Total(v.w) \in Nat /\ k \in Nat
    BY <1>1, <1>2, SizeIs
  <2> HIDE DEF k
  <2> QED
    BY <1>1, <1>3, <2>1
<1>8. Kind = "lossless" /\ u.s # None => Active(u.w, u.s) # {}
  <2>1. v.s \in Prios \cup {None}
    BY <1>1 DEF Queue
  <2> QED
    BY <1>2, <1>4, <2>1 DEF Well
<1>9. Well(u)
  BY <1>2, <1>6, <1>7, <1>8 DEF Well
<1> QED
  BY <1>2, <1>3, <1>5, <1>9 DEF u

\* A change of the send state alone.
LEMMA StateWell ==
    ASSUME Assumptions, NEW v, Well(v), NEW t \in State, t = "PAUSED" => v.s = None
    PROVE  /\ Well([v EXCEPT !.st = t]) /\ [v EXCEPT !.st = t].st = t
           /\ [v EXCEPT !.st = t].w = v.w /\ [v EXCEPT !.st = t].c = v.c /\ [v EXCEPT !.st = t].s = v.s
<1> DEFINE u == [v EXCEPT !.st = t]
<1>1. v \in Queue
  BY DEF Well
<1>2. /\ u \in Queue /\ u.st = t /\ u.w = v.w /\ u.c = v.c /\ u.s = v.s /\ u.e = v.e
      /\ u.serving = v.serving /\ u.bad = v.bad
  BY <1>1 DEF Queue
<1> HIDE DEF u
<1>3. Size(u) = Size(v)
  BY <1>2 DEF Size
<1>4. Well(u)
  BY <1>2, <1>3 DEF Well
<1> QED
  BY <1>2, <1>4 DEF u

\* Some list holds a packet, if the queue does and is not sending it.
LEMMA SomeActive ==
    ASSUME Assumptions, NEW v \in Queue, v.s = None
    PROVE  Size(v) > 0 <=> \E p \in Prios : Active(v.w, p) # {}
<1>1. Size(v) = Total(v.w) + 0 /\ Total(v.w) \in Nat
      /\ (Total(v.w) = 0 <=> \A p \in Prios : Active(v.w, p) = {})
  BY SizeIs
<1> QED
  BY <1>1

\* The current flow of a list has sent a packet, or nothing changed in the lists.
Moved(w, c, x, y) == (x = w /\ y = c) \/ Served(w, c, x, y)

\* A pause changes the send state only, to one in which nothing new is sent.
LEMMA PausedWell ==
    ASSUME Assumptions, Kind \in {"fair", "lossless"}, Well(View)
    PROVE  /\ Well(Paused(View)) /\ Paused(View).w = waiting /\ Paused(View).c = current
           /\ Paused(View).s = sending /\ Paused(View).st # "READY"
<1> DEFINE v == View
           t == IF Busy THEN "PAUSE_RECEIVED" ELSE "PAUSED"
<1>1. v \in Queue /\ v.w = waiting /\ v.c = current /\ v.s = sending
  BY DEF Well, View
<1>2. ~Busy => v.s = None
  <2>1. CASE Kind = "lossless"
    BY <2>1 DEF Busy, View
  <2>2. CASE Kind = "fair"
    <3>1. Busy <=> Size(v) > 0
      BY <2>2 DEF Busy
    <3> HIDE DEF v
    <3>2. Size(v) = Total(v.w) + (IF v.s # None THEN 1 ELSE 0) /\ Total(v.w) \in Nat
      BY <1>1, <2>2, SizeIs
    <3> QED
      BY <3>1, <3>2
  <2> QED
    BY <2>1, <2>2
<1>3. t \in State /\ t # "READY" /\ (t = "PAUSED" => v.s = None)
  BY <1>2 DEF State
<1>4. Paused(v) = [v EXCEPT !.st = t]
  BY DEF Paused
<1> HIDE DEF v, t
<1>5. Well(v)
  BY DEF v
<1>6. /\ Well(Paused(v)) /\ Paused(v).st = t /\ Paused(v).w = v.w /\ Paused(v).c = v.c
      /\ Paused(v).s = v.s
  BY <1>3, <1>4, <1>5, StateWell
<1> QED
  BY <1>1, <1>3, <1>6 DEF v

\* A resume lets the queue send, and it does so if it has something to send.
LEMMA ResumedWell ==
    ASSUME Assumptions, Kind \in {"fair", "lossless"}, NEW v, Well(v)
    PROVE  /\ Well(Resumed(v)) /\ Willing(Resumed(v)) /\ Resumed(v).st = "READY"
           /\ Kind = "fair" => Moved(v.w, v.c, Resumed(v).w, Resumed(v).c)
<1> DEFINE u == [v EXCEPT !.st = "READY"]
<1>1. /\ Well(u) /\ u.st = "READY" /\ u.w = v.w /\ u.c = v.c /\ u.s = v.s
  BY StateWell DEF State
<1>2. Resumed(v) = IF Size(v) > 0 /\ v.s = None THEN Begin(u) ELSE u
  BY DEF Resumed
<1> HIDE DEF u
<1>3. u \in Queue /\ Size(u) = Size(v) /\ Size(u) \in Nat
  BY <1>1, SizeIs DEF Well, Size
<1>4. CASE Size(v) > 0 /\ v.s = None
  <2>1. \E p \in Prios : Active(u.w, p) # {}
    BY <1>1, <1>3, <1>4, SomeActive
  <2>2. /\ Well(Begin(u)) /\ Begin(u).s # None /\ Begin(u).st = "READY"
        /\ Kind = "fair" => Served(u.w, u.c, Begin(u).w, Begin(u).c)
    BY <1>1, <1>4, <2>1, BeginWell
  <2> QED
    BY <1>1, <1>2, <1>4, <2>2 DEF Willing, Moved
<1>5. CASE ~(Size(v) > 0 /\ v.s = None)
  <2>1. u.s = None => \A p \in Prios : Active(u.w, p) = {}
    BY <1>1, <1>3, <1>5, SomeActive
  <2> QED
    BY <1>1, <1>2, <1>5, <2>1 DEF Willing, Moved
<1> QED
  BY <1>4, <1>5

\* The rest of a service: the packet being sent leaves, a pause takes effect, and the next begins.
LEMMA SentWell ==
    ASSUME Assumptions, Kind \in {"fair", "lossless"}, NEW v, Well(v), v.s # None
    PROVE  LET x == Sent([v EXCEPT !.e = @ - 1])
           IN  /\ HasPacket([v EXCEPT !.e = @ - 1])
               /\ Size([v EXCEPT !.e = @ - 1]) > 0
               /\ Well(x) /\ x.s = None /\ x.st = v.st
               /\ Kind = "fair" => x.w = v.w /\ x.c = v.c
<1> DEFINE n == v.e - 1
           z == [v EXCEPT !.e = n]
           x == Sent(z)
           p == v.s
<1>1. v \in Queue /\ ListAssumption /\ n = 0 /\ p \in Prios /\ v.serving = p /\ Cap \in Nat
  BY DEF Well, Queue, Assumptions, BoundAssumption
<1>2. /\ z \in Queue /\ z.w = v.w /\ z.c = v.c /\ z.s = p /\ z.e = 0 /\ z.serving = p
      /\ z.st = v.st /\ z.bad = v.bad
  <2> HIDE DEF n, p
  <2> QED
    BY <1>1 DEF Queue, p
<1> HIDE DEF z, p
<1>3. z.w \in Lists /\ z.w \in Lists /\ v.w \in Lists
  BY <1>1, <1>2 DEF Queue
<1>4. Size(v) <= Cap /\ v.st # "PAUSED" /\ p # None
  <2>1. None \notin Prios
    BY <1>1, Finite
  <2> QED
    BY <1>1, <2>1 DEF Well, p
<1>5. CASE Kind = "fair"
  <2>1. HasPacket(z)
    BY <1>2, <1>4, <1>5 DEF HasPacket
  <2>2. x = [z EXCEPT !.s = None]
    BY <1>5, <2>1 DEF Sent
  <2> HIDE DEF x
  <2>3. /\ x \in Queue /\ x.w = v.w /\ x.c = v.c /\ x.s = None /\ x.e = 0
        /\ x.serving = p /\ x.st = v.st /\ x.bad = v.bad
    BY <1>2, <2>2 DEF Queue
  <2>4. Size(x) = Total(v.w) + 0 /\ Size(v) = Total(v.w) + 1 /\ Size(z) = Total(v.w) + 1
        /\ Total(v.w) \in Nat
    BY <1>1, <1>2, <1>4, <1>5, <2>3, SizeIs DEF p
  <2>5. Size(x) <= Cap /\ Size(z) > 0
    BY <1>1, <1>4, <2>4
  <2>6. Well(x)
    BY <1>5, <2>3, <2>5 DEF Well
  <2> QED
    BY <2>1, <2>3, <2>5, <2>6 DEF x, z, n
<1>6. CASE Kind = "lossless"
  <2> DEFINE f == CHOOSE g \in Active(z.w, z.serving) : TRUE
             y == [z.w EXCEPT ![p][f] = @ - 1]
  <2>1. f \in Active(z.w, p)
    BY <1>2, <1>4, <1>6 DEF Well, p
  <2>2. f \in Flows /\ z.w[p][f] > 0 /\ z.w[p][f] \in Nat
    <3> HIDE DEF f
    <3> QED
      BY <1>1, <1>3, <2>1, ActiveIs DEF Lists
  <2>3. Size(z) = Total(z.w) + 0 /\ Total(z.w) \in Nat /\ Size(v) = Total(z.w) + 0
        /\ z.w[p][f] <= Total(z.w)
    <3> HIDE DEF f
    <3> QED
      BY <1>1, <1>2, <1>6, <2>2, SizeIs
  <2>4. Size(z) > 0
    <3> HIDE DEF f
    <3> QED
      BY <2>2, <2>3
  <2>5. HasPacket(z)
    BY <1>6, <2>4 DEF HasPacket
  <2>6. x = [z EXCEPT !.w = y, !.s = None]
    BY <1>2, <1>6, <2>5 DEF Sent
  <2> HIDE DEF f
  <2>7. y \in Lists /\ Total(y) = Total(z.w) - 1
    <3>1. z.w[p][f] + (-1) >= 0 /\ z.w[p][f] + (-1) = z.w[p][f] - 1
      BY <2>2
    <3>2. y = [z.w EXCEPT ![p][f] = @ + (-1)]
      BY <3>1
    <3> HIDE DEF y
    <3>3. y \in Lists /\ Total(y) = Total(z.w) + (-1)
      BY <1>1, <1>2, <2>2, <3>1, <3>2, WaitMore
    <3> QED
      BY <2>3, <3>3
  <2> HIDE DEF x, y
  <2>8. /\ x \in Queue /\ x.w = y /\ x.c = v.c /\ x.s = None /\ x.e = 0
        /\ x.serving = p /\ x.st = v.st /\ x.bad = v.bad
    BY <1>2, <2>6, <2>7 DEF Queue
  <2>9. Size(x) = Total(y) + 0
    BY <1>6, <2>8, SizeIs
  <2>10. Size(x) <= Cap
    BY <1>1, <1>4, <2>3, <2>7, <2>9
  <2>11. Well(x)
    BY <1>6, <2>8, <2>10 DEF Well
  <2> QED
    BY <1>6, <2>4, <2>5, <2>8, <2>11 DEF x, z, n
<1> QED
  BY <1>5, <1>6

\* Once its packet has left, the queue pauses, begins the next one or rests.
LEMMA RestWell ==
    ASSUME Assumptions, Kind \in {"fair", "lossless"}, NEW v, Well(v), v.s = None
    PROVE  LET r == Rest(Settled(v))
           IN  /\ Well(r) /\ Willing(r)
               /\ r.st = "READY" <=> v.st = "READY"
               /\ v.st # "READY" => r.s = None
               /\ Kind = "fair" => Moved(v.w, v.c, r.w, r.c)
<1> DEFINE y == Settled(v)
           r == Rest(y)
<1>1. Well(y) /\ y.s = None /\ y.w = v.w /\ y.c = v.c /\ (y.st = "READY" <=> v.st = "READY")
  <2>1. CASE v.st = "PAUSE_RECEIVED"
    BY <2>1, StateWell DEF Settled, State
  <2>2. CASE v.st # "PAUSE_RECEIVED"
    BY <2>2 DEF Settled
  <2> QED
    BY <2>1, <2>2
<1> HIDE DEF y
<1>2. y \in Queue /\ Size(y) \in Nat
  BY <1>1, SizeIs DEF Well
<1>3. CASE Size(y) > 0 /\ y.st = "READY"
  <2>1. r = Begin(y)
    BY <1>3 DEF Rest
  <2>2. \E p \in Prios : Active(y.w, p) # {}
    BY <1>1, <1>2, <1>3, SomeActive
  <2>3. /\ Well(r) /\ r.s # None /\ r.st = "READY"
        /\ Kind = "fair" => Served(y.w, y.c, r.w, r.c)
    BY <1>1, <1>3, <2>1, <2>2, BeginWell
  <2> HIDE DEF r
  <2> QED
    BY <1>1, <1>3, <2>3 DEF Willing, Moved, r, y
<1>4. CASE ~(Size(y) > 0 /\ y.st = "READY")
  <2>1. r = y \/ r = [y EXCEPT !.serving = None]
    BY <1>4 DEF Rest
  <2> HIDE DEF r
  <2>2. /\ r \in Queue /\ r.w = y.w /\ r.c = y.c /\ r.s = None /\ r.st = y.st
        /\ r.e = y.e /\ r.bad = y.bad
    BY <1>1, <1>2, <2>1 DEF Queue
  <2>3. Size(r) = Size(y)
    BY <1>1, <2>2 DEF Size
  <2>4. Well(r)
    BY <1>1, <2>2, <2>3 DEF Well
  <2>5. Willing(r)
    <3>1. y.st = "READY" => \A p \in Prios : Active(y.w, p) = {}
      BY <1>1, <1>2, <1>4, SomeActive
    <3> QED
      BY <2>2, <3>1 DEF Willing
  <2> QED
    BY <1>1, <2>2, <2>4, <2>5 DEF Moved, r, y
<1> QED
  BY <1>3, <1>4

-----------------------------------------------------------------------------
(* The turns of the flows of a fair list. *)

\* The flows whose turn comes before that of f, if it is c's.
Ahead(c, f) == {g \in Flows : IF c <= f THEN c <= g /\ g < f ELSE c <= g \/ g < f}

\* A flow that waits was passed by the flows that are not ahead of it, at most.
Turns(w, c, pd) == \A p \in Prios, f \in Flows :
    /\ w[p][f] = 0 => pd[p][f] = 0
    /\ w[p][f] > 0 => pd[p][f] + Cardinality(Ahead(c[p], f)) <= Cardinality(Flows) - 1

\* Fewer flows than all are ahead of a flow.
LEMMA AheadBound ==
    ASSUME ListAssumption, NEW c \in Nat, NEW f \in Flows
    PROVE  /\ IsFiniteSet(Ahead(c, f)) /\ Cardinality(Ahead(c, f)) \in Nat
           /\ Cardinality(Ahead(c, f)) <= Cardinality(Flows) - 1
<1>1. IsFiniteSet(Flows) /\ Flows \subseteq Nat
  BY Finite
<1>2. Ahead(c, f) \subseteq Flows \ {f}
  BY <1>1 DEF Ahead
<1>3. IsFiniteSet(Flows \ {f}) /\ Cardinality(Flows \ {f}) = Cardinality(Flows) - 1
  BY <1>1, FS_RemoveElement
<1> QED
  BY <1>2, <1>3, FS_Subset, FS_CardinalityType

\* One turn later one flow fewer is ahead.
LEMMA AheadNext ==
    ASSUME ListAssumption, NEW x \in Lists, NEW p \in Prios, NEW f \in Flows,
           NEW g \in Active(x, p), g # f
    PROVE  Cardinality(Ahead(Following(x, p, f), g)) + 1 <= Cardinality(Ahead(f, g))
<1> DEFINE r == Following(x, p, f)
           later == {h \in Active(x, p) : h > f}
<1>1. Flows \subseteq Nat /\ Active(x, p) \subseteq Flows /\ IsFiniteSet(Flows)
  BY Finite DEF Active
<1>2. later \subseteq Nat /\ Active(x, p) \subseteq Nat
  BY <1>1
<1>3. later # {} => r \in later /\ \A h \in later : r <= h
  BY <1>2, MinNat DEF Following
<1>4. later = {} => r \in Active(x, p) /\ \A h \in Active(x, p) : r <= h
  BY <1>2, MinNat DEF Following
<1> HIDE DEF r
<1>5. f \in Nat /\ g \in Nat /\ g \in Flows /\ r \in Nat
  BY <1>1, <1>3, <1>4
<1>6. f \in Ahead(f, g)
  BY <1>5 DEF Ahead
<1>7. Ahead(r, g) \subseteq Ahead(f, g) \ {f}
  <2>1. (r > f /\ (g > f => r <= g)) \/ (r <= g /\ ~(g > f))
    BY <1>3, <1>4
  <2> HIDE DEF later
  <2> SUFFICES ASSUME NEW h \in Flows, IF r <= g THEN r <= h /\ h < g ELSE r <= h \/ h < g
               PROVE  h # f /\ IF f <= g THEN f <= h /\ h < g ELSE f <= h \/ h < g
    BY DEF Ahead
  <2>2. h \in Nat
    BY <1>1
  <2> QED
    BY <1>5, <2>1, <2>2
<1>8. IsFiniteSet(Ahead(f, g)) /\ Cardinality(Ahead(f, g)) \in Nat /\ Cardinality(Ahead(r, g)) \in Nat
  BY <1>5, AheadBound
<1>9. IsFiniteSet(Ahead(f, g) \ {f}) /\ Cardinality(Ahead(f, g) \ {f}) = Cardinality(Ahead(f, g)) - 1
  BY <1>6, <1>8, FS_RemoveElement
<1>10. Cardinality(Ahead(r, g)) <= Cardinality(Ahead(f, g) \ {f})
  BY <1>7, <1>9, FS_Subset
<1> QED
  BY <1>8, <1>9, <1>10 DEF r

\* How often flows were passed after a step from w to x.
After(w, x, pd) == [p \in Prios |-> [f \in Flows |->
    IF x[p][f] = 0 \/ x[p][f] < w[p][f] THEN 0
    ELSE IF \E g \in Flows : x[p][g] < w[p][g] THEN pd[p][f] + 1
    ELSE pd[p][f]]]

\* The counts of the passes are naturals.
LEMMA AfterTyped ==
    ASSUME NEW w \in Lists, NEW x \in Lists, NEW pd \in Lists
    PROVE  After(w, x, pd) \in Lists
  BY DEF After, Lists

\* Nobody waits in an empty queue.
LEMMA TurnsNone ==
    ASSUME ListAssumption, NEW w \in Lists, NEW x \in Lists, NEW c, NEW pd,
           \A p \in Prios : Active(x, p) = {}
    PROVE  Turns(x, c, After(w, x, pd))
<1>1. \A p \in Prios, f \in Flows : x[p][f] = 0
  BY DEF Active, Lists
<1> QED
  BY <1>1 DEF Turns, After

\* The turn of the current flow of a list: each flow that waits there is passed once more, with one flow fewer ahead.
LEMMA TurnsServed ==
    ASSUME ListAssumption, NEW w \in Lists, NEW x \in Lists, NEW c \in [Prios -> Flows \cup {NoFlow}],
           NEW y, NEW pd \in Lists, Pointers(w, c), Served(w, c, x, y), Turns(w, c, pd)
    PROVE  Turns(x, y, After(w, x, pd))
<1>1. PICK p \in Prios : /\ Active(w, p) # {}
                         /\ x = [w EXCEPT ![p][c[p]] = @ - 1]
                         /\ y = [c EXCEPT ![p] = Following(x, p, c[p])]
  BY DEF Served
<1> DEFINE f == c[p]
           a == After(w, x, pd)
<1>2. f \in Active(w, p) /\ f \in Flows /\ w[p][f] > 0
  BY <1>1 DEF Pointers, Active
<1>3. /\ x[p][f] = w[p][f] - 1
      /\ \A q \in Prios, g \in Flows : <<q, g>> # <<p, f>> => x[q][g] = w[q][g]
  BY <1>1, <1>2 DEF Lists
<1>4. /\ y[p] = Following(x, p, f) /\ \A q \in Prios : q # p => y[q] = c[q]
  BY <1>1
<1>5. \A q \in Prios, g \in Flows : w[q][g] \in Nat /\ x[q][g] \in Nat /\ pd[q][g] \in Nat
  BY DEF Lists
<1>6. \A q \in Prios, g \in Flows : a[q][g] =
         IF x[q][g] = 0 \/ x[q][g] < w[q][g] THEN 0
         ELSE IF \E h \in Flows : x[q][h] < w[q][h] THEN pd[q][g] + 1 ELSE pd[q][g]
  BY DEF After
<1>7. /\ Flows \subseteq Nat /\ NoFlow \in Nat
      /\ Cardinality(Flows) \in Nat
  BY Finite, FS_CardinalityType DEF NoFlow
<1> HIDE DEF f, a
<1>8. ASSUME NEW q \in Prios, NEW g \in Flows, x[q][g] > 0
      PROVE  a[q][g] + Cardinality(Ahead(y[q], g)) <= Cardinality(Flows) - 1
  <2>1. CASE q # p
    <3>1. \A h \in Flows : x[q][h] = w[q][h]
      BY <1>3, <2>1
    <3>2. a[q][g] = pd[q][g]
      BY <1>5, <1>6, <1>8, <3>1
    <3> QED
      BY <1>4, <1>8, <2>1, <3>1, <3>2 DEF Turns
  <2>2. CASE q = p /\ g = f
    <3>1. a[q][g] = 0
      BY <1>3, <1>5, <1>6, <2>2
    <3>2. y[q] \in Nat
      <4>1. Following(x, p, f) \in Flows \cup {NoFlow}
        BY <1>2, FollowingIs DEF Active
      <4> QED
        BY <1>4, <1>7, <2>2, <4>1
    <3>3. Cardinality(Ahead(y[q], g)) <= Cardinality(Flows) - 1 /\ Cardinality(Ahead(y[q], g)) \in Nat
      BY <3>2, AheadBound
    <3> QED
      BY <3>1, <3>3
  <2>3. CASE q = p /\ g # f
    <3>0. <<q, g>> # <<p, f>>
      BY <2>3
    <3>1. x[q][g] = w[q][g] /\ x[q][f] < w[q][f]
      <4>1. w[p][f] \in Nat /\ x[p][f] < w[p][f]
        BY <1>2, <1>3, <1>5
      <4> QED
        BY <1>3, <2>3, <3>0, <4>1
    <3>2. a[q][g] = pd[q][g] + 1
      <4>1. ~(x[q][g] = 0 \/ x[q][g] < w[q][g])
        BY <1>5, <1>8, <3>1
      <4>2. \E h \in Flows : x[q][h] < w[q][h]
        BY <1>2, <3>1
      <4> QED
        BY <1>6, <4>1, <4>2
    <3>3. g \in Active(x, p)
      BY <1>8, <2>3 DEF Active
    <3>4. Cardinality(Ahead(y[q], g)) + 1 <= Cardinality(Ahead(f, g))
      BY <1>2, <1>4, <2>3, <3>3, AheadNext
    <3>5. pd[q][g] + Cardinality(Ahead(f, g)) <= Cardinality(Flows) - 1
      BY <1>8, <2>3, <3>1 DEF Turns, f
    <3>6. Cardinality(Ahead(f, g)) \in Nat /\ Cardinality(Ahead(y[q], g)) \in Nat
      <4>1. Following(x, p, f) \in Flows \cup {NoFlow}
        BY <1>2, FollowingIs DEF Active
      <4>2. y[q] \in Nat /\ f \in Nat
        BY <1>2, <1>4, <1>7, <2>3, <4>1
      <4> QED
        BY <4>2, AheadBound
    <3> QED
      BY <1>5, <1>7, <3>2, <3>4, <3>5, <3>6
  <2> QED
    BY <2>1, <2>2, <2>3
<1>9. ASSUME NEW q \in Prios, NEW g \in Flows, x[q][g] = 0
      PROVE  a[q][g] = 0
  BY <1>6, <1>9
<1>10. Turns(x, y, a)
  BY <1>5, <1>8, <1>9 DEF Turns
<1> QED
  BY <1>10 DEF a

\* A step that leaves the lists alone passes nobody.
LEMMA TurnsSame ==
    ASSUME ListAssumption, NEW w \in Lists, NEW c, NEW pd \in Lists, Turns(w, c, pd)
    PROVE  Turns(w, c, After(w, w, pd))
<1>1. \A q \in Prios, g \in Flows : w[q][g] \in Nat
  BY DEF Lists
<1>2. \A q \in Prios, g \in Flows : After(w, w, pd)[q][g] = IF w[q][g] = 0 THEN 0 ELSE pd[q][g]
  BY <1>1 DEF After
<1> QED
  BY <1>1, <1>2 DEF Turns

\* A flow has a number of packets in a list.
LEMMA ListsNat ==
    ASSUME NEW l \in Lists, NEW q \in Prios, NEW g \in Flows
    PROVE  l[q][g] \in Nat
  BY DEF Lists

\* A packet that arrives passes nobody; if it is the first of its flow, nobody has passed that yet.
LEMMA TurnsMore ==
    ASSUME ListAssumption, NEW w \in Lists, NEW p \in Prios, NEW f \in Flows,
           NEW x, x = [w EXCEPT ![p][f] = @ + 1], x \in Lists, NEW c \in [Prios -> Flows \cup {NoFlow}],
           NEW y, y = [c EXCEPT ![p] = IF Active(w, p) = {} THEN f ELSE @],
           NEW pd \in Lists, Turns(w, c, pd)
    PROVE  Turns(x, y, After(w, x, pd))
<1> DEFINE a == After(w, x, pd)
<1>1. \A q \in Prios, g \in Flows : w[q][g] \in Nat /\ x[q][g] \in Nat /\ pd[q][g] \in Nat
  BY ListsNat
<1>2. /\ x[p][f] = w[p][f] + 1
      /\ \A q \in Prios, g \in Flows : <<q, g>> # <<p, f>> => x[q][g] = w[q][g]
  BY DEF Lists
<1>3. \A q \in Prios, g \in Flows : ~(x[q][g] < w[q][g])
  BY <1>1, <1>2
<1>4. \A q \in Prios, g \in Flows : a[q][g] = IF x[q][g] = 0 THEN 0 ELSE pd[q][g]
  BY <1>3 DEF After
<1>5. /\ Flows \subseteq Nat /\ NoFlow \in Nat /\ Cardinality(Flows) \in Nat
  BY Finite, FS_CardinalityType DEF NoFlow
<1> HIDE DEF a
<1>6. ASSUME NEW q \in Prios, NEW g \in Flows, x[q][g] > 0
      PROVE  a[q][g] + Cardinality(Ahead(y[q], g)) <= Cardinality(Flows) - 1
  <2>1. CASE w[q][g] > 0
    <3>1. g \in Active(w, q)
      BY <2>1 DEF Active
    <3>2. y[q] = c[q]
      BY <3>1
    <3>3. a[q][g] = pd[q][g]
      BY <1>1, <1>4, <1>6
    <3> QED
      BY <2>1, <3>2, <3>3 DEF Turns
  <2>2. CASE w[q][g] = 0
    <3>1. a[q][g] = 0
      BY <1>1, <1>4, <1>6, <2>2 DEF Turns
    <3>2. y[q] \in Nat
      BY <1>5
    <3> QED
      BY <3>1, <3>2, AheadBound
  <2> QED
    BY <1>1, <2>1, <2>2
<1>7. Turns(x, y, a)
  BY <1>1, <1>4, <1>6 DEF Turns
<1> QED
  BY <1>7 DEF a

-----------------------------------------------------------------------------
(* The invariant. *)

\* What Become makes of the variables.
LEMMA BecomeIs ==
    ASSUME NEW v \in Queue, Become(v)
    PROVE  /\ View' = v /\ passed' = After(waiting, v.w, passed)
           /\ sending' = v.s /\ state' = v.st /\ waiting' = v.w /\ current' = v.c
           /\ events' = v.e /\ failed' = v.bad
<1>1. View' = v
  BY DEF View, Become, Queue
<1> QED
  BY <1>1 DEF Become, After

\* A record that is well describes a state that is.
LEMMA WellNext ==
    ASSUME NEW v \in Queue, View' = v, Well(v), Willing(v)
    PROVE  Well(View)' /\ Willing(View)'
  BY DEF Well, Willing

\* Who told what, and what was sent since.
Frames ==
    /\ told \in {"go", "pause"} /\ (told = "go" <=> state = "READY")
    /\ late \in {0, 1} /\ (told = "pause" /\ sending # None => late = 0)

Fair == passed \in Lists /\ (Kind = "fair" => Turns(waiting, current, passed))

PauseInv == Well(View) /\ Willing(View) /\ Frames /\ Fair

\* What the invariant says of the variables.
LEMMA InvBits ==
    ASSUME Assumptions, PauseInv
    PROVE  /\ ListAssumption /\ View \in Queue /\ View.w = waiting /\ View.c = current
           /\ View.s = sending /\ View.st = state /\ View.e = events /\ View.bad = failed
           /\ waiting \in Lists /\ current \in [Prios -> Flows \cup {NoFlow}] /\ ~failed
           /\ Size(View) \in Nat
<1>1. ListAssumption /\ View \in Queue
  BY DEF Assumptions, PauseInv, Well
<1>2. Size(View) \in Nat
  BY <1>1, SizeIs
<1>3. ~View.bad
  BY DEF PauseInv, Well
<1> QED
  BY <1>1, <1>2, <1>3 DEF View, Queue

\* A step whose lists are those of View, or have had their turn.
LEMMA Moves ==
    ASSUME Assumptions, PauseInv, NEW v, Well(v), Willing(v), Become(v),
           Kind = "fair" => Moved(waiting, current, v.w, v.c)
    PROVE  Well(View)' /\ Willing(View)' /\ Fair'
<1>1. v \in Queue /\ v.w \in Lists
  BY DEF Well, Queue
<1>2. ListAssumption /\ waiting \in Lists /\ current \in [Prios -> Flows \cup {NoFlow}]
  BY InvBits
<1>3. Well(View)' /\ Willing(View)'
  BY <1>1, BecomeIs, WellNext
<1>4. passed \in Lists /\ passed' = After(waiting, v.w, passed) /\ passed' \in Lists
  BY <1>1, <1>2, BecomeIs, AfterTyped DEF PauseInv, Fair
<1>5. ASSUME Kind = "fair"
      PROVE  Turns(v.w, v.c, passed')
  <2>1. Turns(waiting, current, passed) /\ Pointers(waiting, current)
    <3>1. Pointers(View.w, View.c)
      BY <1>5 DEF PauseInv, Well
    <3> QED
      BY <1>5, <3>1, InvBits DEF PauseInv, Fair
  <2>2. CASE Served(waiting, current, v.w, v.c)
    BY <1>1, <1>2, <1>4, <2>1, <2>2, TurnsServed
  <2>3. CASE v.w = waiting /\ v.c = current
    BY <1>2, <1>4, <2>1, <2>3, TurnsSame
  <2> QED
    BY <1>5, <2>2, <2>3 DEF Moved
<1>6. waiting' = v.w /\ current' = v.c
  BY <1>1, BecomeIs
<1>7. Turns(waiting, current, passed)' <=> Turns(v.w, v.c, passed')
  BY <1>6 DEF Turns
<1> QED
  BY <1>3, <1>4, <1>5, <1>7 DEF Fair

\* An arrival keeps the invariant.
LEMMA ArriveKeeps ==
    ASSUME Assumptions, Kind \in {"fair", "lossless"}, PauseInv, NEW p \in Prios, NEW f \in Flows,
           Arrive(p, f)
    PROVE  PauseInv'
<1> DEFINE v == Enqueue(View, p, f)
           free == Size(View) = 0 /\ state = "READY" /\ (Kind = "fair" => sending = None)
           x == IF free THEN Begin(v) ELSE v
<1>1. Become(x) /\ Size(View) < Cap /\ told' = told /\ late' = late
  BY DEF Arrive
<1>2. Well(View) /\ Willing(View) /\ Frames /\ passed \in Lists
  BY DEF PauseInv, Fair
<1>3. /\ Well(v) /\ Active(v.w, p) # {} /\ Total(v.w) = Total(waiting) + 1
      /\ v.s = sending /\ v.st = state
  BY <1>1, <1>2, EnqueueWell, InvBits
<1>4. /\ v.w = [waiting EXCEPT ![p][f] = @ + 1]
      /\ v.c = [current EXCEPT ![p] = IF Active(waiting, p) = {} THEN f ELSE @]
  <2>1. View \in Queue /\ ListAssumption /\ View.w = waiting /\ View.c = current
    BY InvBits
  <2>2. /\ v.w = [View.w EXCEPT ![p][f] = @ + 1]
        /\ v.c = [View.c EXCEPT ![p] = IF Active(View.w, p) = {} THEN f ELSE @]
    BY <2>1, EnqueueIs
  <2> HIDE DEF v
  <2> QED
    BY <2>1, <2>2
<1> HIDE DEF v
<1>5. v.w \in Lists
  BY <1>3 DEF Well, Queue
<1>6. CASE free
  <2>1. sending = None
    <3>1. CASE Kind = "fair"
      BY <1>6, <3>1
    <3>2. CASE Kind = "lossless"
      <4>1. Total(waiting) = 0 /\ \A q \in Prios : Active(waiting, q) = {}
        <5>1. /\ Size(View) = Total(waiting) + 0 /\ Total(waiting) \in Nat
              /\ (Total(waiting) = 0 <=> \A q \in Prios : Active(waiting, q) = {})
          BY <3>2, InvBits, SizeIs
        <5> QED
          BY <1>6, <5>1
      <4>2. sending \in Prios \cup {None} /\ (sending # None => Active(waiting, sending) # {})
        <5>1. View.s \in Prios \cup {None} /\ (View.s # None => Active(View.w, View.s) # {})
          BY <1>2, <3>2 DEF Well, Queue
        <5> QED
          BY <5>1, InvBits
      <4> QED
        BY <4>1, <4>2
    <3> QED
      BY <3>1, <3>2
  <2>2. /\ Well(x) /\ x.s # None /\ x.st = "READY"
        /\ Kind = "fair" => Total(x.w) = Total(v.w) - 1
    BY <1>3, <1>6, <2>1, BeginWell
  <2> HIDE DEF x
  <2>3. x \in Queue /\ Willing(x)
    BY <2>2 DEF Well, Willing
  <2>4. Well(View)' /\ Willing(View)'
    BY <1>1, <2>2, <2>3, BecomeIs, WellNext
  <2>5. Frames'
    <3>1. state' = "READY" /\ told = "go"
      BY <1>1, <1>2, <1>6, <2>2, <2>3, BecomeIs DEF Frames
    <3> QED
      BY <1>1, <1>2, <3>1 DEF Frames
  <2>6. waiting' = x.w /\ current' = x.c /\ passed' = After(waiting, x.w, passed) /\ passed' \in Lists
    BY <1>1, <1>2, <2>3, BecomeIs, AfterTyped, InvBits DEF Queue
  <2>7. ASSUME Kind = "fair"
        PROVE  Turns(x.w, x.c, passed')
    <3>1. Total(waiting) = 0
      <4>1. Size(View) = Total(waiting) + 0
        BY <2>1, <2>7, InvBits, SizeIs
      <4>2. Total(waiting) \in Nat
        BY InvBits, SizeIs
      <4> QED
        BY <1>6, <4>1, <4>2
    <3>2. Total(x.w) = 0
      BY <1>3, <2>2, <2>7, <3>1
    <3>3. \A q \in Prios : Active(x.w, q) = {}
      BY <2>3, <3>2, SizeIs
    <3> QED
      BY <2>3, <2>6, <3>3, InvBits, TurnsNone DEF Queue
  <2>8. Fair'
    <3>1. Turns(waiting, current, passed)' <=> Turns(x.w, x.c, passed')
      BY <2>6 DEF Turns
    <3> QED
      BY <2>6, <2>7, <3>1 DEF Fair
  <2> QED
    BY <2>4, <2>5, <2>8 DEF PauseInv
<1>7. CASE ~free
  <2>1. x = v
    BY <1>7
  <2> HIDE DEF x
  <2>2. Willing(v)
    <3>1. CASE state # "READY"
      BY <1>3, <3>1 DEF Willing
    <3>2. CASE sending # None
      BY <1>3, <3>2 DEF Willing
    <3>3. CASE state = "READY" /\ sending = None
      <4>1. Size(View) > 0
        BY <1>7, <3>3, InvBits
      <4>2. \E q \in Prios : Active(waiting, q) # {}
        BY <3>3, <4>1, InvBits, SomeActive
      <4> QED
        BY <1>2, <3>3, <4>2, InvBits DEF Willing
    <3> QED
      BY <3>1, <3>2, <3>3
  <2>3. v \in Queue /\ Become(v)
    BY <1>1, <1>3, <2>1 DEF Well
  <2>4. Well(View)' /\ Willing(View)'
    BY <1>3, <2>2, <2>3, BecomeIs, WellNext
  <2>5. Frames'
    <3>1. state' = state /\ sending' = sending
      BY <1>3, <2>3, BecomeIs
    <3> QED
      BY <1>1, <1>2, <3>1 DEF Frames
  <2>6. waiting' = v.w /\ current' = v.c /\ passed' = After(waiting, v.w, passed) /\ passed' \in Lists
    BY <1>2, <1>5, <2>3, BecomeIs, AfterTyped, InvBits
  <2>7. Kind = "fair" => Turns(v.w, v.c, passed')
    BY <1>4, <1>5, <2>6, InvBits, TurnsMore DEF PauseInv, Fair
  <2>8. Fair'
    <3>1. Turns(waiting, current, passed)' <=> Turns(v.w, v.c, passed')
      BY <2>6 DEF Turns
    <3> QED
      BY <2>6, <2>7, <3>1 DEF Fair
  <2> QED
    BY <2>4, <2>5, <2>8 DEF PauseInv
<1> QED
  BY <1>6, <1>7

\* A pause keeps the invariant.
LEMMA PauseKeeps ==
    ASSUME Assumptions, Kind \in {"fair", "lossless"}, PauseInv, ReceivePause
    PROVE  PauseInv'
<1> DEFINE v == Paused(View)
<1>1. Become(v) /\ told' = "pause" /\ late' = (IF told = "go" THEN 0 ELSE late)
      /\ (told = "go" \/ Repeats)
  BY DEF ReceivePause
<1>2. Frames
  BY DEF PauseInv
<1>3. Well(v) /\ v.w = waiting /\ v.c = current /\ v.s = sending /\ v.st # "READY"
  BY PausedWell DEF PauseInv
<1> HIDE DEF v
<1>4. v \in Queue /\ Willing(v) /\ Moved(waiting, current, v.w, v.c)
  BY <1>3 DEF Well, Willing, Moved
<1>5. Well(View)' /\ Willing(View)' /\ Fair'
  BY <1>1, <1>3, <1>4, Moves
<1>6. state' # "READY" /\ sending' = sending
  BY <1>1, <1>3, <1>4, BecomeIs
<1>7. Frames'
  BY <1>1, <1>2, <1>6 DEF Frames
<1> QED
  BY <1>5, <1>7 DEF PauseInv

\* A resume keeps the invariant.
LEMMA ResumeKeeps ==
    ASSUME Assumptions, Kind \in {"fair", "lossless"}, PauseInv, ReceiveResume
    PROVE  PauseInv'
<1> DEFINE v == Resumed(View)
<1>1. Become(v) /\ told' = "go" /\ late' = 0
  BY DEF ReceiveResume
<1>2. /\ Well(v) /\ Willing(v) /\ v.st = "READY"
      /\ Kind = "fair" => Moved(View.w, View.c, v.w, v.c)
  BY ResumedWell DEF PauseInv
<1> HIDE DEF v
<1>3. Kind = "fair" => Moved(waiting, current, v.w, v.c)
  BY <1>2, InvBits
<1>4. v \in Queue
  BY <1>2 DEF Well
<1>5. Well(View)' /\ Willing(View)' /\ Fair'
  BY <1>1, <1>2, <1>3, Moves
<1>6. state' = "READY"
  BY <1>1, <1>2, <1>4, BecomeIs
<1>7. Frames'
  BY <1>1, <1>6 DEF Frames
<1> QED
  BY <1>5, <1>7 DEF PauseInv

\* The end of a service keeps the invariant.
LEMMA ServiceKeeps ==
    ASSUME Assumptions, Kind \in {"fair", "lossless"}, PauseInv, CompleteService
    PROVE  PauseInv'
<1> DEFINE z == [View EXCEPT !.e = @ - 1]
           x == Sent(z)
           r == Rest(Settled(x))
<1>1. Well(View) /\ Frames
  BY DEF PauseInv
<1>2. sending # None /\ View.s # None
  <2>1. View.e = IF View.s = None THEN 0 ELSE 1
    BY <1>1 DEF Well
  <2>2. events > 0
    BY DEF CompleteService
  <2> QED
    BY <2>1, <2>2, InvBits
<1>3. /\ HasPacket(z) /\ Size(z) > 0
      /\ Well(x) /\ x.s = None /\ x.st = View.st
      /\ Kind = "fair" => x.w = View.w /\ x.c = View.c
  BY <1>1, <1>2, SentWell
<1>4. state # "PAUSED"
  <2>1. View.st = "PAUSED" => View.s = None
    BY <1>1 DEF Well
  <2> QED
    BY <1>2, <2>1, InvBits
<1>5. Size(z) # 0
  <2> HIDE DEF z
  <2> QED
    BY <1>3
<1>6. Become(r) /\ late' = (IF told = "pause" THEN late + 1 ELSE late) /\ told' = told
  BY <1>3, <1>4, <1>5 DEF CompleteService
<1> HIDE DEF z, x
<1>7. /\ Well(r) /\ Willing(r)
      /\ r.st = "READY" <=> x.st = "READY"
      /\ x.st # "READY" => r.s = None
      /\ Kind = "fair" => Moved(x.w, x.c, r.w, r.c)
  BY <1>3, RestWell
<1> HIDE DEF r
<1>8. Kind = "fair" => Moved(waiting, current, r.w, r.c)
  BY <1>3, <1>7, InvBits
<1>9. r \in Queue
  BY <1>7 DEF Well
<1>10. Well(View)' /\ Willing(View)' /\ Fair'
  BY <1>6, <1>7, <1>8, Moves
<1>11. (state' = "READY" <=> state = "READY") /\ (state # "READY" => sending' = None)
  BY <1>3, <1>6, <1>7, <1>9, InvBits, BecomeIs
<1>12. Frames'
  BY <1>1, <1>2, <1>6, <1>11 DEF Frames
<1> QED
  BY <1>10, <1>12 DEF PauseInv

\* A step that changes nothing keeps the invariant.
LEMMA PauseStays ==
    ASSUME Assumptions, PauseInv, UNCHANGED vars
    PROVE  PauseInv'
  BY DEF PauseInv, Well, Willing, Frames, Fair, Turns, View, Pointers, vars

\* The invariant holds of a new queue.
LEMMA PauseInit ==
    ASSUME Assumptions, Init
    PROVE  PauseInv
<1>1. ListAssumption /\ Cap \in Nat
  BY DEF Assumptions, BoundAssumption
<1>2. waiting \in Lists /\ passed \in Lists /\ current \in [Prios -> Flows \cup {NoFlow}]
  BY DEF Init, Lists
<1>3. \A p \in Prios, f \in Flows : waiting[p][f] = 0 /\ passed[p][f] = 0
  BY DEF Init
<1>4. \A p \in Prios : Active(waiting, p) = {}
  BY <1>3 DEF Active
<1>5. View \in Queue /\ View.w = waiting /\ View.s = None
  <2>1. sending = None /\ servicing = None /\ events \in Int /\ state \in State
    BY DEF State, Init
  <2>2. failed \in BOOLEAN
    BY DEF Init
  <2> QED
    BY <1>2, <2>1, <2>2 DEF View, Queue
<1>6. Size(View) = 0
  <2>1. Total(waiting) = 0
    BY <1>4, <1>5, SizeIs
  <2>2. Size(View) = Total(waiting) + 0
    BY <1>5, SizeIs
  <2> QED
    BY <2>1, <2>2
<1>7. Well(View)
  <2>1. Pointers(waiting, current)
    BY <1>4 DEF Pointers, Init
  <2>2. View.c = current /\ View.e = 0 /\ ~View.bad /\ View.st = "READY"
    BY DEF View, Init
  <2> QED
    BY <1>1, <1>5, <1>6, <2>1, <2>2 DEF Well
<1>8. Willing(View)
  BY <1>4, <1>5 DEF Willing
<1>9. Frames
  BY DEF Frames, Init
<1>10. Fair
  BY <1>2, <1>3 DEF Fair, Turns
<1> QED
  BY <1>7, <1>8, <1>9, <1>10 DEF PauseInv

\* The invariant: the send state, the packet being sent and its event agree, and a flow's turn comes.
THEOREM PauseInvariant ==
    Assumptions /\ Kind \in {"fair", "lossless"} => (Spec => []PauseInv)
<1> SUFFICES ASSUME Assumptions, Kind \in {"fair", "lossless"}
             PROVE  Spec => []PauseInv
  OBVIOUS
<1>1. Init => PauseInv
  BY PauseInit
<1>2. PauseInv /\ [Next]_vars => PauseInv'
  <2> SUFFICES ASSUME PauseInv, [Next]_vars
               PROVE  PauseInv'
    OBVIOUS
  <2>1. CASE \E p \in Prios, f \in Flows : Arrive(p, f)
    BY <2>1, ArriveKeeps
  <2>2. CASE ReceivePause
    BY <2>2, PauseKeeps
  <2>3. CASE ReceiveResume
    BY <2>3, ResumeKeeps
  <2>4. CASE CompleteService
    BY <2>4, ServiceKeeps
  <2>5. CASE UNCHANGED vars
    BY <2>5, PauseStays
  <2> QED
    BY <2>1, <2>2, <2>3, <2>4, <2>5 DEF Next
<1> QED
  BY <1>1, <1>2, PTL DEF Spec

\* A queue that may send and has something to send has a service event coming.
THEOREM PauseNeverStuck ==
    Assumptions /\ Kind \in {"fair", "lossless"} => (Spec => []NeverStuck)
<1> SUFFICES ASSUME Assumptions, Kind \in {"fair", "lossless"}
             PROVE  Spec => []NeverStuck
  OBVIOUS
<1>1. PauseInv => NeverStuck
  <2> SUFFICES ASSUME PauseInv, told = "go", Size(View) > 0
               PROVE  events > 0
    BY DEF NeverStuck
  <2>1. sending # None
    <3> SUFFICES ASSUME sending = None
                 PROVE  FALSE
      OBVIOUS
    <3>1. \E p \in Prios : Active(waiting, p) # {}
      BY InvBits, SomeActive
    <3>2. state = "READY"
      BY DEF PauseInv, Frames
    <3> QED
      BY <3>1, <3>2, InvBits DEF PauseInv, Willing
  <2>2. View.e = IF View.s = None THEN 0 ELSE 1
    BY DEF PauseInv, Well
  <2> QED
    BY <2>1, <2>2, InvBits
<1> QED
  BY <1>1, PauseInvariant, PTL

\* One packet is sent between a pause and the resume, at most.
THEOREM PauseSilent ==
    Assumptions /\ Kind \in {"fair", "lossless"} => (Spec => []SilentWhilePaused)
<1> SUFFICES ASSUME Assumptions, Kind \in {"fair", "lossless"}
             PROVE  Spec => []SilentWhilePaused
  OBVIOUS
<1>1. PauseInv => SilentWhilePaused
  BY DEF PauseInv, Frames, SilentWhilePaused
<1> QED
  BY <1>1, PauseInvariant, PTL

\* Never two service events, and no assertion of the class fails.
THEOREM PauseOneAtATime ==
    Assumptions /\ Kind \in {"fair", "lossless"} => (Spec => []OneAtATime)
<1> SUFFICES ASSUME Assumptions, Kind \in {"fair", "lossless"}
             PROVE  Spec => []OneAtATime
  OBVIOUS
<1>1. PauseInv => OneAtATime
  <2> SUFFICES ASSUME PauseInv
               PROVE  OneAtATime
    OBVIOUS
  <2>1. View.e = IF View.s = None THEN 0 ELSE 1
    BY DEF PauseInv, Well
  <2> QED
    BY <2>1, InvBits DEF OneAtATime
<1> QED
  BY <1>1, PauseInvariant, PTL

\* A flow that waits is passed once by each other flow of its priority, at most.
THEOREM PauseRoundRobin ==
    Assumptions /\ Kind = "fair" => (Spec => []RoundRobin)
<1> SUFFICES ASSUME Assumptions, Kind = "fair"
             PROVE  Spec => []RoundRobin
  OBVIOUS
<1>1. PauseInv => RoundRobin
  <2> SUFFICES ASSUME PauseInv, NEW p \in Prios, NEW f \in Flows
               PROVE  passed[p][f] <= Cardinality(Flows) - 1
    BY DEF RoundRobin
  <2>1. /\ ListAssumption /\ waiting \in Lists /\ passed \in Lists
        /\ Turns(waiting, current, passed) /\ current[p] \in Flows \cup {NoFlow}
    BY InvBits DEF PauseInv, Fair
  <2>2. waiting[p][f] \in Nat /\ passed[p][f] \in Nat
    BY <2>1 DEF Lists
  <2>3. current[p] \in Nat
    <3>1. Flows \subseteq Nat /\ NoFlow \in Nat
      BY <2>1, Finite DEF NoFlow
    <3> QED
      BY <2>1, <3>1
  <2>4. Cardinality(Ahead(current[p], f)) \in Nat
        /\ Cardinality(Ahead(current[p], f)) <= Cardinality(Flows) - 1
    BY <2>1, <2>3, AheadBound
  <2>5. Cardinality(Flows) \in Nat
    BY <2>1, Finite, FS_CardinalityType
  <2>6. CASE waiting[p][f] = 0
    BY <2>1, <2>4, <2>5, <2>6 DEF Turns
  <2>7. CASE waiting[p][f] > 0
    <3>1. passed[p][f] + Cardinality(Ahead(current[p], f)) <= Cardinality(Flows) - 1
      BY <2>1, <2>7 DEF Turns
    <3> QED
      BY <2>2, <2>4, <2>5, <3>1
  <2> QED
    BY <2>2, <2>6, <2>7
<1> QED
  <2>1. Kind \in {"fair", "lossless"}
    OBVIOUS
  <2>2. Spec => []PauseInv
    BY <2>1, PauseInvariant
  <2> QED
    BY <1>1, <2>2, PTL

\* The type of the state of a fair queue.
THEOREM PauseTyped ==
    Assumptions /\ Kind = "fair" => (Spec => []TypeOK)
<1> SUFFICES ASSUME Assumptions, Kind = "fair"
             PROVE  Spec => []TypeOK
  OBVIOUS
<1>1. PauseInv => TypeOK
  <2> SUFFICES ASSUME PauseInv
               PROVE  TypeOK
    OBVIOUS
  <2>1. Well(View) /\ Frames /\ Cap \in Nat
    BY DEF PauseInv, Assumptions, BoundAssumption
  <2>2. /\ View.c \in [Prios -> Flows \cup {NoFlow}] /\ View.s \in Prios \cup {None}
        /\ View.serving \in Prios \cup {None} /\ View.st \in State /\ View.bad \in BOOLEAN
        /\ Pointers(View.w, View.c) /\ (View.e = IF View.s = None THEN 0 ELSE 1) /\ Size(View) <= Cap
    BY <2>1 DEF Well, Queue
  <2>3. \A p \in Prios, f \in Flows : waiting[p][f] \in 0 .. Cap
    <3> SUFFICES ASSUME NEW p \in Prios, NEW f \in Flows
                 PROVE  waiting[p][f] \in 0 .. Cap
      OBVIOUS
    <3>1. waiting[p][f] \in Nat
      BY InvBits, ListsNat
    <3> DEFINE k == IF Kind = "fair" /\ View.s # None THEN 1 ELSE 0
    <3>2. Size(View) = Total(waiting) + k /\ waiting[p][f] <= Total(waiting) /\ Total(waiting) \in Nat
      BY InvBits, SizeIs
    <3>3. k \in Nat /\ Size(View) <= Cap
      BY <2>2
    <3> HIDE DEF k
    <3> QED
      BY <2>1, <3>1, <3>2, <3>3
  <2>4. waiting \in [Prios -> [Flows -> 0 .. Cap]]
    BY <2>3, InvBits DEF Lists
  <2>5. \A p \in Prios : current[p] \in Active(waiting, p) \cup {NoFlow}
    BY <2>2, InvBits DEF Pointers
  <2>6. /\ sending \in Prios \cup {None} /\ servicing \in Prios \cup {None}
        /\ state \in {"READY", "PAUSE_RECEIVED", "PAUSED"} /\ failed \in BOOLEAN
    BY <2>2 DEF View, State
  <2>7. events \in 0 .. Cap + 1
    <3>1. events = IF sending = None THEN 0 ELSE 1
      BY <2>2 DEF View
    <3> QED
      BY <2>1, <3>1
  <2> QED
    BY <2>1, <2>4, <2>5, <2>6, <2>7 DEF TypeOK, Frames
<1> QED
  <2>1. Kind \in {"fair", "lossless"}
    OBVIOUS
  <2>2. Spec => []PauseInv
    BY <2>1, PauseInvariant
  <2> QED
    BY <1>1, <2>2, PTL

-----------------------------------------------------------------------------
(* The ring. *)

\* A position that has passed the end of an array of n slots, once at most.
Wrapped(x, n) == IF x < n THEN x ELSE x - n

\* The remainder the code computes wraps a position.
LEMMA WrapsRound ==
    ASSUME NEW n \in Nat \ {0}, NEW x \in Nat, x < 2 * n
    PROVE  /\ x % n = Wrapped(x, n)
           /\ Wrapped(x, n) \in 0 .. n - 1
<1>1. CASE x < n
  BY <1>1 DEF Wrapped
<1>2. CASE ~(x < n)
  <2>1. x = n * 1 + (x - n) /\ x - n \in 0 .. n - 1
    BY <1>2
  <2> QED
    BY <1>2, <2>1 DEF Wrapped
<1> QED
  BY <1>1, <1>2

Slots == Seq({Unset} \cup Value)

\* A ring: an array of slots, the place of the next element, that of the oldest, and the number
\* of elements.  The next one goes right behind the newest, and there is room for it.
RingOK(s, push, pop, c) ==
    /\ s \in Slots /\ Len(s) >= 2
    /\ pop \in 0 .. Len(s) - 1 /\ c \in 0 .. Len(s) - 1
    /\ push = Wrapped(pop + c, Len(s))

RingInv == RingOK(slots, nextPush, nextPop, count)

\* The elements in an array, the oldest first.
Held(s, pop, c) == [i \in 1 .. c |-> s[Wrapped(pop + i - 1, Len(s)) + 1]]

\* The contents as the code reads them.
LEMMA CountedHeld ==
    ASSUME NEW s, NEW push, NEW pop, NEW c, RingOK(s, push, pop, c)
    PROVE  [i \in 1 .. c |-> s[((pop + i - 1) % Len(s)) + 1]] = Held(s, pop, c)
<1>1. \A i \in 1 .. c : (pop + i - 1) % Len(s) = Wrapped(pop + i - 1, Len(s))
  <2> SUFFICES ASSUME NEW i \in 1 .. c
               PROVE  (pop + i - 1) % Len(s) = Wrapped(pop + i - 1, Len(s))
    OBVIOUS
  <2>1. Len(s) \in Nat \ {0} /\ pop + i - 1 \in Nat /\ pop + i - 1 < 2 * Len(s)
    BY DEF RingOK
  <2> QED
    BY <2>1, WrapsRound
<1> QED
  BY <1>1 DEF Held

\* Numbers and positions of a ring.
LEMMA RingNumbers ==
    ASSUME NEW s, NEW push, NEW pop, NEW c, RingOK(s, push, pop, c)
    PROVE  /\ s \in Slots /\ Len(s) \in Nat /\ Len(s) >= 2
           /\ pop \in Nat /\ pop < Len(s) /\ c \in Nat /\ c < Len(s)
           /\ push \in Nat /\ push < Len(s)
           /\ push = Wrapped(pop + c, Len(s))
<1>1. /\ s \in Slots /\ Len(s) \in Nat /\ Len(s) >= 2
      /\ pop \in Nat /\ pop < Len(s) /\ c \in Nat /\ c < Len(s)
      /\ push = Wrapped(pop + c, Len(s))
  BY DEF RingOK, Slots
<1>2. push \in Nat /\ push < Len(s)
  BY <1>1 DEF Wrapped
<1> QED
  BY <1>1, <1>2

\* The elements are a sequence.
LEMMA HeldSeq ==
    ASSUME NEW s, NEW push, NEW pop, NEW c, RingOK(s, push, pop, c)
    PROVE  /\ Held(s, pop, c) \in Slots /\ Len(Held(s, pop, c)) = c
           /\ DOMAIN Held(s, pop, c) = 1 .. c
           /\ \A i \in 1 .. c : Held(s, pop, c)[i] = s[Wrapped(pop + i - 1, Len(s)) + 1]
<1>1. /\ s \in Slots /\ Len(s) \in Nat /\ Len(s) >= 2
      /\ pop \in Nat /\ pop < Len(s) /\ c \in Nat /\ c < Len(s)
  BY RingNumbers
<1>2. \A i \in 1 .. c : s[Wrapped(pop + i - 1, Len(s)) + 1] \in {Unset} \cup Value
  <2> SUFFICES ASSUME NEW i \in 1 .. c
               PROVE  s[Wrapped(pop + i - 1, Len(s)) + 1] \in {Unset} \cup Value
    OBVIOUS
  <2>1. Wrapped(pop + i - 1, Len(s)) + 1 \in 1 .. Len(s)
    BY <1>1 DEF Wrapped
  <2> QED
    BY <1>1, <2>1, ElementOfSeq DEF Slots
<1>3. Held(s, pop, c) \in [1 .. c -> {Unset} \cup Value]
  BY <1>2 DEF Held
<1>4. Held(s, pop, c) \in Slots /\ Len(Held(s, pop, c)) = c
  BY <1>1, <1>3, IsASeq, LenProperties DEF Slots
<1> QED
  BY <1>4 DEF Held

\* The array with an element in the slot the next one goes to.
Written(s, push, v) == [s EXCEPT ![push + 1] = v]

\* The ring while it has room: the new element goes where no other is.
LEMMA WrittenHeld ==
    ASSUME NEW s, NEW push, NEW pop, NEW c, RingOK(s, push, pop, c), c + 1 < Len(s),
           NEW v \in Value
    PROVE  /\ RingOK(Written(s, push, v), (push + 1) % Len(s), pop, c + 1)
           /\ Held(Written(s, push, v), pop, c + 1) = Append(Held(s, pop, c), v)
<1> DEFINE n == Len(s)
           t == Written(s, push, v)
<1>1. /\ s \in Slots /\ n \in Nat /\ n >= 2 /\ pop \in Nat /\ pop < n /\ c \in Nat /\ c + 1 < n
      /\ push \in Nat /\ push < n /\ push = Wrapped(pop + c, n)
  BY RingNumbers
<1>2. /\ t \in Slots /\ Len(t) = n
      /\ \A j \in 1 .. n : t[j] = IF j = push + 1 THEN v ELSE s[j]
  BY <1>1, ExceptSeq DEF Slots, Written
<1>3. n = Len(s)
  OBVIOUS
<1> HIDE DEF n, t
<1>4. (push + 1) % n = Wrapped(pop + (c + 1), n)
  <2>1. (push + 1) % n = Wrapped(push + 1, n)
    BY <1>1, WrapsRound
  <2> QED
    BY <1>1, <2>1 DEF Wrapped
<1>5. RingOK(t, (push + 1) % n, pop, c + 1)
  BY <1>1, <1>2, <1>4 DEF RingOK, Slots
<1>6. /\ Held(s, pop, c) \in Slots /\ Len(Held(s, pop, c)) = c
      /\ \A i \in 1 .. c : Held(s, pop, c)[i] = s[Wrapped(pop + i - 1, n) + 1]
  BY <1>3, HeldSeq
<1>7. /\ Held(t, pop, c + 1) \in Slots /\ Len(Held(t, pop, c + 1)) = c + 1
      /\ \A i \in 1 .. c + 1 : Held(t, pop, c + 1)[i] = t[Wrapped(pop + i - 1, n) + 1]
  <2>1. /\ Held(t, pop, c + 1) \in Slots /\ Len(Held(t, pop, c + 1)) = c + 1
        /\ \A i \in 1 .. c + 1 :
              Held(t, pop, c + 1)[i] = t[Wrapped(pop + i - 1, Len(t)) + 1]
    BY <1>5, HeldSeq
  <2> QED
    BY <1>2, <2>1
<1>8. /\ Append(Held(s, pop, c), v) \in Slots
      /\ Len(Append(Held(s, pop, c), v)) = c + 1
      /\ \A i \in 1 .. c : Append(Held(s, pop, c), v)[i] = Held(s, pop, c)[i]
      /\ Append(Held(s, pop, c), v)[c + 1] = v
  BY <1>6, AppendProperties DEF Slots
<1>9. ASSUME NEW i \in 1 .. c + 1
      PROVE  Held(t, pop, c + 1)[i] = Append(Held(s, pop, c), v)[i]
  <2>1. CASE i = c + 1
    <3>1. Wrapped(pop + i - 1, n) = push /\ push + 1 \in 1 .. n
      BY <1>1, <2>1
    <3> QED
      BY <1>2, <1>7, <1>8, <2>1, <3>1
  <2>2. CASE i # c + 1
    <3>1. i \in 1 .. c
      BY <1>1, <2>2
    <3> DEFINE w == Wrapped(pop + i - 1, n) + 1
    <3>2. w \in 1 .. n /\ w # push + 1
      BY <1>1, <3>1 DEF Wrapped
    <3>3. Held(t, pop, c + 1)[i] = t[w]
      BY <1>7
    <3>4. Append(Held(s, pop, c), v)[i] = s[w]
      BY <1>6, <1>8, <3>1
    <3> HIDE DEF w
    <3> QED
      BY <1>2, <3>2, <3>3, <3>4
  <2> QED
    BY <2>1, <2>2
<1>10. Held(t, pop, c + 1) = Append(Held(s, pop, c), v)
  BY <1>1, <1>7, <1>8, <1>9, SeqEqual DEF Slots
<1> QED
  BY <1>2, <1>5, <1>10 DEF n, t

\* The array of the code when it doubles, and the place of the next element in it.
Doubled(s, push, pop) ==
    s \o [i \in 1 .. Len(s) |-> IF push < pop /\ i <= push THEN s[i] ELSE Unset]
Shifted(s, push, pop) == IF push < pop THEN push + Len(s) ELSE push

\* A ring that is full but for one slot doubles: what had wrapped round is found behind the
\* rest, and the elements are those it held.
LEMMA DoubledHeld ==
    ASSUME NEW s, NEW push, NEW pop, NEW c, RingOK(s, push, pop, c), c + 1 = Len(s)
    PROVE  LET t == Doubled(s, push, pop)
           IN  /\ RingOK(t, Shifted(s, push, pop), pop, c) /\ Len(t) = 2 * Len(s)
               /\ Held(t, pop, c) = Held(s, pop, c)
<1> DEFINE n == Len(s)
           u == [i \in 1 .. n |-> IF push < pop /\ i <= push THEN s[i] ELSE Unset]
           t == s \o u
<1>1. /\ s \in Slots /\ n \in Nat /\ n >= 2 /\ pop \in Nat /\ pop < n /\ c \in Nat /\ c + 1 = n
      /\ push \in Nat /\ push < n /\ push = Wrapped(pop + c, n)
  BY RingNumbers
<1>2. u \in Slots /\ Len(u) = n
  <2>1. \A i \in 1 .. n : s[i] \in {Unset} \cup Value
    BY <1>1, ElementOfSeq DEF Slots
  <2>2. \A i \in 1 .. n : (IF push < pop /\ i <= push THEN s[i] ELSE Unset) \in {Unset} \cup Value
    BY <2>1
  <2>3. u \in [1 .. n -> {Unset} \cup Value]
    BY <2>2
  <2> QED
    BY <1>1, <2>3 DEF Slots
<1>3. \A i \in 1 .. n : push < pop /\ i <= push => u[i] = s[i]
  OBVIOUS
<1>4. n = Len(s) /\ t = Doubled(s, push, pop)
  BY DEF Doubled
<1> HIDE DEF n, u
<1>5. /\ t \in Slots /\ Len(t) = 2 * n
      /\ \A i \in 1 .. n + n : t[i] = IF i <= n THEN s[i] ELSE u[i - n]
  <2>1. /\ t \in Slots /\ Len(t) = Len(s) + Len(u)
        /\ \A i \in 1 .. Len(s) + Len(u) : t[i] = IF i <= Len(s) THEN s[i] ELSE u[i - Len(s)]
    BY <1>1, <1>2, ConcatProperties DEF Slots
  <2> QED
    BY <1>1, <1>2, <1>4, <2>1
<1> HIDE DEF t
<1>6. Shifted(s, push, pop) = Wrapped(pop + c, 2 * n)
  BY <1>1, <1>4 DEF Wrapped, Shifted
<1>7. RingOK(t, Shifted(s, push, pop), pop, c)
  BY <1>1, <1>5, <1>6 DEF RingOK, Slots
<1>8. /\ Held(s, pop, c) \in Slots /\ Len(Held(s, pop, c)) = c
      /\ \A i \in 1 .. c : Held(s, pop, c)[i] = s[Wrapped(pop + i - 1, n) + 1]
  BY <1>4, HeldSeq
<1>9. /\ Held(t, pop, c) \in Slots /\ Len(Held(t, pop, c)) = c
      /\ \A i \in 1 .. c : Held(t, pop, c)[i] = t[Wrapped(pop + i - 1, 2 * n) + 1]
  <2>1. /\ Held(t, pop, c) \in Slots /\ Len(Held(t, pop, c)) = c
        /\ \A i \in 1 .. c : Held(t, pop, c)[i] = t[Wrapped(pop + i - 1, Len(t)) + 1]
    BY <1>7, HeldSeq
  <2> QED
    BY <1>5, <2>1
<1>10. ASSUME NEW i \in 1 .. c
       PROVE  Held(t, pop, c)[i] = Held(s, pop, c)[i]
  <2> DEFINE p == pop + i
  <2>1. p \in 1 .. n + n /\ Wrapped(pop + i - 1, 2 * n) + 1 = p
    BY <1>1 DEF Wrapped
  <2>2. Held(t, pop, c)[i] = t[p]
    BY <1>9, <2>1
  <2>3. Wrapped(pop + i - 1, n) + 1 = IF p <= n THEN p ELSE p - n
    BY <1>1 DEF Wrapped
  <2>4. Held(s, pop, c)[i] = s[IF p <= n THEN p ELSE p - n]
    BY <1>8, <2>3
  <2>5. p > n => p - n \in 1 .. n /\ push < pop /\ p - n <= push
    BY <1>1 DEF Wrapped
  <2>6. CASE p <= n
    <3>1. t[p] = s[p]
      BY <1>5, <2>1, <2>6
    <3> QED
      BY <2>2, <2>4, <2>6, <3>1
  <2>7. CASE ~(p <= n)
    <3>1. p - n \in 1 .. n /\ push < pop /\ p - n <= push
      BY <1>1, <2>1, <2>5, <2>7
    <3>2. t[p] = u[p - n]
      BY <1>5, <2>1, <2>7
    <3>3. u[p - n] = s[p - n]
      BY <1>3, <3>1
    <3> QED
      BY <2>2, <2>4, <2>7, <3>2, <3>3
  <2> QED
    BY <2>6, <2>7
<1>11. Held(t, pop, c) = Held(s, pop, c)
  BY <1>8, <1>9, <1>10, SeqEqual DEF Slots
<1> QED
  BY <1>4, <1>5, <1>7, <1>11

\* The oldest element leaves.
LEMMA PoppedHeld ==
    ASSUME NEW s, NEW push, NEW pop, NEW c, RingOK(s, push, pop, c), c > 0
    PROVE  /\ RingOK(s, push, (pop + 1) % Len(s), c - 1)
           /\ Held(s, pop, c) # <<>>
           /\ Held(s, (pop + 1) % Len(s), c - 1) = Tail(Held(s, pop, c))
<1> DEFINE n == Len(s)
           q == (pop + 1) % n
<1>1. /\ s \in Slots /\ n \in Nat /\ n >= 2 /\ pop \in Nat /\ pop < n /\ c \in Nat /\ c < n
      /\ push \in Nat /\ push < n /\ push = Wrapped(pop + c, n)
  BY RingNumbers
<1>2. n = Len(s)
  OBVIOUS
<1>3. q = Wrapped(pop + 1, n)
  BY <1>1, WrapsRound
<1> HIDE DEF n, q
<1>4. RingOK(s, push, q, c - 1)
  BY <1>1, <1>2, <1>3 DEF RingOK, Slots, Wrapped
<1>5. /\ Held(s, pop, c) \in Slots /\ Len(Held(s, pop, c)) = c
      /\ \A i \in 1 .. c : Held(s, pop, c)[i] = s[Wrapped(pop + i - 1, n) + 1]
  BY <1>2, HeldSeq
<1>6. /\ Held(s, q, c - 1) \in Slots /\ Len(Held(s, q, c - 1)) = c - 1
      /\ \A i \in 1 .. c - 1 : Held(s, q, c - 1)[i] = s[Wrapped(q + i - 1, n) + 1]
  BY <1>2, <1>4, HeldSeq
<1>7. Held(s, pop, c) # <<>>
  BY <1>1, <1>5
<1>8. /\ Tail(Held(s, pop, c)) \in Slots /\ Len(Tail(Held(s, pop, c))) = c - 1
      /\ \A i \in 1 .. c - 1 : Tail(Held(s, pop, c))[i] = Held(s, pop, c)[i + 1]
  BY <1>1, <1>5, <1>7, HeadTailProperties DEF Slots
<1>9. ASSUME NEW i \in 1 .. c - 1
      PROVE  Held(s, q, c - 1)[i] = Tail(Held(s, pop, c))[i]
  <2>1. Wrapped(q + i - 1, n) = Wrapped(pop + (i + 1) - 1, n) /\ i + 1 \in 1 .. c
    BY <1>1, <1>3 DEF Wrapped
  <2> QED
    BY <1>5, <1>6, <1>8, <2>1
<1>10. Held(s, q, c - 1) = Tail(Held(s, pop, c))
  BY <1>1, <1>6, <1>8, <1>9, SeqEqual DEF Slots
<1> QED
  BY <1>4, <1>7, <1>10 DEF n, q

\* The newest element is taken back.
LEMMA TakenBackHeld ==
    ASSUME NEW s, NEW push, NEW pop, NEW c, RingOK(s, push, pop, c), c > 0
    PROVE  /\ RingOK(s, (push + Len(s) - 1) % Len(s), pop, c - 1)
           /\ Held(s, pop, c) # <<>>
           /\ Held(s, pop, c - 1) = SubSeq(Held(s, pop, c), 1, Len(Held(s, pop, c)) - 1)
<1> DEFINE n == Len(s)
           q == (push + n - 1) % n
<1>1. /\ s \in Slots /\ n \in Nat /\ n >= 2 /\ pop \in Nat /\ pop < n /\ c \in Nat /\ c < n
      /\ push \in Nat /\ push < n /\ push = Wrapped(pop + c, n)
  BY RingNumbers
<1>2. n = Len(s)
  OBVIOUS
<1>3. q = Wrapped(push + n - 1, n)
  <2>1. n \in Nat \ {0} /\ push + n - 1 \in Nat /\ push + n - 1 < 2 * n
    BY <1>1
  <2> QED
    BY <2>1, WrapsRound
<1> HIDE DEF n, q
<1>4. RingOK(s, q, pop, c - 1)
  BY <1>1, <1>2, <1>3 DEF RingOK, Slots, Wrapped
<1> DEFINE h == Held(s, pop, c)
<1>5. /\ h \in Slots /\ Len(h) = c
      /\ \A i \in 1 .. c : h[i] = s[Wrapped(pop + i - 1, n) + 1]
  BY <1>2, HeldSeq
<1>6. /\ Held(s, pop, c - 1) \in Slots /\ Len(Held(s, pop, c - 1)) = c - 1
      /\ \A i \in 1 .. c - 1 : Held(s, pop, c - 1)[i] = s[Wrapped(pop + i - 1, n) + 1]
  BY <1>2, <1>4, HeldSeq
<1> HIDE DEF h
<1>7. h # <<>>
  BY <1>1, <1>5
<1>8. /\ SubSeq(h, 1, c - 1) \in Slots /\ Len(SubSeq(h, 1, c - 1)) = c - 1
      /\ \A i \in 1 .. c - 1 : SubSeq(h, 1, c - 1)[i] = h[i]
  <2>1. \A i \in 1 .. c - 1 : h[i] \in {Unset} \cup Value
    BY <1>1, <1>5, ElementOfSeq DEF Slots
  <2>2. c - 1 \in Int /\ 1 \in Int /\ (IF 1 <= c - 1 THEN c - 1 - 1 + 1 ELSE 0) = c - 1
    BY <1>1
  <2> QED
    BY <1>1, <2>1, <2>2, SubSeqProperties DEF Slots
<1>9. Held(s, pop, c - 1) = SubSeq(h, 1, c - 1)
  <2>1. ASSUME NEW i \in 1 .. c - 1
        PROVE  Held(s, pop, c - 1)[i] = SubSeq(h, 1, c - 1)[i]
    <3>1. i \in 1 .. c
      BY <1>1
    <3> DEFINE w == Wrapped(pop + i - 1, n) + 1
    <3>2. h[i] = s[w]
      BY <1>5, <3>1
    <3>3. Held(s, pop, c - 1)[i] = s[w]
      BY <1>6
    <3>4. SubSeq(h, 1, c - 1)[i] = h[i]
      BY <1>8
    <3> QED
      BY <3>2, <3>3, <3>4
  <2> QED
    BY <1>1, <1>6, <1>8, <2>1, SeqEqual DEF Slots
<1> QED
  BY <1>4, <1>5, <1>7, <1>9 DEF h, n, q

-----------------------------------------------------------------------------
\* A push is at most one doubling, then one write.
LEMMA PushHeld ==
    ASSUME RingInv, NEW v \in Value, Ring!Push(v)
    PROVE  /\ RingInv'
           /\ Held(slots, nextPop, count)' = Append(Held(slots, nextPop, count), v)
<1>1. /\ nextPop' = nextPop /\ count' = count + 1
  BY DEF Ring!Push
<1>2. /\ count \in Nat /\ count < Len(slots) /\ Len(slots) \in Nat /\ Len(slots) >= 2
  BY RingNumbers DEF RingInv
<1>3. CASE ~Ring!Full
  <2>1. /\ slots' = Written(slots, nextPush, v)
        /\ nextPush' = (nextPush + 1) % Len(slots)
    BY <1>3 DEF Ring!Push, Written
  <2>2. count + 1 < Len(slots)
    BY <1>2, <1>3 DEF Ring!Full, Ring!Size
  <2>3. /\ RingOK(slots', nextPush', nextPop, count + 1)
        /\ Held(slots', nextPop, count + 1) = Append(Held(slots, nextPop, count), v)
    <3>1. RingOK(slots, nextPush, nextPop, count)
      BY DEF RingInv
    <3>2. /\ RingOK(Written(slots, nextPush, v), (nextPush + 1) % Len(slots), nextPop, count + 1)
          /\ Held(Written(slots, nextPush, v), nextPop, count + 1) = Append(Held(slots, nextPop, count), v)
      BY <2>2, <3>1, WrittenHeld
    <3> QED
      BY <2>1, <3>2
  <2> QED
    BY <1>1, <2>3 DEF RingInv, Held
<1>4. CASE Ring!Full
  <2> DEFINE t == Doubled(slots, nextPush, nextPop)
             at == Shifted(slots, nextPush, nextPop)
  <2>1. /\ slots' = Written(t, at, v)
        /\ nextPush' = (at + 1) % Len(t)
    BY <1>4 DEF Ring!Push, Ring!Grown, Doubled, Shifted, Ring!Size, Written
  <2>2. count + 1 = Len(slots)
    BY <1>4 DEF Ring!Full, Ring!Size
  <2>3. /\ RingOK(t, at, nextPop, count) /\ Len(t) = 2 * Len(slots)
        /\ Held(t, nextPop, count) = Held(slots, nextPop, count)
    BY <2>2, DoubledHeld DEF RingInv
  <2> HIDE DEF t, at
  <2>4. count + 1 < Len(t)
    BY <1>2, <2>2, <2>3
  <2>5. /\ RingOK(slots', nextPush', nextPop, count + 1)
        /\ Held(slots', nextPop, count + 1) = Append(Held(t, nextPop, count), v)
    <3>1. /\ RingOK(Written(t, at, v), (at + 1) % Len(t), nextPop, count + 1)
          /\ Held(Written(t, at, v), nextPop, count + 1) = Append(Held(t, nextPop, count), v)
      BY <2>3, <2>4, WrittenHeld
    <3> QED
      BY <2>1, <3>1
  <2> QED
    BY <1>1, <2>3, <2>5 DEF RingInv, Held
<1> QED
  BY <1>3, <1>4

\* A new buffer is an empty ring.
LEMMA RingInit ==
    ASSUME Ring!StartAssumption, Ring!Init
    PROVE  RingInv /\ Ring!Contents = <<>>
<1>1. slots \in Seq({Unset} \cup Value) /\ Len(slots) = StartSize
  <2>1. slots \in [1 .. StartSize -> {Unset} \cup Value]
    BY DEF Ring!Init
  <2> QED
    BY <2>1, IsASeq, LenProperties DEF Ring!StartAssumption
<1>2. RingInv
  BY <1>1 DEF RingInv, RingOK, Slots, Wrapped, Ring!Init, Ring!StartAssumption
<1>3. Ring!Contents = <<>>
  <2>1. Held(slots, nextPop, 0) \in Slots /\ Len(Held(slots, nextPop, 0)) = 0
    BY <1>2, HeldSeq DEF RingInv, Ring!Init
  <2> QED
    BY <1>2, <2>1, CountedHeld, EmptySeq DEF Slots, Ring!Init, Ring!Contents, Ring!Slot, Ring!Size, RingInv
<1> QED
  BY <1>2, <1>3

\* Every step keeps the ring in order, and does to the contents what the queue does.
LEMMA RingStep ==
    ASSUME RingInv, [Ring!Next]_Ring!vars
    PROVE  RingInv' /\ [Ring!D!Next]_Ring!Contents
<1>1. Ring!Contents = Held(slots, nextPop, count)
  BY CountedHeld DEF RingInv, Ring!Contents, Ring!Slot, Ring!Size
<1>2. ASSUME RingInv'
      PROVE  Ring!Contents' = Held(slots, nextPop, count)'
  <2>1. [i \in 1 .. count' |-> slots'[((nextPop' + i - 1) % Len(slots')) + 1]]
            = Held(slots', nextPop', count')
    BY <1>2, CountedHeld DEF RingInv
  <2> QED
    BY <2>1 DEF Ring!Contents, Ring!Slot, Ring!Size, Held
<1>3. ASSUME NEW v \in Value, Ring!Push(v)
      PROVE  RingInv' /\ [Ring!D!Next]_Ring!Contents
  BY <1>1, <1>2, <1>3, PushHeld DEF Ring!D!Next, Ring!D!Push
<1>4. CASE Ring!Pop
  <2>1. /\ RingOK(slots, nextPush, (nextPop + 1) % Len(slots), count - 1)
        /\ Held(slots, nextPop, count) # <<>>
        /\ Held(slots, (nextPop + 1) % Len(slots), count - 1) = Tail(Held(slots, nextPop, count))
    BY <1>4, PoppedHeld DEF Ring!Pop, RingInv
  <2>2. /\ slots' = slots /\ nextPush' = nextPush /\ count' = count - 1
        /\ nextPop' = (nextPop + 1) % Len(slots)
    BY <1>4 DEF Ring!Pop, Ring!Size
  <2>3. RingInv' /\ Held(slots, nextPop, count)' = Tail(Held(slots, nextPop, count))
    BY <2>1, <2>2 DEF RingInv, Held
  <2> QED
    BY <1>1, <1>2, <2>1, <2>3 DEF Ring!D!Next, Ring!D!Pop
<1>5. CASE Ring!PopFront
  <2> DEFINE h == Held(slots, nextPop, count)
  <2>1. /\ RingOK(slots, (nextPush + Len(slots) - 1) % Len(slots), nextPop, count - 1)
        /\ h # <<>>
        /\ Held(slots, nextPop, count - 1) = SubSeq(h, 1, Len(h) - 1)
    BY <1>5, TakenBackHeld DEF Ring!PopFront, RingInv
  <2>2. /\ slots' = slots /\ nextPop' = nextPop /\ count' = count - 1
        /\ nextPush' = (nextPush + Len(slots) - 1) % Len(slots)
    BY <1>5 DEF Ring!PopFront, Ring!Size
  <2>3. RingInv' /\ h' = SubSeq(h, 1, Len(h) - 1)
    BY <2>1, <2>2 DEF RingInv, Held
  <2> QED
    BY <1>1, <1>2, <2>1, <2>3 DEF Ring!D!Next, Ring!D!PopFront
<1>6. CASE UNCHANGED Ring!vars
  <2>1. RingInv' /\ Held(slots, nextPop, count)' = Held(slots, nextPop, count)
    BY <1>6 DEF Ring!vars, RingInv, Held
  <2> QED
    BY <1>1, <1>2, <2>1
<1> QED
  BY <1>3, <1>4, <1>5, <1>6 DEF Ring!Next

\* The array, the two positions and the count of CircularBuffer always describe a ring: the next
\* element goes right behind the newest, and one slot at least is free.
THEOREM RingInvariant == Ring!StartAssumption => (Ring!Spec => []RingInv)
<1> SUFFICES ASSUME Ring!StartAssumption
             PROVE  Ring!Spec => []RingInv
  OBVIOUS
<1>1. Ring!Init => RingInv
  BY RingInit
<1>2. RingInv /\ [Ring!Next]_Ring!vars => RingInv'
  BY RingStep
<1> QED
  BY <1>1, <1>2, PTL DEF Ring!Spec

\* What validate() asserts, although its calls are commented out in push, pop and pop_front: the
\* two positions and the count agree, and the array is never quite full.
THEOREM RingValid == Ring!StartAssumption => (Ring!Spec => []Ring!Valid)
<1>1. RingInv => Ring!Valid
  <2> SUFFICES ASSUME RingInv
               PROVE  Ring!Valid
    OBVIOUS
  <2> DEFINE n == Len(slots)
             d == nextPush - nextPop + n
  <2>1. /\ n \in Nat \ {0} /\ nextPop \in Nat /\ nextPop < n /\ count \in Nat /\ count < n
        /\ nextPush \in Nat /\ nextPush < n /\ nextPush = Wrapped(nextPop + count, n)
    BY RingNumbers DEF RingInv
  <2>2. d \in Nat /\ d < 2 * n /\ Wrapped(d, n) = count
    BY <2>1 DEF Wrapped
  <2>3. d % n = count
    BY <2>1, <2>2, WrapsRound
  <2> QED
    BY <2>1, <2>3 DEF Ring!Valid, Ring!Size
<1> QED
  BY <1>1, RingInvariant, PTL

\* Through any growth and wrapping, the buffer is the queue it replaces: push, pop and pop_front
\* do to its contents what those of a list do.
THEOREM RingImplements == Ring!StartAssumption => (Ring!Spec => Ring!IsDeque)
<1> SUFFICES ASSUME Ring!StartAssumption
             PROVE  Ring!Spec => Ring!D!Spec
  BY DEF Ring!IsDeque
<1>1. Ring!Init => Ring!D!Init
  BY RingInit DEF Ring!D!Init
<1>2. RingInv /\ [Ring!Next]_Ring!vars => [Ring!D!Next]_Ring!Contents
  BY RingStep
<1> QED
  BY <1>1, <1>2, RingInvariant, PTL DEF Ring!Spec, Ring!D!Spec

-----------------------------------------------------------------------------
(* What a list of sizes sums to. *)

SumSeq(s) == Shared!FoldSeq(+, 0, s)

\* The minimum that the scheduler uses.
LEMMA MinIs ==
    ASSUME NEW S
    PROVE  Shared!Min(S) = Min(S)
  BY DEF Shared!Min, Min

\* The sum over a list is the sum over its places.
LEMMA SumSeqIs ==
    ASSUME NEW s \in Seq(Nat)
    PROVE  SumSeq(s) = SumOf(s, 1 .. Len(s)) /\ IsFiniteSet(1 .. Len(s)) /\ SumSeq(s) \in Nat
<1>1. DOMAIN s = 1 .. Len(s) /\ Len(s) \in Nat
  OBVIOUS
<1>2. SumSeq(s) = SumOf(s, DOMAIN s)
  BY DEF SumSeq, Shared!FoldSeq, Shared!FoldFunction, Shared!FoldFunctionOnSet,
         Shared!MapThenFoldSet,
         SumOf, MapThenSumSet, MapThenFoldSet
<1>3. IsFiniteSet(1 .. Len(s))
  BY <1>1, FS_Interval
<1>4. \A i \in 1 .. Len(s) : s[i] \in Nat
  OBVIOUS
<1>5. SumOf(s, 1 .. Len(s)) \in Nat
  BY <1>3, <1>4, SumOfNat
<1> QED
  BY <1>1, <1>2, <1>3, <1>5

\* An empty list sums to nothing.
LEMMA SumSeqEmpty == SumSeq(<<>>) = 0
<1>1. <<>> \in Seq(Nat) /\ Len(<<>>) = 0 /\ \A i \in 1 .. 0 : <<>>[i] \in Nat
  OBVIOUS
<1>2. SumSeq(<<>>) = SumOf(<<>>, 1 .. 0) /\ IsFiniteSet(1 .. 0)
  BY <1>1, SumSeqIs
<1>3. SumOf(<<>>, 1 .. 0) = 0
  <2>1. \A y \in 1 .. 0 : <<>>[y] = 0
    OBVIOUS
  <2> QED
    BY <1>1, <1>2, <2>1, SumOfNat
<1> QED
  BY <1>2, <1>3

\* The first k + 1 elements sum to the first k and the next.
LEMMA SumSeqNext ==
    ASSUME NEW s, NEW k \in Nat, \A i \in 1 .. k + 1 : s[i] \in Int
    PROVE  SumOf(s, 1 .. k) \in Int /\ SumOf(s, 1 .. k + 1) = SumOf(s, 1 .. k) + s[k + 1]
<1> DEFINE S == 1 .. k
           x == k + 1
<1>1. IsFiniteSet(S)
  BY FS_Interval
<1>2. 1 .. k + 1 = S \cup {x} /\ x \notin S
  OBVIOUS
<1>3. \A i \in S \cup {x} : s[i] \in Int
  BY <1>2
<1> HIDE DEF S, x
<1>4. SumOf(s, S) \in Int /\ SumOf(s, S \cup {x}) = SumOf(s, S) + s[x]
  BY <1>1, <1>2, <1>3, SumOfMore
<1> QED
  BY <1>2, <1>4 DEF S, x

\* What is added at the end of a list is added to its sum.
LEMMA SumSeqAppend ==
    ASSUME NEW s \in Seq(Nat), NEW n \in Nat
    PROVE  SumSeq(Append(s, n)) = SumSeq(s) + n
<1> DEFINE t == Append(s, n)
           k == Len(s)
<1>1. /\ t \in Seq(Nat) /\ Len(t) = k + 1 /\ k \in Nat /\ t[k + 1] = n
      /\ \A i \in 1 .. k : t[i] = s[i] /\ s[i] \in Nat
  BY AppendProperties
<1>2. SumSeq(s) = SumOf(s, 1 .. k) /\ IsFiniteSet(1 .. k)
  BY SumSeqIs
<1> HIDE DEF t, k
<1>3. \A i \in 1 .. k + 1 : t[i] \in Int
  BY <1>1
<1>4. SumOf(t, 1 .. k + 1) = SumOf(t, 1 .. k) + t[k + 1]
  BY <1>1, <1>3, SumSeqNext
<1>5. SumOf(t, 1 .. k) = SumOf(s, 1 .. k)
  <2> DEFINE S == 1 .. k
  <2>1. IsFiniteSet(S) /\ \A i \in S : t[i] \in Int /\ s[i] = t[i]
    BY <1>1, <1>2
  <2> HIDE DEF S
  <2>2. SumOf(t, S) = SumOf(s, S)
    BY <2>1, SumOfSame
  <2> QED
    BY <2>2 DEF S
<1>6. SumSeq(t) = SumOf(t, 1 .. k + 1)
  BY <1>1, SumSeqIs
<1> QED
  BY <1>1, <1>2, <1>4, <1>5, <1>6 DEF t

\* What leaves the front of a list leaves its sum.
LEMMA SumSeqTail ==
    ASSUME NEW s \in Seq(Nat), s # <<>>
    PROVE  /\ SumSeq(Tail(s)) = SumSeq(s) - Head(s)
           /\ Head(s) \in Nat /\ Head(s) <= SumSeq(s)
<1> DEFINE t == Tail(s)
           n == Len(s)
<1>1. /\ n \in Nat /\ n >= 1 /\ t \in Seq(Nat) /\ Len(t) = n - 1 /\ Head(s) = s[1]
      /\ \A i \in 1 .. n - 1 : t[i] = s[i + 1]
      /\ \A i \in 1 .. n : s[i] \in Nat
  BY HeadTailProperties, EmptySeq
<1> DEFINE Bad == {k \in Nat : k < n /\ SumOf(s, 1 .. k + 1) # SumOf(t, 1 .. k) + s[1]}
<1>2. SumSeq(s) = SumOf(s, 1 .. n) /\ SumSeq(t) = SumOf(t, 1 .. n - 1) /\ SumSeq(t) \in Nat
  BY <1>1, SumSeqIs
<1> HIDE DEF t, n
<1>3. Bad = {}
  <2> SUFFICES ASSUME Bad # {}
               PROVE  FALSE
    OBVIOUS
  <2>1. Bad \in SUBSET Nat
    OBVIOUS
  <2>2. PICK k \in Bad : \A j \in Bad : k <= j
    <3> HIDE DEF Bad
    <3> QED
      BY <2>1, LeastNat
  <2>3. k \in Nat /\ k < n /\ SumOf(s, 1 .. k + 1) # SumOf(t, 1 .. k) + s[1]
    OBVIOUS
  <2>  HIDE DEF Bad
  <2>0. s[1] \in Nat /\ \A i \in 1 .. k + 1 : s[i] \in Int
    BY <1>1, <2>3
  <2>4. CASE k = 0
    <3>1. IsFiniteSet({}) /\ 1 .. 1 = {} \cup {1} /\ 1 .. 0 = {}
      BY FS_EmptySet
    <3>2. SumOf(s, {}) = 0 /\ SumOf(t, {}) = 0
      BY <3>1, SumOfNat
    <3>3. SumOf(s, 1 .. 1) = SumOf(s, {}) + s[1]
      <4>1. 1 \notin {} /\ \A y \in {} \cup {1} : s[y] \in Int
        BY <2>0
      <4>2. SumOf(s, {} \cup {1}) = SumOf(s, {}) + s[1]
        BY <3>1, <4>1, SumOfMore
      <4> QED
        BY <3>1, <4>2
    <3>4. k + 1 = 1 /\ s[1] \in Nat
      BY <2>0, <2>4
    <3>5. SumOf(s, 1 .. k + 1) = s[1] /\ SumOf(t, 1 .. k) = 0
      BY <2>4, <3>1, <3>2, <3>3, <3>4
    <3> QED
      BY <2>3, <3>4, <3>5
  <2>5. CASE k # 0
    <3> DEFINE j == k - 1
    <3>1. j \in Nat /\ j < n /\ ~ (k <= j) /\ j + 1 = k
      BY <1>1, <2>3, <2>5
    <3> HIDE DEF j
    <3>2. SumOf(s, 1 .. j + 1) = SumOf(t, 1 .. j) + s[1]
      <4>1. j \notin Bad
        BY <2>2, <3>1
      <4> QED
        BY <3>1, <4>1 DEF Bad
    <3>3. SumOf(s, 1 .. k + 1) = SumOf(s, 1 .. k) + s[k + 1] /\ SumOf(s, 1 .. k) \in Int
      BY <2>0, <2>3, SumSeqNext
    <3>4. SumOf(t, 1 .. j + 1) = SumOf(t, 1 .. j) + t[j + 1] /\ SumOf(t, 1 .. j) \in Int
      <4>1. \A i \in 1 .. j + 1 : t[i] \in Int
        BY <1>1, <2>3, <3>1
      <4> QED
        BY <3>1, <4>1, SumSeqNext
    <3>5. t[j + 1] = s[k + 1] /\ s[k + 1] \in Int /\ s[1] \in Int
      <4>1. k \in 1 .. n - 1 /\ k + 1 \in 1 .. k + 1
        BY <1>1, <2>3, <2>5
      <4> QED
        BY <1>1, <2>0, <3>1, <4>1
    <3> QED
      BY <2>3, <3>1, <3>2, <3>3, <3>4, <3>5
  <2> QED
    BY <2>4, <2>5
<1>4. SumOf(s, 1 .. n) = SumOf(t, 1 .. n - 1) + s[1]
  <2>1. n - 1 \in Nat /\ n - 1 < n /\ n - 1 + 1 = n
    BY <1>1
  <2>2. n - 1 \notin Bad
    BY <1>3
  <2> QED
    BY <2>1, <2>2
<1>5. s[1] \in Nat
  BY <1>1
<1> QED
  BY <1>1, <1>2, <1>4, <1>5 DEF t

-----------------------------------------------------------------------------
(* The scheduler, for any lists, tokens and last turn. *)

Stored == (Sizes \cup {TrimSize}) \ {0}
Queues == [Shared!Classes -> Seq(Stored)]
Tokens == [Shared!Classes -> Nat]
WithinCaps(u) == \A c \in Shared!Classes : u[c] <= CapFactor * Weight[c]
SharedAssumptions ==
  /\ Shared!SizeAssumption
  /\ Shared!ShareAssumption
  /\ Shared!WeightAssumption
  /\ Shared!PairAssumption

\* There are finitely many ports.
LEMMA PortsFinite ==
    ASSUME SharedAssumptions
    PROVE  IsFiniteSet(Ports)
<1>1. Shared!IsFiniteSet(Ports)
  BY DEF SharedAssumptions, Shared!SizeAssumption
<1> QED
  BY <1>1 DEF Shared!IsFiniteSet, IsFiniteSet

\* The packets that a queue stores have positive sizes.
LEMMA StoredSizes ==
    ASSUME SharedAssumptions
    PROVE  Stored \subseteq Nat \ {0} /\ Seq(Stored) \subseteq Seq(Nat)
<1>1. Stored \subseteq Nat \ {0}
  BY DEF Stored, SharedAssumptions, Shared!SizeAssumption
<1>2. ASSUME NEW s \in Seq(Stored)
      PROVE  s \in Seq(Nat)
  <2>1. Len(s) \in Nat /\ s \in [1 .. Len(s) -> Stored]
    OBVIOUS
  <2>2. \A i \in 1 .. Len(s) : s[i] \in Nat
    BY <1>1, <2>1
  <2>3. s \in [1 .. Len(s) -> Nat]
    BY <2>1, <2>2
  <2> QED
    BY <2>1, <2>3, IsASeq
<1> QED
  BY <1>1, <1>2

\* The packet at the front is one that was stored.
LEMMA HeadIs ==
    ASSUME SharedAssumptions, NEW q \in Queues, NEW c \in Shared!Classes, q[c] # <<>>
    PROVE  Head(q[c]) \in Stored /\ Head(q[c]) \in Nat \ {0} /\ Tail(q[c]) \in Seq(Stored)
<1>1. q[c] \in Seq(Stored)
  BY DEF Queues
<1>2. Head(q[c]) \in Stored /\ Tail(q[c]) \in Seq(Stored)
  BY <1>1, HeadTailProperties
<1> QED
  BY <1>2, StoredSizes

\* A round of three turns passes every class.
LEMMA TurnPasses ==
    ASSUME NEW l \in Shared!Classes
    PROVE  /\ \A i \in 1 .. 3 : Shared!Turn(l, i) \in Shared!Classes
           /\ \A c \in Shared!Classes : \E i \in 1 .. 3 : Shared!Turn(l, i) = c
<1>1. l \in {0, 1, 2} /\ 1 .. 3 = {1, 2, 3} /\ Shared!Classes = {0, 1, 2}
  BY DEF Shared!Classes
<1>2. /\ Shared!Turn(0, 1) = 1 /\ Shared!Turn(0, 2) = 2 /\ Shared!Turn(0, 3) = 0
      /\ Shared!Turn(1, 1) = 2 /\ Shared!Turn(1, 2) = 0 /\ Shared!Turn(1, 3) = 1
      /\ Shared!Turn(2, 1) = 0 /\ Shared!Turn(2, 2) = 1 /\ Shared!Turn(2, 3) = 2
  BY DEF Shared!Turn
<1> QED
  BY <1>1, <1>2

\* The turn finds a class that can pay exactly if there is one.
LEMMA TryFinds ==
    ASSUME NEW q, NEW t, NEW l \in Shared!Classes
    PROVE  \/ Shared!TrySelect(q, t, l) = -1 /\ \A c \in Shared!Classes : ~ Shared!Payable(q, t, c)
           \/ /\ Shared!TrySelect(q, t, l) \in Shared!Classes
              /\ Shared!Payable(q, t, Shared!TrySelect(q, t, l))
<1> DEFINE able == {i \in 1 .. 3 : Shared!Payable(q, t, Shared!Turn(l, i))}
<1>1. CASE able = {}
  <2>1. Shared!TrySelect(q, t, l) = -1
    BY <1>1 DEF Shared!TrySelect
  <2> QED
    BY <1>1, <2>1, TurnPasses
<1>2. CASE able # {}
  <2>1. Shared!TrySelect(q, t, l) = Shared!Turn(l, Min(able))
    BY <1>2, MinIs DEF Shared!TrySelect
  <2>2. /\ able \in SUBSET Nat
        /\ \A i \in able : i \in 1 .. 3 /\ Shared!Payable(q, t, Shared!Turn(l, i))
    OBVIOUS
  <2> HIDE DEF able
  <2>3. Min(able) \in able
    BY <1>2, <2>2, MinNat
  <2> QED
    BY <2>1, <2>2, <2>3, TurnPasses
<1> QED
  BY <1>1, <1>2

\* A refresh gives a class its weight, up to its cap.
LEMMA RefreshGives ==
    ASSUME SharedAssumptions, NEW t \in Tokens
    PROVE  /\ Shared!Refreshed(t) \in Tokens /\ WithinCaps(Shared!Refreshed(t))
           /\ \A c \in Shared!Classes :
                /\ CapFactor * Weight[c] \in Nat
                /\ Shared!Refreshed(t)[c] = IF t[c] + Weight[c] <= CapFactor * Weight[c]
                                     THEN t[c] + Weight[c] ELSE CapFactor * Weight[c]
<1>1. ASSUME NEW c \in Shared!Classes
      PROVE  /\ CapFactor * Weight[c] \in Nat
             /\ Shared!Refreshed(t)[c] = IF t[c] + Weight[c] <= CapFactor * Weight[c]
                                  THEN t[c] + Weight[c] ELSE CapFactor * Weight[c]
             /\ Shared!Refreshed(t)[c] \in Nat /\ Shared!Refreshed(t)[c] <= CapFactor * Weight[c]
  <2>1. t[c] \in Nat /\ Weight[c] \in Nat /\ CapFactor \in Nat
    BY DEF Tokens, SharedAssumptions, Shared!WeightAssumption
  <2> DEFINE m == t[c] + Weight[c]
             n == Weight[c] * CapFactor
  <2>2. m \in Nat /\ n \in Nat /\ n = CapFactor * Weight[c]
    BY <2>1
  <2>3. Shared!Refreshed(t)[c] = Min({m, n})
    BY MinIs DEF Shared!Refreshed
  <2> HIDE DEF m, n
  <2>4. Min({m, n}) = IF m <= n THEN m ELSE n
    BY <2>2, MinInts
  <2>5. /\ Shared!Refreshed(t)[c] \in Nat /\ Shared!Refreshed(t)[c] <= n
        /\ Shared!Refreshed(t)[c] = IF m <= n THEN m ELSE n
    BY <2>2, <2>3, <2>4
  <2> QED
    BY <2>2, <2>5 DEF m
<1>2. Shared!Refreshed(t) = [c \in Shared!Classes |-> Shared!Refreshed(t)[c]]
  BY DEF Shared!Refreshed
<1> QED
  BY <1>1, <1>2 DEF Tokens, WithinCaps

\* The tokens before the chosen packet is paid for: those there were, or refreshed
\* ones if no class could pay.
Bought(q, t, u) ==
  \/ u = t
  \/ u = Shared!Refreshed(t) /\ \A c \in Shared!Classes : ~ Shared!Payable(q, t, c)

\* What the scheduler returns.
LEMMA SelectGives ==
    ASSUME SharedAssumptions, NEW q \in Queues, NEW t \in Tokens, WithinCaps(t),
           NEW l \in Shared!Classes
    PROVE  LET s == Shared!Select(q, t, l)
           IN  /\ s.class \in Shared!Classes /\ s.ok \in BOOLEAN
               /\ s.tokens \in Tokens /\ WithinCaps(s.tokens)
               /\ s.ok => /\ q[s.class] # <<>>
                          /\ \E u \in Tokens :
                               /\ Bought(q, t, u) /\ WithinCaps(u)
                               /\ s.tokens = [u EXCEPT ![s.class] = @ - Head(q[s.class])]
               /\ ~ s.ok => \A c \in Shared!Classes : ~ Shared!Payable(q, Shared!Refreshed(t), c)
<1> DEFINE s == Shared!Select(q, t, l)
           first == Shared!TrySelect(q, t, l)
           fresh == Shared!Refreshed(t)
           second == Shared!TrySelect(q, fresh, l)
           paid(u, c) == [u EXCEPT ![c] = @ - Head(q[c])]
<1>1. fresh \in Tokens /\ WithinCaps(fresh)
  BY RefreshGives
<1>2. ASSUME NEW u \in Tokens, WithinCaps(u), NEW c \in Shared!Classes, Shared!Payable(q, u, c)
      PROVE  paid(u, c) \in Tokens /\ WithinCaps(paid(u, c)) /\ q[c] # <<>>
  <2>1. q[c] # <<>> /\ u[c] >= Head(q[c])
    BY <1>2 DEF Shared!Payable
  <2>2. Head(q[c]) \in Nat
    BY <2>1, HeadIs
  <2>3. u[c] - Head(q[c]) \in Nat /\ u[c] - Head(q[c]) <= u[c]
    BY <2>1, <2>2 DEF Tokens
  <2>4. \A d \in Shared!Classes : u[d] \in Nat /\ CapFactor * Weight[d] \in Nat
    BY RefreshGives DEF Tokens
  <2>5. \A d \in Shared!Classes : paid(u, c)[d] = IF d = c THEN u[c] - Head(q[c]) ELSE u[d]
    BY DEF Tokens
  <2>6. paid(u, c) \in [Shared!Classes -> Nat]
    BY <2>3 DEF Tokens
  <2>7. \A d \in Shared!Classes : paid(u, c)[d] <= u[d]
    BY <2>3, <2>4, <2>5
  <2> HIDE DEF paid
  <2>8. \A d \in Shared!Classes : paid(u, c)[d] \in Nat
    BY <2>6
  <2>9. \A d \in Shared!Classes : paid(u, c)[d] <= CapFactor * Weight[d]
    BY <1>2, <2>4, <2>7, <2>8 DEF WithinCaps
  <2> QED
    BY <2>1, <2>6, <2>9 DEF Tokens, WithinCaps
<1>3. CASE first # -1
  <2>1. s = [class |-> first, tokens |-> paid(t, first), ok |-> TRUE]
    BY <1>3 DEF Shared!Select
  <2>2. first \in Shared!Classes /\ Shared!Payable(q, t, first)
    BY <1>3, TryFinds
  <2> HIDE DEF first
  <2>3. paid(t, first) \in Tokens /\ WithinCaps(paid(t, first)) /\ q[first] # <<>>
    BY <1>2, <2>2
  <2>4. Bought(q, t, t)
    BY DEF Bought
  <2>5. s.class = first /\ s.ok = TRUE /\ s.tokens = paid(t, first)
    BY <2>1
  <2> HIDE DEF s
  <2> QED
    BY <2>2, <2>3, <2>4, <2>5 DEF s
<1>4. CASE first = -1 /\ second # -1
  <2>1. s = [class |-> second, tokens |-> paid(fresh, second), ok |-> TRUE]
    BY <1>4 DEF Shared!Select
  <2>2. \A c \in Shared!Classes : ~ Shared!Payable(q, t, c)
    <3>1. -1 \notin Shared!Classes
      BY DEF Shared!Classes
    <3> QED
      BY <1>4, <3>1, TryFinds
  <2>3. second \in Shared!Classes /\ Shared!Payable(q, fresh, second)
    <3> HIDE DEF fresh
    <3> QED
      BY <1>4, TryFinds
  <2>4. Bought(q, t, fresh)
    BY <2>2 DEF Bought
  <2> HIDE DEF second, fresh
  <2>5. paid(fresh, second) \in Tokens /\ WithinCaps(paid(fresh, second)) /\ q[second] # <<>>
    BY <1>1, <1>2, <2>3
  <2>6. s.class = second /\ s.ok = TRUE /\ s.tokens = paid(fresh, second)
    BY <2>1
  <2> HIDE DEF s
  <2> QED
    BY <1>1, <2>3, <2>4, <2>5, <2>6 DEF s
<1>5. CASE first = -1 /\ second = -1
  <2>1. s = [class |-> l, tokens |-> fresh, ok |-> FALSE]
    BY <1>5 DEF Shared!Select
  <2>2. \A c \in Shared!Classes : ~ Shared!Payable(q, fresh, c)
    <3>1. -1 \notin Shared!Classes
      BY DEF Shared!Classes
    <3> HIDE DEF fresh
    <3> QED
      BY <1>5, <3>1, TryFinds
  <2>3. s.class = l /\ s.ok = FALSE /\ s.tokens = fresh
    BY <2>1
  <2> HIDE DEF s
  <2> QED
    BY <1>1, <2>2, <2>3 DEF s
<1> QED
  BY <1>3, <1>4, <1>5

-----------------------------------------------------------------------------
(* The accounts of the buffer. *)

\* No class may take more of what is left of the buffer than there is.
SmallShares == \A c \in Shared!Classes : Alpha[c][1] <= Alpha[c][2]

PortBytes == [p \in Ports |-> Shared!Sum3(bytes[p])]

\* Types; every count is a sum; no more is held than the buffer has; while no
\* exception has been thrown, a port that holds packets has chosen one to send.
SharedTypes ==
  /\ queue \in [Ports -> Queues] /\ bytes \in [Ports -> [Shared!Classes -> Nat]] /\ used \in Nat
  /\ tokens \in [Ports -> Tokens] /\ last \in [Ports -> Shared!Classes]
  /\ chosen \in [Ports -> Shared!Classes]
  /\ lead \in [Ports -> [Pairs -> Int]] /\ error \in {"none", "tokens"}
SharedCounts ==
  /\ \A p \in Ports : WithinCaps(tokens[p])
  /\ \A p \in Ports, c \in Shared!Classes : bytes[p][c] = SumSeq(queue[p][c])
  /\ used = SumOf(PortBytes, Ports) /\ used <= Buffer
Choosing == error = "none" => \A p \in Ports : ~ Shared!Empty(p) => queue[p][chosen[p]] # <<>>
SharedInv == SharedTypes /\ SharedCounts /\ Choosing

\* The bytes of a port are those of its classes, and none if every class has none.
LEMMA SumOfThree ==
    ASSUME NEW b \in [Shared!Classes -> Nat]
    PROVE  /\ Shared!Sum3(b) \in Nat /\ \A c \in Shared!Classes : b[c] <= Shared!Sum3(b)
           /\ Shared!Sum3(b) = 0 <=> \A c \in Shared!Classes : b[c] = 0
<1>1. Shared!Classes = {0, 1, 2}
  BY DEF Shared!Classes
<1>2. b[0] \in Nat /\ b[1] \in Nat /\ b[2] \in Nat
  BY <1>1
<1>3. Shared!Sum3(b) = b[0] + b[1] + b[2]
  BY DEF Shared!Sum3
<1>4. \A c \in Shared!Classes : c = 0 \/ c = 1 \/ c = 2
  BY <1>1
<1> QED
  BY <1>1, <1>2, <1>3, <1>4

\* When one class changes, its port changes by as much.
LEMMA SumOfThreeChange ==
    ASSUME NEW b \in [Shared!Classes -> Nat], NEW c \in Shared!Classes, NEW n \in Nat
    PROVE  Shared!Sum3([b EXCEPT ![c] = n]) = Shared!Sum3(b) + n - b[c]
<1>1. Shared!Classes = {0, 1, 2}
  BY DEF Shared!Classes
<1>2. b[0] \in Nat /\ b[1] \in Nat /\ b[2] \in Nat
  BY <1>1
<1>3. CASE c = 0
  BY <1>1, <1>2, <1>3 DEF Shared!Sum3
<1>4. CASE c = 1
  BY <1>1, <1>2, <1>4 DEF Shared!Sum3
<1>5. CASE c = 2
  BY <1>1, <1>2, <1>5 DEF Shared!Sum3
<1> QED
  BY <1>1, <1>3, <1>4, <1>5

\* A port holds no bytes exactly if it holds no packet.
LEMMA EmptyPort ==
    ASSUME SharedAssumptions, NEW q \in Queues, NEW b \in [Shared!Classes -> Nat],
           \A c \in Shared!Classes : b[c] = SumSeq(q[c])
    PROVE  Shared!Sum3(b) = 0 <=> \A c \in Shared!Classes : q[c] = <<>>
<1>1. ASSUME NEW c \in Shared!Classes
      PROVE  b[c] = 0 <=> q[c] = <<>>
  <2>1. CASE q[c] = <<>>
    BY <2>1, SumSeqEmpty
  <2>2. CASE q[c] # <<>>
    <3>1. q[c] \in Seq(Nat)
      BY StoredSizes DEF Queues
    <3>2. Head(q[c]) <= SumSeq(q[c]) /\ Head(q[c]) \in Nat \ {0}
      BY <2>2, <3>1, HeadIs, SumSeqTail
    <3>3. b[c] \in Nat /\ b[c] = SumSeq(q[c])
      OBVIOUS
    <3> HIDE DEF SumSeq
    <3> QED
      BY <2>2, <3>2, <3>3
  <2> QED
    BY <2>1, <2>2
<1> QED
  BY <1>1, SumOfThree

\* A packet that is admitted fits.
LEMMA AdmittedFits ==
    ASSUME SharedAssumptions, SmallShares, SharedInv, NEW p \in Ports, NEW c \in Shared!Classes,
           NEW n \in Nat,
           Shared!CanStore(p, c, n)
    PROVE  used + n <= Buffer
<1> DEFINE j == Alpha[c][1]
           k == Alpha[c][2]
           x == bytes[p][c] + n
           y == Buffer - used
<1>1. j \in Nat /\ k \in Nat \ {0} /\ j <= k
  <2>1. Alpha[c] \in (Nat \ {0}) \X (Nat \ {0})
    BY DEF SharedAssumptions, Shared!ShareAssumption
  <2>2. Alpha[c][1] \in Nat \ {0} /\ Alpha[c][2] \in Nat \ {0}
    BY <2>1
  <2> QED
    BY <2>2 DEF SmallShares
<1>2. x \in Nat /\ y \in Nat /\ n <= x /\ used \in Nat /\ Buffer \in Nat
  BY DEF SharedInv, SharedTypes, SharedCounts, SharedAssumptions, Shared!SizeAssumption
<1>3. k * x <= j * y
  BY DEF Shared!CanStore
<1>4. used + n <= Buffer <=> n <= y
  BY <1>2
<1> HIDE DEF j, k, x, y
<1>5. ASSUME x > y
      PROVE  FALSE
  <2>1. PICK d \in Nat : x = y + 1 + d
    <3>1. x - y - 1 \in Nat /\ x = y + 1 + (x - y - 1)
      BY <1>2, <1>5
    <3> QED
      BY <3>1
  <2>2. PICK e \in Nat : k = j + e
    <3>1. k - j \in Nat /\ k = j + (k - j)
      BY <1>1
    <3> QED
      BY <3>1
  <2>3. k * x = k * y + k + k * d
    BY <1>1, <1>2, <2>1
  <2>4. k * y = j * y + e * y
    BY <1>1, <1>2, <2>2
  <2>5. e * y \in Nat /\ k * d \in Nat /\ j * y \in Nat
    BY <1>1, <1>2, <2>1, <2>2
  <2> QED
    BY <1>1, <1>3, <2>3, <2>4, <2>5
<1> QED
  BY <1>2, <1>4, <1>5

\* A service that begins.
LEMMA ServiceBegins ==
    ASSUME SharedAssumptions, SharedInv, NEW p \in Ports, NEW q \in Queues,
           Shared!BeginService(p, q)
    PROVE  /\ tokens' \in [Ports -> Tokens] /\ last' \in [Ports -> Shared!Classes]
           /\ chosen' \in [Ports -> Shared!Classes]
           /\ \A r \in Ports : WithinCaps(tokens'[r])
           /\ \A r \in Ports : r # p => chosen'[r] = chosen[r]
           /\ Shared!Select(q, tokens[p], last[p]).ok => q[chosen'[p]] # <<>>
<1> DEFINE s == Shared!Select(q, tokens[p], last[p])
<1>1. /\ tokens \in [Ports -> Tokens] /\ last \in [Ports -> Shared!Classes]
      /\ chosen \in [Ports -> Shared!Classes] /\ \A r \in Ports : WithinCaps(tokens[r])
  BY DEF SharedInv, SharedTypes, SharedCounts
<1>2. tokens[p] \in Tokens /\ WithinCaps(tokens[p]) /\ last[p] \in Shared!Classes
  BY <1>1
<1>3. /\ s.class \in Shared!Classes /\ s.ok \in BOOLEAN /\ s.tokens \in Tokens
      /\ WithinCaps(s.tokens)
      /\ s.ok => q[s.class] # <<>>
  <2> DEFINE t == tokens[p]
             l == last[p]
  <2>1. t \in Tokens /\ WithinCaps(t) /\ l \in Shared!Classes /\ s = Shared!Select(q, t, l)
    BY <1>2
  <2> HIDE DEF t, l, s
  <2> QED
    BY <2>1, SelectGives
<1>4. /\ tokens' = [tokens EXCEPT ![p] = s.tokens]
      /\ last' = [last EXCEPT ![p] = s.class]
      /\ chosen' = [chosen EXCEPT ![p] = IF s.ok THEN s.class ELSE @]
  BY DEF Shared!BeginService
<1> HIDE DEF s
<1>5. \A r \in Ports : tokens'[r] = IF r = p THEN s.tokens ELSE tokens[r]
  BY <1>1, <1>4
<1>6. \A r \in Ports : WithinCaps(tokens'[r])
  <2> SUFFICES ASSUME NEW r \in Ports
               PROVE  WithinCaps(tokens'[r])
    OBVIOUS
  <2>1. tokens'[r] = IF r = p THEN s.tokens ELSE tokens[r]
    BY <1>5
  <2> QED
    BY <1>1, <1>3, <2>1
<1>7. s.ok => chosen'[p] = s.class
  BY <1>1, <1>4
<1> QED
  BY <1>1, <1>3, <1>4, <1>6, <1>7 DEF s

\* The sum of all ports when one changes.
LEMMA SumOfNatChange ==
    ASSUME NEW S, IsFiniteSet(S), NEW g, NEW h, \A r \in S : g[r] \in Nat /\ h[r] \in Nat,
           NEW p \in S, \A r \in S : r # p => h[r] = g[r]
    PROVE  SumOf(g, S) \in Nat /\ SumOf(h, S) \in Nat /\ SumOf(h, S) = SumOf(g, S) + h[p] - g[p]
<1>1. \A r \in S : g[r] \in Int
  OBVIOUS
<1>2. \A r \in S : h[r] \in Int
  OBVIOUS
<1>3. SumOf(g, S) \in Nat /\ SumOf(h, S) \in Nat
  BY SumOfNat
<1> QED
  BY <1>1, <1>2, <1>3, SumOfChange

PortBytesIn(b) == [p \in Ports |-> Shared!Sum3(b[p])]

\* When one class of one port changes, the sum over the ports changes by as much.
LEMMA PortBytesChange ==
    ASSUME IsFiniteSet(Ports), NEW p \in Ports, NEW x \in [Ports -> [Shared!Classes -> Nat]],
           NEW y \in [Ports -> [Shared!Classes -> Nat]], \A r \in Ports : r # p => y[r] = x[r]
    PROVE  /\ SumOf(PortBytesIn(x), Ports) \in Nat /\ SumOf(PortBytesIn(y), Ports) \in Nat
           /\ SumOf(PortBytesIn(y), Ports) = SumOf(PortBytesIn(x), Ports)
                                             + Shared!Sum3(y[p]) - Shared!Sum3(x[p])
<1> DEFINE g == PortBytesIn(x)
           h == PortBytesIn(y)
<1>1. \A r \in Ports : Shared!Sum3(x[r]) \in Nat /\ Shared!Sum3(y[r]) \in Nat
  BY SumOfThree
<1>2. \A r \in Ports : g[r] = Shared!Sum3(x[r]) /\ h[r] = Shared!Sum3(y[r])
  BY DEF PortBytesIn
<1> HIDE DEF g, h
<1>3. \A r \in Ports : g[r] \in Nat /\ h[r] \in Nat
  BY <1>1, <1>2
<1>4. \A r \in Ports : r # p => h[r] = g[r]
  BY <1>2
<1>5. /\ SumOf(g, Ports) \in Nat /\ SumOf(h, Ports) \in Nat
      /\ SumOf(h, Ports) = SumOf(g, Ports) + h[p] - g[p]
  BY <1>3, <1>4, SumOfNatChange
<1> QED
  BY <1>2, <1>5 DEF g, h

\* What a step that changes one port must bring with it.
LEMMA PortStep ==
    ASSUME SharedAssumptions, SharedInv, error = "none", NEW p \in Ports, NEW q \in Queues,
           NEW b \in [Shared!Classes -> Nat], \A c \in Shared!Classes : b[c] = SumSeq(q[c]),
           queue' = [queue EXCEPT ![p] = q], bytes' = [bytes EXCEPT ![p] = b],
           used' = used + Shared!Sum3(b) - Shared!Sum3(bytes[p]), used' <= Buffer,
           error' \in {"none", "tokens"}, lead' \in [Ports -> [Pairs -> Int]],
           tokens' \in [Ports -> Tokens], last' \in [Ports -> Shared!Classes],
           chosen' \in [Ports -> Shared!Classes], \A r \in Ports : WithinCaps(tokens'[r]),
           \A r \in Ports : r # p => chosen'[r] = chosen[r],
           error' = "none" /\ Shared!Sum3(b) # 0 => q[chosen'[p]] # <<>>
    PROVE  SharedInv'
<1>1. /\ queue \in [Ports -> Queues] /\ bytes \in [Ports -> [Shared!Classes -> Nat]]
      /\ \A r \in Ports, c \in Shared!Classes : bytes[r][c] = SumSeq(queue[r][c])
      /\ used = SumOf(PortBytes, Ports) /\ IsFiniteSet(Ports)
      /\ \A r \in Ports : ~ Shared!Empty(r) => queue[r][chosen[r]] # <<>>
  BY PortsFinite DEF SharedInv, SharedTypes, SharedCounts, Choosing
<1>2. /\ queue' \in [Ports -> Queues] /\ bytes' \in [Ports -> [Shared!Classes -> Nat]]
      /\ \A r \in Ports : queue'[r] = IF r = p THEN q ELSE queue[r]
      /\ \A r \in Ports : bytes'[r] = IF r = p THEN b ELSE bytes[r]
  BY <1>1
<1>3. PortBytes = PortBytesIn(bytes) /\ PortBytes' = PortBytesIn(bytes')
  BY DEF PortBytes, PortBytesIn
<1>4. used' = SumOf(PortBytes', Ports) /\ used' \in Nat
  <2>1. bytes'[p] = b /\ Shared!Sum3(b) \in Nat /\ Shared!Sum3(bytes[p]) \in Nat
    BY <1>1, <1>2, SumOfThree
  <2>2. PICK x, y : x = bytes /\ y = bytes'
    OBVIOUS
  <2>3. /\ SumOf(PortBytesIn(x), Ports) \in Nat /\ SumOf(PortBytesIn(y), Ports) \in Nat
        /\ SumOf(PortBytesIn(y), Ports) = SumOf(PortBytesIn(x), Ports)
                                          + Shared!Sum3(y[p]) - Shared!Sum3(x[p])
    BY <1>1, <1>2, <2>2, PortBytesChange
  <2> QED
    BY <1>1, <1>3, <2>1, <2>2, <2>3
<1>5. SharedTypes'
  BY <1>2, <1>4 DEF SharedTypes
<1>6. \A r \in Ports, c \in Shared!Classes : bytes'[r][c] = SumSeq(queue'[r][c])
  <2> SUFFICES ASSUME NEW r \in Ports, NEW c \in Shared!Classes
               PROVE  bytes'[r][c] = SumSeq(queue'[r][c])
    OBVIOUS
  <2>1. CASE r = p
    BY <1>2, <2>1
  <2>2. CASE r # p
    BY <1>1, <1>2, <2>2
  <2> QED
    BY <2>1, <2>2
<1>7. SharedCounts'
  BY <1>4, <1>6 DEF SharedCounts, WithinCaps
<1>8. ASSUME error' = "none", NEW r \in Ports, ~ Shared!Empty(r)'
      PROVE  queue'[r][chosen'[r]] # <<>>
  <2>1. CASE r = p
    BY <1>2, <1>8, <2>1 DEF Shared!Empty
  <2>2. CASE r # p
    <3>1. ~ Shared!Empty(r) /\ queue'[r] = queue[r] /\ chosen'[r] = chosen[r]
      BY <1>2, <1>8, <2>2 DEF Shared!Empty
    <3> QED
      BY <1>1, <3>1
  <2> QED
    BY <2>1, <2>2
<1>9. Choosing'
  BY <1>8 DEF Choosing
<1> QED
  BY <1>5, <1>7, <1>9 DEF SharedInv

\* The port that a packet is put into.
LEMMA PortAfterArrival ==
    ASSUME SharedAssumptions, SharedInv, NEW p \in Ports, NEW c \in Shared!Classes, NEW n \in Stored
    PROVE  LET q == [queue[p] EXCEPT ![c] = Append(@, n)]
               b == [bytes[p] EXCEPT ![c] = @ + n]
           IN  /\ q \in Queues /\ b \in [Shared!Classes -> Nat]
               /\ \A d \in Shared!Classes : b[d] = SumSeq(q[d])
               /\ Shared!Sum3(b) = Shared!Sum3(bytes[p]) + n
               /\ \A d \in Shared!Classes :
                      queue[p][d] # <<>> => q[d] # <<>> /\ Head(q[d]) = Head(queue[p][d])
               /\ \A d \in Shared!Classes : q[d] = <<>> => queue[p][d] = <<>>
<1> DEFINE o == queue[p]
           x == bytes[p]
           q == [o EXCEPT ![c] = Append(@, n)]
           b == [x EXCEPT ![c] = @ + n]
<1>1. o \in Queues /\ x \in [Shared!Classes -> Nat] /\ \A d \in Shared!Classes : x[d] = SumSeq(o[d])
  BY DEF SharedInv, SharedTypes, SharedCounts
<1>2. n \in Nat \ {0}
  BY StoredSizes
<1> HIDE DEF o, x
<1>3. \A d \in Shared!Classes : o[d] \in Seq(Stored) /\ o[d] \in Seq(Nat)
  BY <1>1, StoredSizes DEF Queues
<1>4. /\ Append(o[c], n) \in Seq(Stored) /\ Append(o[c], n) # <<>>
      /\ o[c] # <<>> => Head(Append(o[c], n)) = Head(o[c])
  <2> DEFINE s == o[c]
  <2>1. s \in Seq(Stored)
    BY <1>3
  <2> HIDE DEF s
  <2>2. Append(s, n) \in Seq(Stored) /\ Append(s, n) # <<>>
    BY <2>1, AppendProperties
  <2>3. s # <<>> => Head(Append(s, n)) = Head(s)
    BY <2>1
  <2> QED
    BY <2>2, <2>3 DEF s
<1>5. /\ q \in Queues /\ \A d \in Shared!Classes : q[d] = IF d = c THEN Append(o[c], n) ELSE o[d]
  BY <1>1, <1>4 DEF Queues
<1>6. /\ b \in [Shared!Classes -> Nat]
      /\ \A d \in Shared!Classes : b[d] = IF d = c THEN x[c] + n ELSE x[d]
  BY <1>1, <1>2
<1>7. SumSeq(Append(o[c], n)) = SumSeq(o[c]) + n
  BY <1>2, <1>3, SumSeqAppend
<1>8. Shared!Sum3(b) = Shared!Sum3(x) + n
  <2>1. b = [x EXCEPT ![c] = x[c] + n] /\ x[c] \in Nat /\ x[c] + n \in Nat
    BY <1>1, <1>2
  <2>2. Shared!Sum3([x EXCEPT ![c] = x[c] + n]) = Shared!Sum3(x) + (x[c] + n) - x[c]
    <3> DEFINE m == x[c] + n
    <3>1. m \in Nat
      BY <2>1
    <3> HIDE DEF m
    <3>2. Shared!Sum3([x EXCEPT ![c] = m]) = Shared!Sum3(x) + m - x[c]
      BY <1>1, <3>1, SumOfThreeChange
    <3> QED
      BY <3>2 DEF m
  <2>3. Shared!Sum3(x) \in Nat
    BY <1>1, SumOfThree
  <2> HIDE DEF b
  <2> QED
    BY <1>2, <2>1, <2>2, <2>3
<1>9. \A d \in Shared!Classes : b[d] = SumSeq(q[d])
  <2> HIDE DEF q, b
  <2> QED
    BY <1>1, <1>5, <1>6, <1>7
<1>10. \A d \in Shared!Classes : o[d] # <<>> => q[d] # <<>> /\ Head(q[d]) = Head(o[d])
  <2> HIDE DEF q
  <2> QED
    BY <1>4, <1>5
<1>11. \A d \in Shared!Classes : q[d] = <<>> => o[d] = <<>>
  BY <1>10
<1> QED
  BY <1>5, <1>6, <1>8, <1>9, <1>10, <1>11 DEF o, x

\* A packet that is admitted leaves the accounts right.
LEMMA ArrivalCounted ==
    ASSUME SharedAssumptions, SmallShares, SharedInv, error = "none", NEW p \in Ports,
           NEW c \in Shared!Classes, NEW n \in Stored, Shared!CanStore(p, c, n),
           Shared!Enqueue(p, c, n)
    PROVE  /\ SharedInv' /\ used' = used + n
           /\ error' = "none" <=>
                ~ Shared!Empty(p) \/ Shared!Select([queue[p] EXCEPT ![c] = Append(@, n)], tokens[p], last[p]).ok
           /\ IF Shared!Empty(p) THEN Shared!BeginService(p, [queue[p] EXCEPT ![c] = Append(@, n)])
              ELSE UNCHANGED <<tokens, last, chosen>>
<1> DEFINE q == [queue[p] EXCEPT ![c] = Append(@, n)]
           b == [bytes[p] EXCEPT ![c] = @ + n]
           served == ~ Shared!Empty(p) \/ Shared!Select(q, tokens[p], last[p]).ok
<1>1. /\ q \in Queues /\ b \in [Shared!Classes -> Nat]
      /\ \A d \in Shared!Classes : b[d] = SumSeq(q[d])
      /\ Shared!Sum3(b) = Shared!Sum3(bytes[p]) + n
      /\ \A d \in Shared!Classes : queue[p][d] # <<>> => q[d] # <<>>
  BY PortAfterArrival
<1>2. n \in Nat \ {0} /\ used + n <= Buffer
  BY AdmittedFits, StoredSizes
<1>3. /\ queue \in [Ports -> Queues] /\ bytes \in [Ports -> [Shared!Classes -> Nat]] /\ used \in Nat
      /\ tokens \in [Ports -> Tokens] /\ last \in [Ports -> Shared!Classes]
      /\ chosen \in [Ports -> Shared!Classes]
      /\ lead \in [Ports -> [Pairs -> Int]] /\ \A r \in Ports : WithinCaps(tokens[r])
  BY DEF SharedInv, SharedTypes, SharedCounts
<1>4. /\ queue' = [queue EXCEPT ![p] = q] /\ used' = used + n /\ lead' = lead
      /\ error' = IF served THEN "none" ELSE "tokens"
      /\ IF Shared!Empty(p) THEN Shared!BeginService(p, q) ELSE UNCHANGED <<tokens, last, chosen>>
  BY <1>2 DEF Shared!Enqueue
<1>5. bytes' = [bytes EXCEPT ![p] = b]
  BY DEF Shared!Enqueue
<1>6. /\ tokens' \in [Ports -> Tokens] /\ last' \in [Ports -> Shared!Classes]
      /\ chosen' \in [Ports -> Shared!Classes]
      /\ \A r \in Ports : WithinCaps(tokens'[r])
      /\ \A r \in Ports : r # p => chosen'[r] = chosen[r]
      /\ error' = "none" => q[chosen'[p]] # <<>>
  <2>1. CASE Shared!Empty(p)
    <3>1. Shared!BeginService(p, q) /\ error' = "none" => Shared!Select(q, tokens[p], last[p]).ok
      BY <1>4, <2>1
    <3> HIDE DEF q
    <3> QED
      BY <1>1, <1>4, <2>1, <3>1, ServiceBegins
  <2>2. CASE ~ Shared!Empty(p)
    <3>1. tokens' = tokens /\ last' = last /\ chosen' = chosen
      BY <1>4, <2>2
    <3>2. queue[p][chosen[p]] # <<>> /\ chosen[p] \in Shared!Classes
      BY <1>3, <2>2 DEF SharedInv, Choosing
    <3>3. q[chosen[p]] # <<>>
      <4> HIDE DEF q
      <4> QED
        BY <1>1, <3>2
    <3> HIDE DEF q, served
    <3> QED
      BY <1>3, <3>1, <3>3
  <2> QED
    BY <2>1, <2>2
<1>7. used' = used + Shared!Sum3(b) - Shared!Sum3(bytes[p]) /\ used' <= Buffer
  <2>1. Shared!Sum3(bytes[p]) \in Nat
    BY <1>3, SumOfThree
  <2> HIDE DEF b
  <2> QED
    BY <1>1, <1>2, <1>3, <1>4, <2>1
<1> HIDE DEF q, b, served
<1>8. error' \in {"none", "tokens"} /\ lead' \in [Ports -> [Pairs -> Int]]
  BY <1>3, <1>4
<1>9. SharedInv'
  BY <1>1, <1>4, <1>5, <1>6, <1>7, <1>8, PortStep
<1>10. error' = "none" <=> served
  BY <1>4
<1> QED
  BY <1>4, <1>9, <1>10 DEF q, served

\* The port that the chosen packet has left.
LEMMA PortAfterService ==
    ASSUME SharedAssumptions, SharedInv, NEW p \in Ports,
           NEW c \in Shared!Classes, queue[p][c] # <<>>
    PROVE  LET n == Head(queue[p][c])
               q == [queue[p] EXCEPT ![c] = Tail(@)]
               b == [bytes[p] EXCEPT ![c] = @ - n]
           IN  /\ n \in Nat \ {0}
               /\ q \in Queues /\ b \in [Shared!Classes -> Nat]
               /\ \A d \in Shared!Classes : b[d] = SumSeq(q[d])
               /\ Shared!Sum3(b) = Shared!Sum3(bytes[p]) - n
               /\ \A d \in Shared!Classes : q[d] # <<>> => queue[p][d] # <<>>
               /\ \A d \in Shared!Classes : d # c => q[d] = queue[p][d]
<1> DEFINE o == queue[p]
           x == bytes[p]
           n == Head(o[c])
           q == [o EXCEPT ![c] = Tail(@)]
           b == [x EXCEPT ![c] = @ - n]
<1>1. o \in Queues /\ x \in [Shared!Classes -> Nat] /\ \A d \in Shared!Classes : x[d] = SumSeq(o[d])
  BY DEF SharedInv, SharedTypes, SharedCounts
<1>2. o[c] # <<>>
  OBVIOUS
<1> HIDE DEF o, x
<1>3. n \in Nat \ {0} /\ Tail(o[c]) \in Seq(Stored)
  BY <1>1, <1>2, HeadIs
<1>4. o[c] \in Seq(Nat)
  BY <1>1, StoredSizes DEF Queues
<1>5. SumSeq(Tail(o[c])) = SumSeq(o[c]) - n /\ n <= SumSeq(o[c])
  BY <1>2, <1>4, SumSeqTail
<1> HIDE DEF n
<1>6. q \in Queues /\ \A d \in Shared!Classes : q[d] = IF d = c THEN Tail(o[c]) ELSE o[d]
  BY <1>1, <1>3 DEF Queues
<1>7. x[c] \in Nat /\ x[c] - n \in Nat
  <2>1. x[c] \in Nat /\ x[c] = SumSeq(o[c])
    BY <1>1
  <2> HIDE DEF SumSeq
  <2> QED
    BY <1>3, <1>5, <2>1
<1>8. /\ b \in [Shared!Classes -> Nat]
      /\ \A d \in Shared!Classes : b[d] = IF d = c THEN x[c] - n ELSE x[d]
  BY <1>1, <1>7
<1>9. Shared!Sum3(b) = Shared!Sum3(x) - n
  <2> DEFINE m == x[c] - n
  <2>1. m \in Nat /\ b = [x EXCEPT ![c] = m]
    BY <1>1, <1>7
  <2>2. Shared!Sum3(x) \in Nat
    BY <1>1, SumOfThree
  <2> HIDE DEF m, b
  <2>3. Shared!Sum3([x EXCEPT ![c] = m]) = Shared!Sum3(x) + m - x[c]
    BY <1>1, <2>1, SumOfThreeChange
  <2>4. Shared!Sum3(b) = Shared!Sum3(x) + m - x[c]
    BY <2>1, <2>3
  <2> QED
    BY <1>3, <1>7, <2>2, <2>4 DEF m
<1>10. \A d \in Shared!Classes : b[d] = SumSeq(q[d])
  <2> HIDE DEF q, b
  <2> QED
    BY <1>1, <1>5, <1>6, <1>8
<1>11. \A d \in Shared!Classes : (q[d] # <<>> => o[d] # <<>>) /\ (d # c => q[d] = o[d])
  <2> HIDE DEF q
  <2> QED
    BY <1>2, <1>6
<1> QED
  BY <1>3, <1>6, <1>8, <1>9, <1>10, <1>11 DEF o, x, n

\* A packet that leaves gives back what it took.
LEMMA ServiceCounted ==
    ASSUME SharedAssumptions, SharedInv, NEW p \in Ports, Shared!CompleteService(p)
    PROVE  LET c == chosen[p]
               n == Head(queue[p][c])
               q == [queue[p] EXCEPT ![c] = Tail(@)]
               b == [bytes[p] EXCEPT ![c] = @ - n]
           IN  /\ SharedInv' /\ queue[p][c] # <<>>
               /\ IF Shared!Sum3(b) # 0 THEN Shared!BeginService(p, q)
                  ELSE UNCHANGED <<tokens, last, chosen>>
               /\ error' = "none" <=> (Shared!Sum3(b) # 0 => Shared!Select(q, tokens[p], last[p]).ok)
<1> DEFINE c == chosen[p]
           n == Head(queue[p][c])
           q == [queue[p] EXCEPT ![c] = Tail(@)]
           b == [bytes[p] EXCEPT ![c] = @ - n]
<1>1. /\ queue \in [Ports -> Queues] /\ bytes \in [Ports -> [Shared!Classes -> Nat]] /\ used \in Nat
      /\ tokens \in [Ports -> Tokens] /\ last \in [Ports -> Shared!Classes]
      /\ chosen \in [Ports -> Shared!Classes]
      /\ lead \in [Ports -> [Pairs -> Int]] /\ \A r \in Ports : WithinCaps(tokens[r])
      /\ used = SumOf(PortBytes, Ports) /\ used <= Buffer /\ IsFiniteSet(Ports) /\ Buffer \in Nat
      /\ Weight \in [Shared!Classes -> Nat] /\ Pairs \subseteq Shared!Classes \X Shared!Classes
  BY PortsFinite
     DEF SharedInv, SharedTypes, SharedCounts, SharedAssumptions, Shared!SizeAssumption,
         Shared!WeightAssumption, Shared!PairAssumption
<1>2. error = "none" /\ ~ Shared!Empty(p)
  BY DEF Shared!CompleteService
<1>3. queue[p][c] # <<>> /\ c \in Shared!Classes
  BY <1>1, <1>2 DEF SharedInv, Choosing
<1>4. /\ n \in Nat \ {0}
      /\ q \in Queues /\ b \in [Shared!Classes -> Nat]
      /\ \A d \in Shared!Classes : b[d] = SumSeq(q[d])
      /\ Shared!Sum3(b) = Shared!Sum3(bytes[p]) - n
  <2> DEFINE d == chosen[p]
  <2>1. d \in Shared!Classes /\ queue[p][d] # <<>> /\ c = d
    BY <1>3
  <2> HIDE DEF d
  <2> QED
    BY <2>1, PortAfterService
<1>5. Shared!Sum3(b) \in Nat /\ Shared!Sum3(bytes[p]) \in Nat /\ n <= Shared!Sum3(bytes[p])
  <2>1. Shared!Sum3(b) \in Nat /\ Shared!Sum3(bytes[p]) \in Nat
    BY <1>1, <1>4, SumOfThree
  <2> HIDE DEF b, n
  <2> QED
    BY <1>4, <2>1
<1>6. Shared!Sum3(bytes[p]) <= used
  <2>1. \A r \in Ports : PortBytes[r] = Shared!Sum3(bytes[r]) /\ PortBytes[r] \in Nat
    BY <1>1, SumOfThree DEF PortBytes
  <2>2. PICK g : g = PortBytes
    OBVIOUS
  <2>3. IsFiniteSet(Ports) /\ \A r \in Ports : g[r] \in Nat
    BY <1>1, <2>1, <2>2
  <2>4. \A r \in Ports : g[r] <= SumOf(g, Ports)
    BY <2>3, SumOfNat
  <2> QED
    BY <1>1, <2>1, <2>2, <2>4
<1>7. used >= n /\ (Shared!Sum3(bytes[p]) > n <=> Shared!Sum3(b) # 0)
  <2> HIDE DEF b, n
  <2> QED
    BY <1>1, <1>4, <1>5, <1>6
<1>8. /\ queue' = [queue EXCEPT ![p] = q] /\ used' = used - n
      /\ bytes' = [bytes EXCEPT ![p][c] = @ - n]
      /\ error' = IF used < n THEN "underflow"
                  ELSE IF Shared!Sum3(bytes[p]) > n /\ ~ Shared!Select(q, tokens[p], last[p]).ok
                       THEN "tokens" ELSE "none"
      /\ IF Shared!Sum3(bytes[p]) > n THEN Shared!BeginService(p, q)
         ELSE UNCHANGED <<tokens, last, chosen>>
      /\ lead' = [lead EXCEPT ![p] = Shared!Led(p, q, c, n)]
  BY DEF Shared!CompleteService, Shared!Freed
<1>9. bytes' = [bytes EXCEPT ![p] = b]
  BY <1>8
<1>10. lead' \in [Ports -> [Pairs -> Int]]
  <2>1. \A r \in Pairs : lead[p][r] \in Int /\ Weight[r[1]] \in Nat /\ Weight[r[2]] \in Nat
    <3>1. \A r \in Pairs : r[1] \in Shared!Classes /\ r[2] \in Shared!Classes
      BY <1>1
    <3> QED
      BY <1>1, <3>1
  <2>2. \A r \in Pairs :
          lead[p][r] + n * Weight[r[2]] \in Int /\ lead[p][r] - n * Weight[r[1]] \in Int
    <3> HIDE DEF n
    <3> QED
      BY <1>4, <2>1
  <2> HIDE DEF q, c, n
  <2>3. Shared!Led(p, q, c, n) \in [Pairs -> Int]
    BY <2>1, <2>2 DEF Shared!Led
  <2> QED
    BY <1>1, <1>8, <2>3
<1> HIDE DEF c, n, q, b
<1>11. error' = IF Shared!Sum3(b) # 0 /\ ~ Shared!Select(q, tokens[p], last[p]).ok
                   THEN "tokens" ELSE "none"
  BY <1>1, <1>4, <1>7, <1>8
<1>12. IF Shared!Sum3(b) # 0 THEN Shared!BeginService(p, q) ELSE UNCHANGED <<tokens, last, chosen>>
  BY <1>7, <1>8
<1>13. /\ tokens' \in [Ports -> Tokens] /\ last' \in [Ports -> Shared!Classes]
       /\ chosen' \in [Ports -> Shared!Classes]
       /\ \A r \in Ports : WithinCaps(tokens'[r])
       /\ \A r \in Ports : r # p => chosen'[r] = chosen[r]
       /\ error' = "none" /\ Shared!Sum3(b) # 0 => q[chosen'[p]] # <<>>
  <2>1. CASE Shared!Sum3(b) # 0
    <3>1. error' = "none" => Shared!Select(q, tokens[p], last[p]).ok
      BY <1>11, <2>1
    <3> QED
      BY <1>4, <1>12, <2>1, <3>1, ServiceBegins
  <2>2. CASE Shared!Sum3(b) = 0
    BY <1>1, <1>12, <2>2
  <2> QED
    BY <2>1, <2>2
<1>14. used' = used + Shared!Sum3(b) - Shared!Sum3(bytes[p]) /\ used' <= Buffer
  BY <1>1, <1>4, <1>5, <1>8
<1>15. error' \in {"none", "tokens"}
  BY <1>11
<1>16. SharedInv'
  <2>1. /\ q \in Queues /\ b \in [Shared!Classes -> Nat]
        /\ \A d \in Shared!Classes : b[d] = SumSeq(q[d])
    BY <1>4
  <2>2. queue' = [queue EXCEPT ![p] = q] /\ bytes' = [bytes EXCEPT ![p] = b] /\ error = "none"
    BY <1>2, <1>8, <1>9
  <2> QED
    BY <1>10, <1>13, <1>14, <1>15, <2>1, <2>2, PortStep
<1>17. error' = "none" <=> (Shared!Sum3(b) # 0 => Shared!Select(q, tokens[p], last[p]).ok)
  BY <1>11
<1> QED
  BY <1>3, <1>12, <1>16, <1>17 DEF c, n, q, b

\* A packet that arrives is stored, trimmed and stored, or dropped.
LEMMA ReceiveCounted ==
    ASSUME SharedAssumptions, SmallShares, SharedInv, NEW p \in Ports, NEW c \in Offered,
           NEW n \in Sizes,
           Shared!ReceivePacket(p, c, n)
    PROVE  \E d \in Shared!Classes, m \in Stored :
             /\ SharedInv' /\ error = "none" /\ Shared!CanStore(p, d, m) /\ Shared!Enqueue(p, d, m)
             /\ (d = c /\ m = n) \/ (d = Shared!PrioHigh /\ m = TrimSize)
<1>1. c \in Shared!Classes /\ Shared!PrioHigh \in Shared!Classes /\ n \in Stored
  BY DEF SharedAssumptions, Shared!WeightAssumption, Shared!SizeAssumption, Shared!Classes,
         Shared!PrioHigh, Stored
<1>2. PICK a \in Shared!Admitted(p, c, n) : error = "none" /\ Shared!Enqueue(p, a[1], a[2])
  BY DEF Shared!ReceivePacket
<1>3. \/ a = <<c, n>> /\ Shared!CanStore(p, c, n)
      \/ /\ a = <<Shared!PrioHigh, TrimSize>>
         /\ Shared!CanStore(p, Shared!PrioHigh, TrimSize) /\ TrimSize \in Stored
  <2>1. TrimSize > 0 => TrimSize \in Stored
    BY DEF SharedAssumptions, Shared!SizeAssumption, Stored
  <2> QED
    BY <2>1 DEF Shared!Admitted
<1>4. CASE a = <<c, n>> /\ Shared!CanStore(p, c, n)
  <2>1. Shared!Enqueue(p, c, n)
    BY <1>2, <1>4
  <2>2. SharedInv'
    BY <1>1, <1>2, <1>4, <2>1, ArrivalCounted
  <2> QED
    BY <1>1, <1>2, <1>4, <2>1, <2>2
<1>5. CASE /\ a = <<Shared!PrioHigh, TrimSize>>
           /\ Shared!CanStore(p, Shared!PrioHigh, TrimSize) /\ TrimSize \in Stored
  <2>1. Shared!Enqueue(p, Shared!PrioHigh, TrimSize)
    BY <1>2, <1>5
  <2>2. SharedInv'
    BY <1>1, <1>2, <1>5, <2>1, ArrivalCounted
  <2> QED
    BY <1>1, <1>2, <1>5, <2>1, <2>2
<1> QED
  BY <1>3, <1>4, <1>5

\* A step that changes nothing.
LEMMA SharedStays ==
    ASSUME SharedInv, UNCHANGED Shared!vars
    PROVE  SharedInv'
  BY DEF SharedInv, SharedTypes, SharedCounts, Choosing, PortBytes, Shared!Empty, WithinCaps,
         Shared!vars

\* The switch starts empty.
LEMMA SharedStarts ==
    ASSUME SharedAssumptions, Shared!Init, CapFactor >= 1
    PROVE  SharedInv
<1>1. /\ queue = [p \in Ports |-> [c \in Shared!Classes |-> <<>>]]
      /\ bytes = [p \in Ports |-> [c \in Shared!Classes |-> 0]] /\ used = 0 /\ error = "none"
      /\ tokens = [p \in Ports |-> Weight] /\ last = [p \in Ports |-> 2]
      /\ chosen = [p \in Ports |-> 0]
      /\ lead = [p \in Ports |-> [pair \in Pairs |-> 0]]
  BY DEF Shared!Init
<1>2. /\ IsFiniteSet(Ports) /\ Weight \in [Shared!Classes -> Nat] /\ CapFactor \in Nat
      /\ Buffer \in Nat
      /\ 0 \in Shared!Classes /\ 1 \in Shared!Classes /\ 2 \in Shared!Classes
  BY PortsFinite
     DEF SharedAssumptions, Shared!SizeAssumption, Shared!WeightAssumption, Shared!Classes
<1>3. <<>> \in Seq(Stored)
  OBVIOUS
<1>4. SharedTypes
  BY <1>1, <1>2, <1>3 DEF SharedTypes, Queues, Tokens
<1>5. \A p \in Ports : WithinCaps(tokens[p])
  <2>1. ASSUME NEW c \in Shared!Classes
        PROVE  Weight[c] <= CapFactor * Weight[c]
    <3> DEFINE w == Weight[c]
               k == CapFactor
    <3>1. w \in Nat /\ k \in Nat /\ k >= 1
      BY <1>2
    <3> HIDE DEF w, k
    <3>2. k - 1 \in Nat
      BY <3>1
    <3>3. (k - 1) * w \in Nat /\ k * w = (k - 1) * w + w
      BY <3>1, <3>2
    <3>4. w <= k * w
      BY <3>1, <3>3
    <3> QED
      BY <3>4 DEF w, k
  <2> QED
    BY <1>1, <2>1 DEF WithinCaps
<1>6. \A p \in Ports, c \in Shared!Classes : bytes[p][c] = SumSeq(queue[p][c])
  BY <1>1, SumSeqEmpty
<1>7. \A p \in Ports : Shared!Empty(p)
  BY <1>1, <1>2 DEF Shared!Empty, Shared!Sum3
<1>8. used = SumOf(PortBytes, Ports)
  <2>1. \A p \in Ports : PortBytes[p] = 0
    BY <1>7 DEF PortBytes, Shared!Empty
  <2>2. PICK g : g = PortBytes
    OBVIOUS
  <2>3. \A p \in Ports : g[p] = 0 /\ g[p] \in Nat
    BY <2>1, <2>2
  <2>4. SumOf(g, Ports) = 0
    BY <1>2, <2>3, SumOfNat
  <2> QED
    BY <1>1, <2>2, <2>4
<1> QED
  BY <1>1, <1>2, <1>4, <1>5, <1>6, <1>7, <1>8 DEF SharedInv, SharedCounts, Choosing

\* Every step keeps the accounts.
LEMMA SharedKeeps ==
    ASSUME SharedAssumptions, SmallShares, SharedInv, [Shared!Next]_Shared!vars
    PROVE  SharedInv'
<1>1. ASSUME NEW p \in Ports, NEW c \in Offered, NEW n \in Sizes, Shared!ReceivePacket(p, c, n)
      PROVE  SharedInv'
  BY <1>1, ReceiveCounted
<1>2. ASSUME NEW p \in Ports, Shared!CompleteService(p)
      PROVE  SharedInv'
  BY <1>2, ServiceCounted
<1>3. ASSUME UNCHANGED Shared!vars
      PROVE  SharedInv'
  BY <1>3, SharedStays
<1> QED
  BY <1>1, <1>2, <1>3 DEF Shared!Next

\* The accounts of a shared buffer: every count of bytes is the sum of what is queued,
\* the switch's count is the sum over its ports, and a port with packets has chosen one
\* that it has (SharedQueue::enqueuePacket, dequeuePacket, beginService).
THEOREM SharedInvariant ==
    SharedAssumptions /\ SmallShares /\ CapFactor >= 1 => (Shared!Spec => []SharedInv)
<1> SUFFICES ASSUME SharedAssumptions, SmallShares, CapFactor >= 1
             PROVE  Shared!Spec => []SharedInv
  OBVIOUS
<1>1. Shared!Init => SharedInv
  BY SharedStarts
<1>2. SharedInv /\ [Shared!Next]_Shared!vars => SharedInv'
  BY SharedKeeps
<1> QED
  BY <1>1, <1>2, PTL DEF Shared!Spec

\* The sum that BufferAccounted writes out.
LEMMA PortBytesIs ==
    Shared!MapThenSumSet(LAMBDA p : Shared!Sum3(bytes[p]), Ports) = SumOf(PortBytes, Ports)
<1> DEFINE g == PortBytes
           F(u) == u = [s \in SUBSET Ports |-> IF s = {} THEN 0 ELSE
                      Shared!Sum3(bytes[CHOOSE x \in s : TRUE]) + u[s \ {CHOOSE x \in s : TRUE}]]
           G(u) == u = [s \in SUBSET Ports |-> IF s = {} THEN 0 ELSE
                      g[CHOOSE x \in s : TRUE] + u[s \ {CHOOSE x \in s : TRUE}]]
<1>1. Shared!MapThenSumSet(LAMBDA p : Shared!Sum3(bytes[p]), Ports) = (CHOOSE u : F(u))[Ports]
  BY DEF Shared!MapThenSumSet, Shared!MapThenFoldSet
<1>2. SumOf(PortBytes, Ports) = (CHOOSE u : G(u))[Ports]
  BY DEF SumOf, MapThenSumSet, MapThenFoldSet
<1>3. \A s \in SUBSET Ports :
        s # {} => g[CHOOSE x \in s : TRUE] = Shared!Sum3(bytes[CHOOSE x \in s : TRUE])
  BY DEF PortBytes
<1> HIDE DEF g
<1>4. \A u : F(u) <=> G(u)
  BY <1>3
<1> HIDE DEF F, G
<1>5. (CHOOSE u : F(u)) = (CHOOSE u : G(u))
  BY <1>4
<1> QED
  BY <1>1, <1>2, <1>5

\* The buffer is accounted for and never overflows, whatever arrives in any class of any
\* port, as long as no class may take more than what is left ("ensures that the buffer
\* does not overflow", SharedQueue::canStorePacket and SwitchBuffer).
THEOREM SharedAccounts ==
    SharedAssumptions /\ SmallShares /\ CapFactor >= 1 => (Shared!Spec => []Shared!BufferAccounted)
<1> SUFFICES ASSUME SharedAssumptions, SmallShares, CapFactor >= 1
             PROVE  Shared!Spec => []Shared!BufferAccounted
  OBVIOUS
<1>1. SharedInv => Shared!BufferAccounted
  BY PortBytesIs DEF SharedInv, SharedTypes, SharedCounts, Shared!BufferAccounted, SumSeq
<1> QED
  BY <1>1, SharedInvariant, PTL

\* No class of a port ever has more tokens than its cap (DwrrQosScheduler::refreshTokens).
THEOREM SharedTyped ==
    SharedAssumptions /\ SmallShares /\ CapFactor >= 1 => (Shared!Spec => []Shared!TypeOK)
<1> SUFFICES ASSUME SharedAssumptions, SmallShares, CapFactor >= 1
             PROVE  Shared!Spec => []Shared!TypeOK
  OBVIOUS
<1>1. ASSUME SharedInv
      PROVE  Shared!TypeOK
  <2>1. \A p \in Ports, c \in Shared!Classes : queue[p][c] \in Seq(Sizes \cup {TrimSize})
    <3>1. \A p \in Ports, c \in Shared!Classes : queue[p][c] \in Seq(Stored)
      BY <1>1 DEF SharedInv, SharedTypes, Queues
    <3>2. Seq(Stored) \subseteq Seq(Sizes \cup {TrimSize})
      <4> SUFFICES ASSUME NEW s \in Seq(Stored)
                   PROVE  s \in Seq(Sizes \cup {TrimSize})
        OBVIOUS
      <4>1. Len(s) \in Nat /\ s \in [1 .. Len(s) -> Stored]
        OBVIOUS
      <4>2. s \in [1 .. Len(s) -> Sizes \cup {TrimSize}]
        BY <4>1 DEF Stored
      <4> QED
        BY <4>1, <4>2, IsASeq
    <3> QED
      BY <3>1, <3>2
  <2>2. \A p \in Ports, c \in Shared!Classes : tokens[p][c] \in 0 .. CapFactor * Weight[c]
    <3> SUFFICES ASSUME NEW p \in Ports, NEW c \in Shared!Classes
                 PROVE  tokens[p][c] \in 0 .. CapFactor * Weight[c]
      OBVIOUS
    <3>1. tokens[p] \in Tokens /\ WithinCaps(tokens[p])
      BY <1>1 DEF SharedInv, SharedTypes, SharedCounts
    <3>2. /\ tokens[p][c] \in Nat /\ tokens[p][c] <= CapFactor * Weight[c]
          /\ CapFactor * Weight[c] \in Nat
      BY <3>1, RefreshGives DEF Tokens, WithinCaps
    <3> QED
      BY <3>2
  <2>3. used \in 0 .. Buffer
    BY <1>1 DEF SharedInv, SharedTypes, SharedCounts, SharedAssumptions, Shared!SizeAssumption
  <2> QED
    BY <1>1, <2>1, <2>2, <2>3 DEF SharedInv, SharedTypes, Shared!TypeOK
<1> QED
  BY <1>1, SharedInvariant, PTL

-----------------------------------------------------------------------------
(* The fairness of the scheduler. *)

\* Every class has a weight, and it is at least that of any packet stored in the class.
EnoughWeight ==
  /\ \A c \in Shared!Classes : Weight[c] >= 1
  /\ \A c \in Offered, n \in Sizes : n <= Weight[c]
  /\ TrimSize <= Weight[Shared!PrioHigh]
Light(q) == \A c \in Shared!Classes : \A i \in 1 .. Len(q[c]) : q[c][i] <= Weight[c]

\* The tokens of each class and, for the one that is being served, those already paid.
Purse(q, t, k) == [c \in Shared!Classes |-> t[c] + (IF c = k /\ q[c] # <<>> THEN Head(q[c]) ELSE 0)]

\* How far a may be ahead of b, g, when their purses are u[a] and u[b].  A service takes
\* from the purse what it adds to the lead; a refresh gives both classes their weights, and
\* what it leaves b with is less than two weights.
Most(a, b) == CapFactor * Weight[a] * Weight[b]
EvenPair(q, u, a, b, g) ==
  /\ q[a] = <<>> \/ q[b] = <<>> => g = 0
  /\ g + Weight[b] * u[a] - Weight[a] * u[b] <= Most(a, b)
  /\ g + Weight[b] * u[a] <= Most(a, b) \/ u[b] <= 2 * Weight[b] - 1
AllEven(q, u, g) == \A pair \in Pairs : EvenPair(q, u, pair[1], pair[2], g[pair])

FairPort(q, t, k, g) == Light(q) /\ WithinCaps(Purse(q, t, k)) /\ AllEven(q, Purse(q, t, k), g)
FairInv ==
  /\ SharedInv /\ error = "none"
  /\ \A p \in Ports : FairPort(queue[p], tokens[p], chosen[p], lead[p])

\* A pair is of two classes.
LEMMA PairIs ==
    ASSUME SharedAssumptions, NEW pair \in Pairs
    PROVE  /\ pair[1] \in Shared!Classes /\ pair[2] \in Shared!Classes /\ pair[1] # pair[2]
           /\ Weight[pair[1]] \in Nat /\ Weight[pair[2]] \in Nat /\ CapFactor \in Nat
           /\ Most(pair[1], pair[2]) \in Nat
<1>1. pair \in Shared!Classes \X Shared!Classes /\ pair[1] # pair[2]
  BY DEF SharedAssumptions, Shared!PairAssumption
<1>2. Weight \in [Shared!Classes -> Nat] /\ CapFactor \in Nat
  BY DEF SharedAssumptions, Shared!WeightAssumption
<1>3. Weight[pair[1]] \in Nat /\ Weight[pair[2]] \in Nat
  BY <1>1, <1>2
<1> QED
  BY <1>1, <1>2, <1>3 DEF Most

\* Classes that have not competed are even.
LEMMA EvenAtFirst ==
    ASSUME SharedAssumptions, NEW q, NEW u \in Tokens, WithinCaps(u), NEW pair \in Pairs
    PROVE  EvenPair(q, u, pair[1], pair[2], 0)
<1> DEFINE x == u[pair[1]]
           y == u[pair[2]]
           w == Weight[pair[1]]
           v == Weight[pair[2]]
           k == CapFactor
<1>1. pair[1] \in Shared!Classes /\ pair[2] \in Shared!Classes
  BY PairIs
<1>2. x \in Nat /\ y \in Nat /\ w \in Nat /\ v \in Nat /\ k \in Nat /\ x <= k * w
  BY <1>1, PairIs DEF Tokens, WithinCaps
<1>3. Most(pair[1], pair[2]) = k * w * v
  BY DEF Most
<1> HIDE DEF x, y, w, v, k
<1>4. v * x <= k * w * v
  <2>1. PICK e \in Nat : k * w = x + e
    <3>1. k * w \in Nat
      BY <1>2
    <3>2. k * w - x \in Nat /\ k * w = x + (k * w - x)
      BY <1>2, <3>1
    <3> QED
      BY <3>2
  <2>2. k * w * v = v * x + e * v
    BY <1>2, <2>1
  <2>3. e * v \in Nat /\ v * x \in Nat
    BY <1>2, <2>1
  <2> QED
    BY <2>2, <2>3
<1>5. w * y \in Nat /\ v * x \in Nat /\ k * w * v \in Nat
  BY <1>2
<1>6. 0 + v * x - w * y <= k * w * v /\ 0 + v * x <= k * w * v
  BY <1>4, <1>5
<1> QED
  BY <1>3, <1>6 DEF EvenPair, x, y, w, v

\* A refresh keeps two classes even that cannot pay for their first packets.
LEMMA EvenAfterRefresh ==
    ASSUME SharedAssumptions, CapFactor >= 2, NEW q \in Queues, Light(q), NEW t \in Tokens,
           WithinCaps(t),
           \A c \in Shared!Classes : ~ Shared!Payable(q, t, c), NEW pair \in Pairs, NEW g \in Int,
           EvenPair(q, t, pair[1], pair[2], g)
    PROVE  EvenPair(q, Shared!Refreshed(t), pair[1], pair[2], g)
<1> DEFINE a == pair[1]
           b == pair[2]
           f == Shared!Refreshed(t)
<1>1. /\ a \in Shared!Classes /\ b \in Shared!Classes /\ Weight[a] \in Nat /\ Weight[b] \in Nat
      /\ CapFactor \in Nat
      /\ Most(a, b) \in Nat
  BY PairIs
<1>2. CASE q[a] = <<>> \/ q[b] = <<>>
  <2>1. g = 0
    BY <1>2 DEF EvenPair
  <2>2. f \in Tokens /\ WithinCaps(f)
    BY RefreshGives
  <2> QED
    BY <2>1, <2>2, EvenAtFirst
<1>3. CASE q[a] # <<>> /\ q[b] # <<>>
  <2>1. ASSUME NEW c \in Shared!Classes, q[c] # <<>>
        PROVE  t[c] < Weight[c] /\ f[c] = t[c] + Weight[c] /\ t[c] \in Nat
    <3>1. Head(q[c]) \in Nat /\ Head(q[c]) <= Weight[c]
      <4>1. q[c] \in Seq(Stored) /\ Len(q[c]) >= 1 /\ Head(q[c]) = q[c][1]
        <5>1. q[c] \in Seq(Stored)
          BY DEF Queues
        <5> QED
          BY <2>1, <5>1
      <4>2. 1 \in 1 .. Len(q[c])
        BY <4>1
      <4> QED
        BY <2>1, <4>1, <4>2, HeadIs DEF Light
    <3>2. ~ (t[c] >= Head(q[c])) /\ t[c] \in Nat /\ Weight[c] \in Nat /\ CapFactor \in Nat
      BY <2>1 DEF Shared!Payable, Tokens, SharedAssumptions, Shared!WeightAssumption
    <3>3. t[c] < Weight[c]
      BY <3>1, <3>2
    <3>4. t[c] + Weight[c] <= CapFactor * Weight[c]
      <4> DEFINE w == Weight[c]
                 k == CapFactor
                 x == t[c]
      <4>1. w \in Nat /\ k \in Nat /\ x \in Nat /\ k >= 2 /\ x < w
        BY <3>2, <3>3
      <4> HIDE DEF w, k, x
      <4>2. k - 2 \in Nat
        BY <4>1
      <4>3. (k - 2) * w \in Nat /\ k * w = (k - 2) * w + 2 * w
        BY <4>1, <4>2
      <4>4. x + w <= k * w
        BY <4>1, <4>3
      <4> QED
        BY <4>4 DEF w, k, x
    <3> QED
      BY <3>2, <3>3, <3>4, RefreshGives
  <2>2. /\ t[a] \in Nat /\ t[b] \in Nat /\ t[b] < Weight[b]
        /\ f[a] = t[a] + Weight[a] /\ f[b] = t[b] + Weight[b]
    BY <1>1, <1>3, <2>1
  <2> DEFINE m == Most(a, b)
             x == t[a]
             y == t[b]
             w == Weight[a]
             v == Weight[b]
  <2>3. /\ g + v * x - w * y <= m /\ m \in Nat /\ x \in Nat /\ y \in Nat /\ w \in Nat /\ v \in Nat
        /\ y < v
    BY <1>1, <2>2 DEF EvenPair
  <2>4. g + v * (x + w) - w * (y + v) <= m /\ y + v <= 2 * v - 1
    <3> HIDE DEF m, x, y, w, v
    <3>1. v * (x + w) = v * x + v * w /\ w * (y + v) = w * y + v * w
      BY <2>3
    <3>2. v * x \in Nat /\ w * y \in Nat /\ v * w \in Nat
      BY <2>3
    <3> QED
      BY <2>3, <3>1, <3>2
  <2>5. g + v * f[a] - w * f[b] <= m /\ f[b] <= 2 * v - 1
    <3>1. f[a] = x + w /\ f[b] = y + v
      BY <2>2
    <3> HIDE DEF f, m, x, y, w, v
    <3> QED
      BY <2>4, <3>1
  <2> HIDE DEF f
  <2> QED
    BY <1>3, <2>5 DEF EvenPair, f
<1> QED
  BY <1>2, <1>3

\* The lead of a pair once a packet of n bytes of class k is served.
LeadAfter(q, r, k, n, pair, g) ==
  IF q[pair[1]] = <<>> \/ q[pair[2]] = <<>> \/ r[pair[1]] = <<>> \/ r[pair[2]] = <<>> THEN 0
  ELSE IF k = pair[1] THEN g + n * Weight[pair[2]]
  ELSE IF k = pair[2] THEN g - n * Weight[pair[1]] ELSE g

\* Serving a packet takes from a purse what it adds to the lead.
LEMMA EvenAfterService ==
    ASSUME SharedAssumptions, NEW q, NEW u \in Tokens, NEW pair \in Pairs, NEW g \in Int,
           EvenPair(q, u, pair[1], pair[2], g),
           NEW k \in Shared!Classes, NEW n \in Nat, n <= u[k],
           NEW t \in Tokens, WithinCaps(t),
           \A c \in Shared!Classes : t[c] = IF c = k THEN u[k] - n ELSE u[c],
           NEW r
    PROVE  EvenPair(r, t, pair[1], pair[2], LeadAfter(q, r, k, n, pair, g))
<1> DEFINE h == LeadAfter(q, r, k, n, pair, g)
           a == pair[1]
           b == pair[2]
<1>1. /\ a \in Shared!Classes /\ b \in Shared!Classes /\ a # b /\ Weight[a] \in Nat
      /\ Weight[b] \in Nat
      /\ Most(a, b) \in Nat
  BY PairIs
<1>2. CASE q[a] = <<>> \/ q[b] = <<>> \/ r[a] = <<>> \/ r[b] = <<>>
  <2>1. h = 0
    BY <1>2 DEF LeadAfter
  <2> QED
    BY <2>1, EvenAtFirst
<1>3. CASE ~ (q[a] = <<>> \/ q[b] = <<>> \/ r[a] = <<>> \/ r[b] = <<>>)
  <2> DEFINE m == Most(a, b)
             x == u[a]
             y == u[b]
             w == Weight[a]
             v == Weight[b]
  <2>1. /\ g + v * x - w * y <= m /\ (g + v * x <= m \/ y <= 2 * v - 1)
        /\ m \in Nat /\ x \in Nat /\ y \in Nat /\ w \in Nat /\ v \in Nat
    BY <1>1 DEF EvenPair, Tokens
  <2>2. h = IF k = a THEN g + n * v ELSE IF k = b THEN g - n * w ELSE g
    BY <1>3 DEF LeadAfter
  <2> HIDE DEF h
  <2>3. t[a] = IF a = k THEN u[k] - n ELSE x
    BY <1>1
  <2>4. t[b] = IF b = k THEN u[k] - n ELSE y
    BY <1>1
  <2>5. h + v * t[a] - w * t[b] <= m /\ (h + v * t[a] <= m \/ t[b] <= 2 * v - 1)
    <3>1. CASE k = a
      <4>1. h = g + n * v /\ t[a] = x - n /\ t[b] = y
        BY <1>1, <2>2, <2>3, <2>4, <3>1
      <4> HIDE DEF m, x, y, w, v, a, b
      <4>2. v * (x - n) = v * x - n * v
        BY <2>1
      <4>3. v * x \in Nat /\ n * v \in Nat /\ w * y \in Nat
        BY <2>1
      <4>4. h + v * t[a] = g + v * x
        BY <4>1, <4>2, <4>3
      <4>5. w * t[b] = w * y /\ t[b] = y
        BY <4>1
      <4>6. h \in Int /\ v * t[a] \in Int /\ w * t[b] \in Int
        <5>1. x - n \in Int /\ n * v \in Int
          BY <2>1, <4>3
        <5> QED
          BY <2>1, <4>1, <5>1
      <4>7. h + v * t[a] - w * t[b] <= m
        BY <2>1, <4>3, <4>4, <4>5, <4>6
      <4>8. h + v * t[a] <= m \/ t[b] <= 2 * v - 1
        BY <2>1, <4>4, <4>5
      <4> QED
        BY <4>7, <4>8
    <3>2. CASE k = b
      <4>1. h = g - n * w /\ t[a] = x /\ t[b] = y - n
        BY <1>1, <2>2, <2>3, <2>4, <3>2
      <4> HIDE DEF m, x, y, w, v, a, b
      <4>2. w * (y - n) = w * y - n * w
        BY <2>1
      <4>3. v * x \in Nat /\ n * w \in Nat /\ w * y \in Nat
        BY <2>1
      <4>4. h + v * t[a] - w * t[b] = g + v * x - w * y /\ h + v * t[a] <= g + v * x
        BY <4>1, <4>2, <4>3
      <4>5. t[b] <= y
        BY <2>1, <4>1
      <4>6. h + v * t[a] \in Int /\ g + v * x \in Int /\ t[b] \in Int
        BY <2>1, <4>1, <4>3
      <4> QED
        BY <2>1, <4>4, <4>5, <4>6
    <3>3. CASE k # a /\ k # b
      <4>1. h = g /\ t[a] = x /\ t[b] = y
        BY <2>2, <2>3, <2>4, <3>3
      <4> HIDE DEF m, x, y, w, v, a, b
      <4> QED
        BY <2>1, <4>1
    <3> QED
      BY <3>1, <3>2, <3>3
  <2>6. EvenPair(r, t, a, b, h)
    BY <1>3, <2>5 DEF EvenPair
  <2> QED
    BY <2>6 DEF h
<1> QED
  BY <1>2, <1>3

\* The scheduler finds a class to serve, and the port stays fair.
LEMMA FairAfterSelect ==
    ASSUME SharedAssumptions, EnoughWeight, CapFactor >= 2, NEW q \in Queues, Light(q),
           NEW t \in Tokens,
           WithinCaps(t), NEW l \in Shared!Classes, \E c \in Shared!Classes : q[c] # <<>>,
           NEW g \in [Pairs -> Int], AllEven(q, t, g)
    PROVE  LET s == Shared!Select(q, t, l)
           IN  s.ok /\ FairPort(q, s.tokens, s.class, g)
<1> DEFINE s == Shared!Select(q, t, l)
<1>1. /\ s.class \in Shared!Classes /\ s.ok \in BOOLEAN
      /\ s.ok => /\ q[s.class] # <<>>
                 /\ \E u \in Tokens :
                      /\ Bought(q, t, u) /\ WithinCaps(u)
                      /\ s.tokens = [u EXCEPT ![s.class] = @ - Head(q[s.class])]
      /\ ~ s.ok => \A c \in Shared!Classes : ~ Shared!Payable(q, Shared!Refreshed(t), c)
  BY SelectGives
<1> HIDE DEF s
<1>2. s.ok
  <2> SUFFICES ASSUME ~ s.ok
               PROVE  FALSE
    OBVIOUS
  <2>1. PICK c \in Shared!Classes : q[c] # <<>>
    OBVIOUS
  <2>2. Head(q[c]) \in Nat /\ Head(q[c]) <= Weight[c]
    <3>1. q[c] \in Seq(Stored)
      BY DEF Queues
    <3>2. Len(q[c]) >= 1 /\ Head(q[c]) = q[c][1] /\ Len(q[c]) \in Nat
      BY <2>1, <3>1
    <3>3. 1 \in 1 .. Len(q[c])
      BY <3>2
    <3> QED
      BY <2>1, <3>2, <3>3, HeadIs DEF Light
  <2>3. Shared!Refreshed(t)[c] >= Weight[c]
    <3> DEFINE w == Weight[c]
               k == CapFactor
    <3>1. w \in Nat /\ k \in Nat /\ k >= 2 /\ t[c] \in Nat
      BY DEF SharedAssumptions, Shared!WeightAssumption, Tokens
    <3>2. k * w >= w
      <4> HIDE DEF w, k
      <4>1. k - 1 \in Nat
        BY <3>1
      <4>2. (k - 1) * w \in Nat /\ k * w = (k - 1) * w + w
        BY <3>1, <4>1
      <4> QED
        BY <3>1, <4>2
    <3>3. Shared!Refreshed(t)[c] = IF t[c] + w <= k * w THEN t[c] + w ELSE k * w
      BY RefreshGives
    <3> HIDE DEF w, k
    <3> QED
      BY <3>1, <3>2, <3>3 DEF w
  <2>4. Shared!Refreshed(t)[c] \in Nat /\ Weight[c] \in Nat
    BY RefreshGives DEF Tokens, SharedAssumptions, Shared!WeightAssumption
  <2>5. Shared!Payable(q, Shared!Refreshed(t), c)
    BY <2>1, <2>2, <2>3, <2>4 DEF Shared!Payable
  <2> QED
    BY <1>1, <2>5
<1>3. PICK u \in Tokens :
        /\ Bought(q, t, u) /\ WithinCaps(u)
        /\ s.tokens = [u EXCEPT ![s.class] = @ - Head(q[s.class])]
  BY <1>1, <1>2
<1>4. q[s.class] # <<>> /\ s.class \in Shared!Classes
  BY <1>1, <1>2
<1>5. Purse(q, s.tokens, s.class) = u
  <2> DEFINE k == s.class
             n == Head(q[k])
  <2>1. k \in Shared!Classes /\ q[k] # <<>> /\ n \in Nat
    BY <1>4, HeadIs
  <2>2. u \in [Shared!Classes -> Nat] /\ s.tokens = [u EXCEPT ![k] = @ - n]
    BY <1>3 DEF Tokens
  <2>3. Purse(q, s.tokens, s.class) =
          [c \in Shared!Classes |-> s.tokens[c] + (IF c = k /\ q[c] # <<>> THEN Head(q[c]) ELSE 0)]
    BY DEF Purse
  <2>4. \A c \in Shared!Classes :
          s.tokens[c] + (IF c = k /\ q[c] # <<>> THEN Head(q[c]) ELSE 0) = u[c]
    <3> SUFFICES ASSUME NEW c \in Shared!Classes
                 PROVE  s.tokens[c] + (IF c = k /\ q[c] # <<>> THEN Head(q[c]) ELSE 0) = u[c]
      OBVIOUS
    <3>1. CASE c = k
      <4>1. s.tokens[c] = u[c] - n /\ u[c] \in Nat
        BY <2>2, <3>1
      <4>2. (IF c = k /\ q[c] # <<>> THEN Head(q[c]) ELSE 0) = n
        BY <2>1, <3>1
      <4> HIDE DEF n, k
      <4> QED
        BY <2>1, <4>1, <4>2
    <3>2. CASE c # k
      <4>1. s.tokens[c] = u[c] /\ u[c] \in Nat
        BY <2>2, <3>2
      <4> QED
        BY <3>2, <4>1
    <3> QED
      BY <3>1, <3>2
  <2>5. u = [c \in Shared!Classes |-> u[c]]
    BY <2>2
  <2> QED
    BY <2>3, <2>4, <2>5
<1>6. AllEven(q, u, g)
  <2>1. CASE u = t
    BY <2>1
  <2>2. CASE u = Shared!Refreshed(t) /\ \A c \in Shared!Classes : ~ Shared!Payable(q, t, c)
    <3>1. ASSUME NEW pair \in Pairs
          PROVE  EvenPair(q, u, pair[1], pair[2], g[pair])
      <4>1. EvenPair(q, t, pair[1], pair[2], g[pair]) /\ g[pair] \in Int
        BY DEF AllEven
      <4> QED
        BY <2>2, <4>1, EvenAfterRefresh
    <3> QED
      BY <3>1 DEF AllEven
  <2> QED
    BY <1>3, <2>1, <2>2 DEF Bought
<1>7. FairPort(q, s.tokens, s.class, g)
  BY <1>3, <1>5, <1>6 DEF FairPort
<1> QED
  BY <1>2, <1>7 DEF s

\* What is added to the end of a list, or taken from its front, keeps the packets light.
LEMMA LightAppend ==
    ASSUME SharedAssumptions, NEW q \in Queues, Light(q), NEW c \in Shared!Classes,
           NEW n \in Stored, n <= Weight[c]
    PROVE  Light([q EXCEPT ![c] = Append(@, n)])
<1> DEFINE r == [q EXCEPT ![c] = Append(@, n)]
<1>1. /\ q[c] \in Seq(Stored)
      /\ \A d \in Shared!Classes : r[d] = IF d = c THEN Append(q[c], n) ELSE q[d]
  BY DEF Queues
<1>2. \A i \in 1 .. Len(Append(q[c], n)) : Append(q[c], n)[i] <= Weight[c]
  <2> DEFINE s == q[c]
  <2>1. s \in Seq(Stored) /\ \A i \in 1 .. Len(s) : s[i] <= Weight[c]
    BY <1>1 DEF Light
  <2> HIDE DEF s
  <2>2. /\ Len(Append(s, n)) = Len(s) + 1 /\ Len(s) \in Nat
        /\ \A i \in 1 .. Len(s) : Append(s, n)[i] = s[i]
        /\ Append(s, n)[Len(s) + 1] = n
    BY <2>1, AppendProperties
  <2>3. \A i \in 1 .. Len(s) + 1 : Append(s, n)[i] <= Weight[c]
    BY <2>1, <2>2
  <2> QED
    BY <2>2, <2>3 DEF s
<1> HIDE DEF r
<1>3. \A d \in Shared!Classes : \A i \in 1 .. Len(r[d]) : r[d][i] <= Weight[d]
  BY <1>1, <1>2 DEF Light
<1> QED
  BY <1>3 DEF Light, r

\* The packets that are left are light.
LEMMA LightTail ==
    ASSUME SharedAssumptions, NEW q \in Queues, Light(q), NEW c \in Shared!Classes, q[c] # <<>>
    PROVE  Light([q EXCEPT ![c] = Tail(@)])
<1> DEFINE r == [q EXCEPT ![c] = Tail(@)]
<1>1. q[c] \in Seq(Stored) /\ \A d \in Shared!Classes : r[d] = IF d = c THEN Tail(q[c]) ELSE q[d]
  BY DEF Queues
<1>2. \A i \in 1 .. Len(Tail(q[c])) : Tail(q[c])[i] <= Weight[c]
  <2> DEFINE s == q[c]
  <2>1. s \in Seq(Stored) /\ s # <<>> /\ \A i \in 1 .. Len(s) : s[i] <= Weight[c]
    BY <1>1 DEF Light
  <2> HIDE DEF s
  <2>2. /\ Len(Tail(s)) = Len(s) - 1 /\ Len(s) \in Nat
        /\ \A i \in 1 .. Len(s) - 1 : Tail(s)[i] = s[i + 1]
    BY <2>1, HeadTailProperties
  <2>3. \A i \in 1 .. Len(s) - 1 : i + 1 \in 1 .. Len(s)
    BY <2>2
  <2>4. \A i \in 1 .. Len(Tail(s)) : Tail(s)[i] <= Weight[c]
    BY <2>1, <2>2, <2>3
  <2> QED
    BY <2>4 DEF s
<1> HIDE DEF r
<1>3. \A d \in Shared!Classes : \A i \in 1 .. Len(r[d]) : r[d][i] <= Weight[d]
  BY <1>1, <1>2 DEF Light
<1> QED
  BY <1>3 DEF Light, r

\* A service that begins leaves its port fair.
LEMMA FairAfterBegin ==
    ASSUME SharedAssumptions, EnoughWeight, CapFactor >= 2, SharedInv, NEW p \in Ports,
           NEW q \in Queues,
           Light(q), \E c \in Shared!Classes : q[c] # <<>>, NEW g \in [Pairs -> Int],
           AllEven(q, tokens[p], g)
    PROVE  /\ Shared!Select(q, tokens[p], last[p]).ok
           /\ Shared!BeginService(p, q) =>
                /\ FairPort(q, tokens'[p], chosen'[p], g)
                /\ \A r \in Ports : r # p => tokens'[r] = tokens[r] /\ chosen'[r] = chosen[r]
<1>1. /\ tokens \in [Ports -> Tokens] /\ last \in [Ports -> Shared!Classes]
      /\ chosen \in [Ports -> Shared!Classes]
      /\ \A r \in Ports : WithinCaps(tokens[r])
  BY DEF SharedInv, SharedTypes, SharedCounts
<1> DEFINE s == Shared!Select(q, tokens[p], last[p])
<1>2. s.ok /\ FairPort(q, s.tokens, s.class, g)
  <2> DEFINE t == tokens[p]
             l == last[p]
  <2>1. /\ t \in Tokens /\ WithinCaps(t) /\ l \in Shared!Classes /\ s = Shared!Select(q, t, l)
        /\ AllEven(q, t, g)
    BY <1>1
  <2> HIDE DEF t, l, s
  <2> QED
    BY <2>1, FairAfterSelect
<1>3. ASSUME Shared!BeginService(p, q)
      PROVE  /\ tokens' = [tokens EXCEPT ![p] = s.tokens]
             /\ chosen' = [chosen EXCEPT ![p] = s.class]
  BY <1>2, <1>3 DEF Shared!BeginService
<1> HIDE DEF s
<1>4. ASSUME Shared!BeginService(p, q)
      PROVE  /\ tokens'[p] = s.tokens /\ chosen'[p] = s.class
             /\ \A r \in Ports : r # p => tokens'[r] = tokens[r] /\ chosen'[r] = chosen[r]
  BY <1>1, <1>3, <1>4
<1> QED
  BY <1>2, <1>4 DEF s

\* A step that leaves the other ports alone and its own fair.
LEMMA FairStep ==
    ASSUME FairInv, SharedInv', error' = "none", NEW p \in Ports,
           \A r \in Ports : r # p => /\ queue'[r] = queue[r] /\ tokens'[r] = tokens[r]
                                     /\ chosen'[r] = chosen[r] /\ lead'[r] = lead[r],
           FairPort(queue'[p], tokens'[p], chosen'[p], lead'[p])
    PROVE  FairInv'
<1>1. ASSUME NEW r \in Ports
      PROVE  FairPort(queue'[r], tokens'[r], chosen'[r], lead'[r])
  <2>1. CASE r = p
    BY <2>1
  <2>2. CASE r # p
    <3>1. FairPort(queue[r], tokens[r], chosen[r], lead[r])
      BY DEF FairInv
    <3> QED
      BY <2>2, <3>1
  <2> QED
    BY <2>1, <2>2
<1> QED
  BY <1>1 DEF FairInv, FairPort, Light, WithinCaps, AllEven, EvenPair, Purse, Most

\* A packet that is put into a port leaves it fair.
LEMMA FairArrival ==
    ASSUME SharedAssumptions, SmallShares, EnoughWeight, CapFactor >= 2, FairInv, NEW p \in Ports,
           NEW c \in Offered, NEW n \in Sizes, Shared!ReceivePacket(p, c, n)
    PROVE  FairInv'
<1>1. SharedInv /\ error = "none" /\ FairPort(queue[p], tokens[p], chosen[p], lead[p])
  BY DEF FairInv
<1>2. PICK d \in Shared!Classes, m \in Stored :
         /\ SharedInv' /\ Shared!CanStore(p, d, m) /\ Shared!Enqueue(p, d, m)
         /\ (d = c /\ m = n) \/ (d = Shared!PrioHigh /\ m = TrimSize)
  BY <1>1, ReceiveCounted
<1>3. m <= Weight[d]
  BY <1>2 DEF EnoughWeight
<1> DEFINE o == queue[p]
           t == tokens[p]
           k == chosen[p]
           g == lead[p]
           q == [o EXCEPT ![d] = Append(@, m)]
<1>4. /\ q \in Queues
      /\ \A e \in Shared!Classes : o[e] # <<>> => q[e] # <<>> /\ Head(q[e]) = Head(o[e])
      /\ \A e \in Shared!Classes : q[e] = <<>> => o[e] = <<>>
  <2> DEFINE b == [bytes[p] EXCEPT ![d] = @ + m]
  <2>1. /\ q \in Queues /\ b \in [Shared!Classes -> Nat]
        /\ \A e \in Shared!Classes : b[e] = SumSeq(q[e])
        /\ Shared!Sum3(b) = Shared!Sum3(bytes[p]) + m
        /\ \A e \in Shared!Classes : o[e] # <<>> => q[e] # <<>> /\ Head(q[e]) = Head(o[e])
        /\ \A e \in Shared!Classes : q[e] = <<>> => o[e] = <<>>
    BY <1>1, PortAfterArrival
  <2> HIDE DEF q, o, b
  <2> QED
    BY <2>1
<1>5. /\ queue \in [Ports -> Queues] /\ tokens \in [Ports -> Tokens]
      /\ chosen \in [Ports -> Shared!Classes]
      /\ bytes \in [Ports -> [Shared!Classes -> Nat]] /\ lead \in [Ports -> [Pairs -> Int]]
      /\ \A e \in Shared!Classes : bytes[p][e] = SumSeq(queue[p][e])
      /\ WithinCaps(tokens[p])
  BY <1>1 DEF SharedInv, SharedTypes, SharedCounts
<1>6. /\ o \in Queues /\ t \in Tokens /\ k \in Shared!Classes /\ g \in [Pairs -> Int]
      /\ WithinCaps(t)
      /\ Shared!Empty(p) <=> \A e \in Shared!Classes : o[e] = <<>>
  <2>1. /\ o \in Queues /\ t \in Tokens /\ k \in Shared!Classes /\ g \in [Pairs -> Int]
        /\ WithinCaps(t)
    BY <1>5
  <2>2. Shared!Empty(p) <=> \A e \in Shared!Classes : o[e] = <<>>
    BY <1>5, <2>1, EmptyPort DEF Shared!Empty
  <2> QED
    BY <2>1, <2>2
<1>7. Light(q)
  <2>1. Light(o)
    BY <1>1 DEF FairPort
  <2> HIDE DEF o
  <2> QED
    BY <1>3, <1>6, <2>1, LightAppend
<1>8. /\ queue' = [queue EXCEPT ![p] = q] /\ lead' = lead
      /\ error' = "none" <=> ~ Shared!Empty(p) \/ Shared!Select(q, t, last[p]).ok
      /\ IF Shared!Empty(p) THEN Shared!BeginService(p, q) ELSE UNCHANGED <<tokens, last, chosen>>
  <2>1. queue' = [queue EXCEPT ![p] = q] /\ lead' = lead
    BY <1>2 DEF Shared!Enqueue
  <2> QED
    BY <1>1, <1>2, <2>1, ArrivalCounted
<1>9. /\ queue'[p] = q /\ lead'[p] = g
      /\ \A r \in Ports : r # p => queue'[r] = queue[r] /\ lead'[r] = lead[r]
  BY <1>5, <1>8
<1>10. CASE Shared!Empty(p)
  <2>1. q[d] # <<>>
    <3>1. o[d] \in Seq(Stored)
      BY <1>6 DEF Queues
    <3>2. q[d] = Append(o[d], m)
      BY <1>6 DEF Queues
    <3> HIDE DEF q
    <3> QED
      BY <3>1, <3>2, AppendProperties
  <2>2. AllEven(q, t, g)
    <3>1. ASSUME NEW pair \in Pairs
          PROVE  EvenPair(q, t, pair[1], pair[2], g[pair])
      <4>1. o[pair[1]] = <<>>
        BY <1>6, <1>10, PairIs
      <4>2. g[pair] = 0
        BY <1>1, <4>1 DEF FairPort, AllEven, EvenPair
      <4> HIDE DEF g, t, q
      <4> QED
        BY <1>6, <4>2, EvenAtFirst
    <3> QED
      BY <3>1 DEF AllEven
  <2>3. Shared!BeginService(p, q)
    BY <1>8, <1>10
  <2> HIDE DEF q, g
  <2>4. /\ Shared!Select(q, tokens[p], last[p]).ok
        /\ FairPort(q, tokens'[p], chosen'[p], g)
        /\ \A r \in Ports : r # p => tokens'[r] = tokens[r] /\ chosen'[r] = chosen[r]
    BY <1>1, <1>4, <1>6, <1>7, <2>1, <2>2, <2>3, FairAfterBegin
  <2> QED
    BY <1>2, <1>8, <1>9, <2>4, FairStep
<1>11. CASE ~ Shared!Empty(p)
  <2>1. tokens' = tokens /\ chosen' = chosen /\ error' = "none"
    BY <1>8, <1>11
  <2>2. o[k] # <<>>
    BY <1>1, <1>11 DEF SharedInv, Choosing
  <2>3. Purse(q, t, k) = Purse(o, t, k)
    <3>1. q[k] # <<>> /\ Head(q[k]) = Head(o[k])
      BY <1>4, <1>6, <2>2
    <3> HIDE DEF q, o, t, k
    <3> QED
      BY <2>2, <3>1 DEF Purse
  <2>4. AllEven(q, Purse(q, t, k), g)
    <3> DEFINE u == Purse(q, t, k)
    <3>1. ASSUME NEW pair \in Pairs
          PROVE  EvenPair(q, u, pair[1], pair[2], g[pair])
      <4>1. EvenPair(o, u, pair[1], pair[2], g[pair])
        BY <1>1, <2>3 DEF FairPort, AllEven
      <4>2. \A e \in {pair[1], pair[2]} : q[e] = <<>> => o[e] = <<>>
        BY <1>4, PairIs
      <4> HIDE DEF q, o, u, g
      <4> QED
        BY <4>1, <4>2 DEF EvenPair
    <3> QED
      BY <3>1 DEF AllEven
  <2>5. FairPort(q, t, k, g)
    BY <1>1, <1>7, <2>3, <2>4 DEF FairPort
  <2>6. FairPort(queue'[p], tokens'[p], chosen'[p], lead'[p])
    BY <1>9, <2>1, <2>5
  <2> QED
    BY <1>2, <1>9, <2>1, <2>6, FairStep
<1> QED
  BY <1>10, <1>11

\* A packet that leaves a port leaves it fair.
LEMMA FairService ==
    ASSUME SharedAssumptions, EnoughWeight, CapFactor >= 2, FairInv, NEW p \in Ports,
           Shared!CompleteService(p)
    PROVE  FairInv'
<1> DEFINE o == queue[p]
           t == tokens[p]
           k == chosen[p]
           g == lead[p]
           n == Head(o[k])
           q == [o EXCEPT ![k] = Tail(@)]
           b == [bytes[p] EXCEPT ![k] = @ - n]
           h == Shared!Led(p, q, k, n)
           u == Purse(o, t, k)
<1>1. SharedInv /\ error = "none" /\ Light(o) /\ WithinCaps(u) /\ AllEven(o, u, g)
  BY DEF FairInv, FairPort
<1>2. /\ SharedInv' /\ o[k] # <<>>
      /\ IF Shared!Sum3(b) # 0 THEN Shared!BeginService(p, q)
         ELSE UNCHANGED <<tokens, last, chosen>>
      /\ error' = "none" <=> (Shared!Sum3(b) # 0 => Shared!Select(q, t, last[p]).ok)
  BY <1>1, ServiceCounted
<1>3. /\ queue \in [Ports -> Queues] /\ tokens \in [Ports -> Tokens]
      /\ chosen \in [Ports -> Shared!Classes]
      /\ lead \in [Ports -> [Pairs -> Int]] /\ WithinCaps(tokens[p])
  BY <1>1 DEF SharedInv, SharedTypes, SharedCounts
<1>4. /\ o \in Queues /\ t \in Tokens /\ k \in Shared!Classes /\ g \in [Pairs -> Int]
      /\ WithinCaps(t)
  BY <1>3
<1>5. /\ n \in Nat \ {0} /\ q \in Queues /\ b \in [Shared!Classes -> Nat]
      /\ \A d \in Shared!Classes : b[d] = SumSeq(q[d])
  <2>1. /\ n \in Nat \ {0}
        /\ q \in Queues /\ b \in [Shared!Classes -> Nat]
        /\ \A d \in Shared!Classes : b[d] = SumSeq(q[d])
        /\ Shared!Sum3(b) = Shared!Sum3(bytes[p]) - n
        /\ \A d \in Shared!Classes : q[d] # <<>> => o[d] # <<>>
        /\ \A d \in Shared!Classes : d # k => q[d] = o[d]
    <3> DEFINE e == chosen[p]
    <3>1. e \in Shared!Classes /\ queue[p][e] # <<>> /\ k = e
      BY <1>2, <1>4
    <3> HIDE DEF e
    <3> QED
      BY <1>1, <3>1, PortAfterService
  <2> HIDE DEF n, q, b
  <2> QED
    BY <2>1
<1>6. Light(q)
  <2> HIDE DEF o, k
  <2> QED
    BY <1>1, <1>2, <1>4, LightTail
<1>7. /\ queue' = [queue EXCEPT ![p] = q] /\ lead' = [lead EXCEPT ![p] = h]
  BY DEF Shared!CompleteService
<1>8. lead' \in [Ports -> [Pairs -> Int]]
  BY <1>2 DEF SharedInv, SharedTypes
<1>9. /\ queue'[p] = q /\ lead'[p] = h /\ h \in [Pairs -> Int]
      /\ \A r \in Ports : r # p => queue'[r] = queue[r] /\ lead'[r] = lead[r]
  <2> HIDE DEF q, h
  <2>1. lead'[p] = h
    BY <1>3, <1>7
  <2> QED
    BY <1>3, <1>7, <1>8, <2>1
<1>10. /\ u \in Tokens /\ n <= u[k]
       /\ \A d \in Shared!Classes : t[d] = IF d = k THEN u[k] - n ELSE u[d]
  <2>1. \A d \in Shared!Classes : u[d] = t[d] + (IF d = k THEN n ELSE 0)
    BY <1>2 DEF Purse
  <2>2. \A d \in Shared!Classes : t[d] \in Nat
    BY <1>4 DEF Tokens
  <2>3. u = [d \in Shared!Classes |-> u[d]]
    BY DEF Purse
  <2> HIDE DEF u, n, t, k
  <2>4. \A d \in Shared!Classes : u[d] \in Nat
    BY <1>5, <2>1, <2>2
  <2>5. u \in Tokens
    BY <2>3, <2>4 DEF Tokens
  <2>6. n <= u[k] /\ t[k] = u[k] - n
    BY <1>4, <1>5, <2>1, <2>2
  <2>7. \A d \in Shared!Classes : d # k => t[d] = u[d]
    BY <2>1, <2>2
  <2> QED
    BY <2>5, <2>6, <2>7
<1>11. AllEven(q, t, h)
  <2> SUFFICES ASSUME NEW pair \in Pairs
               PROVE  EvenPair(q, t, pair[1], pair[2], h[pair])
    BY DEF AllEven
  <2>1. EvenPair(o, u, pair[1], pair[2], g[pair]) /\ g[pair] \in Int
    BY <1>1, <1>4 DEF AllEven
  <2>2. h[pair] = LeadAfter(o, q, k, n, pair, g[pair])
    <3> HIDE DEF q, n, k
    <3> QED
      BY DEF Shared!Led, LeadAfter
  <2> DEFINE i == g[pair]
             j == h[pair]
  <2>3. i \in Int /\ EvenPair(o, u, pair[1], pair[2], i)
    BY <2>1
  <2>4. j = LeadAfter(o, q, k, n, pair, i)
    BY <2>2
  <2>5. n \in Nat
    BY <1>5
  <2> HIDE DEF o, t, k, n, q, u, g, h, i, j
  <2>6. EvenPair(q, t, pair[1], pair[2], j)
    BY <1>4, <1>10, <2>3, <2>4, <2>5, EvenAfterService
  <2> QED
    BY <2>6 DEF j
<1>12. Shared!Sum3(b) = 0 <=> \A d \in Shared!Classes : q[d] = <<>>
  <2> HIDE DEF q, b
  <2> QED
    BY <1>5, EmptyPort
<1>13. CASE Shared!Sum3(b) # 0
  <2>1. \E d \in Shared!Classes : q[d] # <<>>
    BY <1>12, <1>13
  <2>2. Shared!BeginService(p, q) /\ AllEven(q, tokens[p], h)
    BY <1>2, <1>11, <1>13
  <2> HIDE DEF q, h
  <2>3. /\ Shared!Select(q, tokens[p], last[p]).ok
        /\ FairPort(q, tokens'[p], chosen'[p], h)
        /\ \A r \in Ports : r # p => tokens'[r] = tokens[r] /\ chosen'[r] = chosen[r]
    BY <1>1, <1>5, <1>6, <1>9, <2>1, <2>2, FairAfterBegin
  <2>4. error' = "none"
    BY <1>2, <2>3
  <2> QED
    BY <1>2, <1>9, <2>3, <2>4, FairStep
<1>14. CASE Shared!Sum3(b) = 0
  <2>1. error' = "none" /\ tokens' = tokens /\ chosen' = chosen
    BY <1>2, <1>14
  <2>2. \A d \in Shared!Classes : q[d] = <<>>
    BY <1>12, <1>14
  <2>3. Purse(q, t, k) = t
    <3>1. t \in [Shared!Classes -> Nat]
      BY <1>4 DEF Tokens
    <3> HIDE DEF q, t, k
    <3>2. \A d \in Shared!Classes : t[d] + (IF d = k /\ q[d] # <<>> THEN Head(q[d]) ELSE 0) = t[d]
      BY <2>2, <3>1
    <3> QED
      BY <3>1, <3>2 DEF Purse
  <2>4. FairPort(q, t, k, h)
    BY <1>4, <1>6, <1>11, <2>3 DEF FairPort
  <2>5. FairPort(queue'[p], tokens'[p], chosen'[p], lead'[p])
    <3> HIDE DEF q, h
    <3> QED
      BY <1>9, <2>1, <2>4
  <2> QED
    BY <1>2, <1>9, <2>1, <2>5, FairStep
<1> QED
  BY <1>13, <1>14

\* Every port starts fair.
LEMMA FairStarts ==
    ASSUME SharedAssumptions, CapFactor >= 2, Shared!Init
    PROVE  FairInv
<1>1. SharedInv
  <2>1. CapFactor >= 1
    BY DEF SharedAssumptions, Shared!WeightAssumption
  <2> QED
    BY <2>1, SharedStarts
<1>2. ASSUME NEW p \in Ports
      PROVE  FairPort(queue[p], tokens[p], chosen[p], lead[p])
  <2> DEFINE o == queue[p]
             t == tokens[p]
             k == chosen[p]
  <2>1. /\ \A c \in Shared!Classes : o[c] = <<>>
        /\ \A pair \in Pairs : lead[p][pair] = 0
    BY DEF Shared!Init
  <2>2. t \in Tokens /\ WithinCaps(t)
    BY <1>1 DEF SharedInv, SharedTypes, SharedCounts
  <2> HIDE DEF o, t, k
  <2>3. Purse(o, t, k) = t
    <3>1. t \in [Shared!Classes -> Nat]
      BY <2>2 DEF Tokens
    <3>2. \A d \in Shared!Classes : t[d] + (IF d = k /\ o[d] # <<>> THEN Head(o[d]) ELSE 0) = t[d]
      BY <2>1, <3>1
    <3> QED
      BY <3>1, <3>2 DEF Purse
  <2>4. Light(o)
    BY <2>1 DEF Light
  <2>5. \A pair \in Pairs : EvenPair(o, t, pair[1], pair[2], lead[p][pair])
    BY <2>1, <2>2, EvenAtFirst
  <2>6. FairPort(o, t, k, lead[p])
    BY <2>2, <2>3, <2>4, <2>5 DEF FairPort, AllEven
  <2> QED
    BY <2>6 DEF o, t, k
<1> QED
  BY <1>1, <1>2 DEF FairInv, Shared!Init

\* Every step leaves every port fair.
LEMMA FairKeeps ==
    ASSUME SharedAssumptions, SmallShares, EnoughWeight, CapFactor >= 2, FairInv,
           [Shared!Next]_Shared!vars
    PROVE  FairInv'
<1>1. CASE UNCHANGED Shared!vars
  <2>1. SharedInv'
    BY <1>1, SharedStays DEF FairInv
  <2> QED
    BY <1>1, <2>1 DEF FairInv, FairPort, Light, WithinCaps, AllEven, EvenPair, Purse, Most,
                      Shared!vars
<1> QED
  BY <1>1, FairArrival, FairService DEF Shared!Next

\* At every port, for any pair of classes that both have packets: what a class has spent more
\* than the other is matched by what it has left (trySelectNextQosClass, refreshTokens).
THEOREM SharedFairInvariant ==
    SharedAssumptions /\ SmallShares /\ EnoughWeight /\ CapFactor >= 2
      => (Shared!Spec => []FairInv)
<1> SUFFICES ASSUME SharedAssumptions, SmallShares, EnoughWeight, CapFactor >= 2
             PROVE  Shared!Spec => []FairInv
  OBVIOUS
<1>1. Shared!Init => FairInv
  BY FairStarts
<1>2. FairInv /\ [Shared!Next]_Shared!vars => FairInv'
  BY FairKeeps
<1> QED
  BY <1>1, <1>2, PTL DEF Shared!Spec

\* After a refresh there is always a packet to send ("There has to be at least one packet to
\* dequeue after refreshing tokens", DwrrQosScheduler::selectNextQosClass).
THEOREM SharedRefreshSuffices ==
    SharedAssumptions /\ SmallShares /\ EnoughWeight /\ CapFactor >= 2
      => (Shared!Spec => []Shared!RefreshSuffices)
<1> SUFFICES ASSUME SharedAssumptions, SmallShares, EnoughWeight, CapFactor >= 2
             PROVE  Shared!Spec => []Shared!RefreshSuffices
  OBVIOUS
<1>1. FairInv => Shared!RefreshSuffices
  BY DEF FairInv, Shared!RefreshSuffices
<1> QED
  BY <1>1, SharedFairInvariant, PTL

\* Two classes that both have packets are served in the proportion of their weights, up to a
\* bound that does not depend on how long they have been waiting.
THEOREM SharedWeightedFair ==
    SharedAssumptions /\ SmallShares /\ EnoughWeight /\ CapFactor >= 2
      => (Shared!Spec => []Shared!WeightedFair)
<1> SUFFICES ASSUME SharedAssumptions, SmallShares, EnoughWeight, CapFactor >= 2
             PROVE  Shared!Spec => []Shared!WeightedFair
  OBVIOUS
<1>1. ASSUME FairInv, NEW p \in Ports, NEW pair \in Pairs
      PROVE  lead[p][pair] <= (CapFactor + 2) * Weight[pair[1]] * Weight[pair[2]] - Weight[pair[1]]
  <2> DEFINE g == lead[p][pair]
             u == Purse(queue[p], tokens[p], chosen[p])
             x == u[pair[1]]
             y == u[pair[2]]
             w == Weight[pair[1]]
             v == Weight[pair[2]]
             k == CapFactor
             m == Most(pair[1], pair[2])
  <2>1. /\ pair[1] \in Shared!Classes /\ pair[2] \in Shared!Classes /\ w \in Nat /\ v \in Nat
        /\ k \in Nat /\ v >= 1
    BY PairIs DEF EnoughWeight
  <2>2. queue[p] \in Queues /\ tokens[p] \in Tokens /\ g \in Int
    BY <1>1 DEF FairInv, SharedInv, SharedTypes
  <2>3. x \in Nat /\ y \in Nat
    <3> DEFINE q == queue[p]
               t == tokens[p]
               l == chosen[p]
    <3>1. q \in Queues /\ t \in Tokens /\ u = Purse(q, t, l)
      BY <2>2
    <3> HIDE DEF q, t, l, u
    <3>2. ASSUME NEW c \in Shared!Classes
          PROVE  u[c] \in Nat
      <4>1. u[c] = t[c] + (IF c = l /\ q[c] # <<>> THEN Head(q[c]) ELSE 0)
        BY <3>1 DEF Purse
      <4>2. t[c] \in Nat
        BY <3>1 DEF Tokens
      <4>3. q[c] # <<>> => Head(q[c]) \in Nat
        BY <3>1, HeadIs
      <4> QED
        BY <4>1, <4>2, <4>3
    <3> QED
      BY <2>1, <3>2
  <2>4. m = k * w * v
    BY DEF Most
  <2>5. g + v * x - w * y <= m /\ (g + v * x <= m \/ y <= 2 * v - 1)
    <3>1. EvenPair(queue[p], u, pair[1], pair[2], g)
      BY <1>1 DEF FairInv, FairPort, AllEven
    <3> HIDE DEF u
    <3> QED
      BY <3>1 DEF EvenPair
  <2> HIDE DEF g, u, x, y, w, v, k, m
  <2>6. v * x \in Nat /\ w * y \in Nat /\ k * w * v \in Nat /\ w * v \in Nat
    BY <2>1, <2>3
  <2>7. (k + 2) * w * v = k * w * v + 2 * (w * v)
    BY <2>1
  <2>8. w <= w * v
    <3>1. v - 1 \in Nat
      BY <2>1
    <3>2. w * (v - 1) \in Nat /\ w * v = w * (v - 1) + w
      BY <2>1, <3>1
    <3> QED
      BY <2>1, <3>2
  <2>9. g <= k * w * v + 2 * (w * v) - w
    <3>1. CASE g + v * x <= m
      BY <2>1, <2>2, <2>4, <2>6, <2>8, <3>1
    <3>2. CASE y <= 2 * v - 1
      <4>1. w * y <= w * (2 * v - 1)
        <5>1. PICK e \in Nat : 2 * v - 1 = y + e
          <6>1. 2 * v - 1 - y \in Nat /\ 2 * v - 1 = y + (2 * v - 1 - y)
            BY <2>1, <2>3, <3>2
          <6> QED
            BY <6>1
        <5>2. w * (y + e) = w * y + w * e /\ w * e \in Nat
          BY <2>1, <2>3, <5>1
        <5> QED
          BY <2>6, <5>1, <5>2
      <4>2. w * (2 * v - 1) = 2 * (w * v) - w
        BY <2>1
      <4>3. g + v * x - w * y <= k * w * v
        BY <2>4, <2>5
      <4> QED
        BY <2>1, <2>2, <2>6, <4>1, <4>2, <4>3
    <3> QED
      BY <2>5, <3>1, <3>2
  <2>10. g <= (k + 2) * w * v - w
    BY <2>1, <2>2, <2>6, <2>7, <2>9
  <2> QED
    BY <2>10 DEF g, w, v, k
<1>2. FairInv => Shared!WeightedFair
  BY <1>1 DEF Shared!WeightedFair
<1> QED
  BY <1>2, SharedFairInvariant, PTL
=============================================================================
