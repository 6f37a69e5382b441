---------------------------- MODULE UecNic_proofs ----------------------------
(***************************************************************************)
(* The NIC's invariants for any number of senders, ports and packets.      *)
(*                                                                         *)
(* The argument.  A port is idle only when nothing waits (Conserving), and *)
(* a sender that may send is in the list (Awake, Listed).  So an immediate *)
(* send finds the list empty, and a callback runs when the port that was   *)
(* just freed is the only idle one: both searches find it, and the sender  *)
(* that asks again is queued.                                              *)
(***************************************************************************)
EXTENDS UecNic, NatFacts_proofs, SequenceTheorems

Flow == [started : BOOLEAN, backlog : Nat, rtx : Nat, out : Nat, room : Nat,
         blocked : BOOLEAN]

Host == [port : [Ports -> Ports \cup {Idle}], list : Seq(Srcs), control : Nat,
         crt : 0 .. (RatioControl + RatioData - 1), fault : Faults \cup {"none"},
         src : [Srcs -> Flow]]

Conserving(h) == h.list # <<>> \/ h.control > 0 => Free(h) = {}

Routed(h) == \A p \in Ports : h.port[p] \in {Idle, p}

Listed(h) == \A s \in Srcs : h.src[s].blocked => s \in Waiting(h)

Awake(h, s) == CanSend(h.src[s]) => h.src[s].blocked

AllAwake(h) == \A s \in Srcs : Awake(h, s)

OthersAwake(h, s) == \A r \in Srcs : r # s => Awake(h, r)

Good(h) == Conserving(h) /\ Routed(h) /\ Listed(h) /\ AllAwake(h)

Pending(f) == f.rtx + f.backlog

NicInv == host \in Host /\ Good(host) /\ InStep

-----------------------------------------------------------------------------
(* The operators *)

\* A sender waits when it has a place in the list.
LEMMA WaitingPlace ==
    ASSUME NEW h, NEW r
    PROVE  r \in Waiting(h) <=> \E i \in 1 .. Len(h.list) : h.list[i] = r
  BY DEF Waiting

\* The ports are finitely many.
LEMMA FreeFinite ==
    ASSUME NEW h
    PROVE  IsFiniteSet(Free(h)) /\ Cardinality(Free(h)) \in Nat /\ Free(h) \subseteq Ports
<1>0. NPorts \in Int /\ 1 \in Int
  BY NicAssumption
<1>1. IsFiniteSet(Ports)
  BY <1>0, FS_Interval DEF Ports
<1>2. Free(h) \subseteq Ports
  BY DEF Free
<1>3. IsFiniteSet(Free(h))
  BY <1>1, <1>2, FS_Subset
<1> QED
  BY <1>2, <1>3, FS_CardinalityType

\* A subset of the free ports of size k: none when k = 0, all when k is their number.
LEMMA PortsTaken ==
    ASSUME NEW h, NEW k \in Nat, NEW T \in kSubset(k, Free(h))
    PROVE  /\ T \subseteq Free(h) /\ Cardinality(T) = k
           /\ k = 0 <=> T = {}
           /\ k <= Cardinality(Free(h))
           /\ k = Cardinality(Free(h)) => T = Free(h)
<1>1. T \in SUBSET Free(h) /\ Cardinality(T) = k
  BY DEF kSubset
<1>2. IsFiniteSet(Free(h)) /\ IsFiniteSet(T) /\ k <= Cardinality(Free(h))
  BY <1>1, FreeFinite, FS_Subset
<1>3. k = 0 <=> T = {}
  BY <1>1, <1>2, FS_EmptySet
<1>4. k = Cardinality(Free(h)) => T = Free(h)
  BY <1>1, <1>2, FS_Subset
<1> QED
  BY <1>1, <1>2, <1>3, <1>4

\* Sending k packets takes them off the pending ones and off the window.
LEMMA SendShape ==
    ASSUME NEW f \in Flow, NEW k \in Nat, k <= Pending(f)
    PROVE  /\ Send(f, k) \in Flow
           /\ Pending(Send(f, k)) = Pending(f) - k
           /\ Send(f, k).room > 0 => f.room > k
           /\ Send(f, k).blocked = f.blocked
           /\ f.backlog >= k /\ f.rtx = 0 => Send(f, k).backlog = f.backlog - k
<1> DEFINE m == Min({k, f.rtx})
           n == Min({k, f.room})
<1>1. f.rtx \in Nat /\ f.room \in Nat /\ f.backlog \in Nat /\ f.out \in Nat
  BY DEF Flow
<1>2. /\ m \in Nat /\ m <= k /\ m <= f.rtx /\ (m = k \/ m = f.rtx)
      /\ n \in Nat /\ n <= k /\ n <= f.room /\ (n = k \/ n = f.room)
  BY <1>1, MinTwo
<1>3. Send(f, k) = [f EXCEPT !.rtx = f.rtx - m, !.backlog = f.backlog - (k - m),
                             !.out = f.out + k, !.room = f.room - n]
  BY DEF Send
<1> HIDE DEF m, n
<1>4. f.rtx - m \in Nat /\ f.backlog - (k - m) \in Nat /\ f.out + k \in Nat /\ f.room - n \in Nat
  BY <1>1, <1>2 DEF Pending
<1>5. /\ Send(f, k) \in Flow /\ Send(f, k).rtx = f.rtx - m
      /\ Send(f, k).backlog = f.backlog - (k - m)
      /\ Send(f, k).room = f.room - n /\ Send(f, k).blocked = f.blocked
  BY <1>3, <1>4 DEF Flow
<1>6. Pending(Send(f, k)) = Pending(f) - k
  BY <1>5, <1>2, <1>1 DEF Pending
<1>7. Send(f, k).room > 0 => f.room > k
  BY <1>5, <1>2, <1>1
<1>8. f.backlog >= k /\ f.rtx = 0 => Send(f, k).backlog = f.backlog - k
  BY <1>5, <1>2, <1>1
<1> QED
  BY <1>5, <1>6, <1>7, <1>8

\* The turn goes to the first sender of the list that can send.
LEMMA TurnFirst ==
    ASSUME NEW h \in Host
    PROVE  /\ Turn(h) \in 1 .. (Len(h.list) + 1)
           /\ \A i \in 1 .. Len(h.list) : i < Turn(h) => ~CanSend(h.src[h.list[i]])
           /\ Turn(h) <= Len(h.list) => CanSend(h.src[h.list[Turn(h)]])
<1> DEFINE R == {i \in 1 .. Len(h.list) : CanSend(h.src[h.list[i]])}
           n == Len(h.list)
<1>1. n \in Nat
  BY DEF Host
<1>2. R \cup {n + 1} \in SUBSET Nat /\ R \cup {n + 1} # {}
  BY <1>1
<1>3. Turn(h) = Min(R \cup {n + 1})
  BY DEF Turn
<1>4. \A i \in R : i \in 1 .. n /\ CanSend(h.src[h.list[i]])
  OBVIOUS
<1>5. \A i \in 1 .. n : CanSend(h.src[h.list[i]]) => i \in R
  OBVIOUS
<1> HIDE DEF R
<1>6. Turn(h) \in R \cup {n + 1} /\ \A i \in R \cup {n + 1} : Turn(h) <= i
  BY ZenonT(60), <1>2, <1>3, MinNat
<1>7. Turn(h) \in 1 .. (n + 1)
  BY <1>1, <1>4, <1>6
<1>8. Turn(h) <= n => CanSend(h.src[h.list[Turn(h)]])
  BY <1>1, <1>4, <1>6
<1>9. \A i \in 1 .. n : i < Turn(h) => ~CanSend(h.src[h.list[i]])
  <2> TAKE i \in 1 .. n
  <2> HAVE i < Turn(h)
  <2>1. i \notin R
    BY <1>1, <1>6, <1>7
  <2> QED
    BY <2>1, <1>5
<1> QED
  BY <1>7, <1>8, <1>9

-----------------------------------------------------------------------------
(* Immediate sends *)

\* The ports of T send at once when nothing waits.
LEMMA SendAtOnceShape ==
    ASSUME NEW h \in Host, NEW s \in Srcs, NEW k \in Nat, NEW T \in kSubset(k, Free(h)),
           k <= Pending(h.src[s]), Conserving(h), Routed(h)
    PROVE  LET g == SendAtOnce(h, s, T)
           IN  /\ g \in Host
               /\ g.list = h.list /\ g.control = h.control /\ g.fault = h.fault
               /\ Free(g) = Free(h) \ T
               /\ Routed(g)
               /\ \A r \in Srcs : r # s => g.src[r] = h.src[r]
               /\ T # {} => g.src[s] = Send(h.src[s], k)
               /\ T = {} => g = h
<1> DEFINE g == SendAtOnce(h, s, T)
<1>0. /\ T \subseteq Free(h) /\ Cardinality(T) = k /\ T \subseteq Ports
      /\ h.src[s] \in Flow
  BY PortsTaken, FreeFinite DEF Host
<1>1. CASE T = {}
  <2>1. g = h
    BY <1>1 DEF SendAtOnce
  <2> QED
    BY <1>1, <2>1
<1>2. CASE T # {}
  <2>1. h.list = <<>> /\ ~(h.control > 0)
    BY <1>0, <1>2 DEF Conserving
  <2> DEFINE port == [p \in Ports |-> IF p \in T THEN p ELSE h.port[p]]
             f == Send(h.src[s], k)
  <2>2. g = [h EXCEPT !.port = port, !.src[s] = f]
    BY <1>0, <1>2, <2>1 DEF SendAtOnce
  <2>3. f \in Flow
    BY <1>0, SendShape
  <2>4. port \in [Ports -> Ports \cup {Idle}]
    BY DEF Host
  <2>5. \A p \in Ports : port[p] = IF p \in T THEN p ELSE h.port[p]
    OBVIOUS
  <2>6. f = Send(h.src[s], k)
    OBVIOUS
  <2> DEFINE sf == [h.src EXCEPT ![s] = f]
  <2>10. g = [h EXCEPT !.port = port, !.src = sf]
    BY <2>2
  <2>11. sf \in [Srcs -> Flow] /\ sf[s] = f /\ \A r \in Srcs : r # s => sf[r] = h.src[r]
    BY <2>3 DEF Host
  <2>12. g = SendAtOnce(h, s, T)
    OBVIOUS
  <2> HIDE DEF port, f, sf, g
  <2>7. /\ g \in Host /\ g.list = h.list /\ g.control = h.control /\ g.fault = h.fault
        /\ g.port = port
        /\ \A r \in Srcs : r # s => g.src[r] = h.src[r]
        /\ g.src[s] = f
    BY <2>10, <2>11, <2>4 DEF Host
  <2>8. Free(g) = Free(h) \ T
    <3>1. \A p \in Ports : p # Idle
      BY DEF Ports, Idle
    <3> QED
      BY <1>0, <2>5, <2>7, <3>1 DEF Free
  <2>9. Routed(g)
    BY <2>5, <2>7 DEF Routed
  <2> QED
    BY <1>2, <2>6, <2>7, <2>8, <2>9, <2>12
<1> QED
  BY <1>1, <1>2

\* Asking for a turn appends the sender to the list.
LEMMA RequestSendingShape ==
    ASSUME NEW h \in Host, NEW s \in Srcs
    PROVE  LET g == RequestSending(h, s)
           IN  /\ g \in Host
               /\ g.port = h.port /\ g.control = h.control /\ g.fault = h.fault
               /\ g.src = h.src
               /\ g.list # <<>>
               /\ Waiting(g) = Waiting(h) \cup {s}
<1> DEFINE g == RequestSending(h, s)
           l == Append(h.list, s)
<1>1. /\ h.list \in Seq(Srcs) /\ l \in Seq(Srcs) /\ l # <<>>
      /\ Len(l) = Len(h.list) + 1 /\ Len(h.list) \in Nat
      /\ \A i \in 1 .. Len(h.list) : l[i] = h.list[i]
      /\ l[Len(h.list) + 1] = s
  BY DEF Host
<1>2. g = [h EXCEPT !.list = l]
  BY DEF RequestSending
<1>5. g = RequestSending(h, s)
  OBVIOUS
<1> HIDE DEF l, g
<1>3. /\ g \in Host /\ g.port = h.port /\ g.control = h.control /\ g.fault = h.fault
      /\ g.src = h.src /\ g.list = l
  BY <1>1, <1>2 DEF Host
<1>4. Waiting(g) = Waiting(h) \cup {s}
  <2>1. ASSUME NEW r \in Waiting(g) PROVE r \in Waiting(h) \cup {s}
    <3>1. PICK i \in 1 .. Len(l) : l[i] = r
      BY <1>3, WaitingPlace
    <3>2. CASE i \in 1 .. Len(h.list)
      <4>1. h.list[i] = r
        BY <1>1, <3>1, <3>2
      <4> QED
        BY <3>2, <4>1, WaitingPlace
    <3>3. CASE i = Len(h.list) + 1
      BY <1>1, <3>1, <3>3
    <3> QED
      BY <1>1, <3>2, <3>3
  <2>2. s \in Waiting(g)
    <3>1. Len(h.list) + 1 \in 1 .. Len(l) /\ l[Len(h.list) + 1] = s
      BY <1>1
    <3>2. g.list = l
      BY <1>3
    <3> QED
      BY <3>1, <3>2, WaitingPlace
  <2>3. ASSUME NEW r \in Waiting(h) PROVE r \in Waiting(g)
    <3>1. PICK i \in 1 .. Len(h.list) : h.list[i] = r
      BY DEF Waiting
    <3>2. i \in 1 .. Len(l) /\ l[i] = r
      BY <1>1, <3>1
    <3> QED
      BY <1>3, <3>2 DEF Waiting
  <2> QED
    BY <2>1, <2>2, <2>3
<1> QED
  BY <1>1, <1>3, <1>4, <1>5

\* ... and a sender that blocks remembers it.
LEMMA BlockOnNicShape ==
    ASSUME NEW h \in Host, NEW s \in Srcs
    PROVE  LET g == BlockOnNic(h, s)
           IN  /\ g \in Host
               /\ g.port = h.port /\ g.control = h.control /\ g.fault = h.fault
               /\ \A r \in Srcs : r # s => g.src[r] = h.src[r]
               /\ g.src[s].blocked
               /\ g.src[s].rtx = h.src[s].rtx /\ g.src[s].room = h.src[s].room
               /\ g.list # <<>>
               /\ Waiting(g) = Waiting(h) \cup {s}
<1> DEFINE q == RequestSending(h, s)
           g == BlockOnNic(h, s)
<1>1. /\ q \in Host
      /\ q.port = h.port /\ q.control = h.control /\ q.fault = h.fault
      /\ q.src = h.src /\ q.list # <<>> /\ Waiting(q) = Waiting(h) \cup {s}
  BY RequestSendingShape
<1>2. g = [q EXCEPT !.src[s].blocked = TRUE]
  BY DEF BlockOnNic
<1> HIDE DEF q, g
<1>3. g = [q EXCEPT !.src = [q.src EXCEPT ![s] = [q.src[s] EXCEPT !.blocked = TRUE]]]
  BY <1>1, <1>2 DEF Host, Flow
<1>4. [q.src[s] EXCEPT !.blocked = TRUE] \in Flow
  <2>1. q.src[s] \in Flow
    BY <1>1 DEF Host
  <2> DEFINE f == q.src[s]
  <2> HIDE DEF f
  <2>2. ASSUME f \in Flow PROVE [f EXCEPT !.blocked = TRUE] \in Flow
    BY <2>2 DEF Flow
  <2> QED
    BY <2>1, <2>2 DEF f
<1>5. /\ g \in Host
      /\ g.port = q.port /\ g.control = q.control /\ g.fault = q.fault /\ g.list = q.list
      /\ \A r \in Srcs : r # s => g.src[r] = q.src[r]
      /\ g.src[s] = [q.src[s] EXCEPT !.blocked = TRUE]
  BY <1>1, <1>3, <1>4 DEF Host
<1>6. g.src[s].blocked /\ g.src[s].rtx = q.src[s].rtx /\ g.src[s].room = q.src[s].room
  BY <1>1, <1>5 DEF Host, Flow
<1>7. Waiting(g) = Waiting(q)
  BY <1>5 DEF Waiting
<1>8. g = BlockOnNic(h, s)
  BY DEF g
<1> QED
  BY ZenonT(60), <1>1, <1>5, <1>6, <1>7, <1>8

\* sendIfPermitted leaves a sender that could send more in the list, and every
\* port busy.
LEMMA SendIfPermittedGood ==
    ASSUME NEW h \in Host, NEW s \in Srcs, NEW T \in kSubset(Permitted(h, s), Free(h)),
           Conserving(h), Routed(h), Listed(h), OthersAwake(h, s)
    PROVE  LET g == SendIfPermitted(h, s, T)
           IN  /\ g \in Host /\ Good(g)
               /\ g.fault = h.fault /\ g.control = h.control
               /\ Free(g) = Free(h) \ T
<1> DEFINE f == h.src[s]
           k == Permitted(h, s)
           m == SendAtOnce(h, s, T)
           g == SendIfPermitted(h, s, T)
<1>1. f \in Flow /\ f.room \in Nat /\ Pending(f) \in Nat
  BY DEF Host, Flow, Pending
<1>2. /\ k \in Nat /\ k <= Pending(f)
      /\ f.blocked => k = 0
      /\ ~f.blocked => k = Pending(f) \/ k = f.room \/ k = Cardinality(Free(h))
  <2>1. Cardinality(Free(h)) \in Nat
    BY FreeFinite
  <2>2. CASE f.blocked
    <3>1. k = 0
      BY <2>2 DEF Permitted
    <3> QED
      BY <3>1, <1>1, <2>2
  <2>3. CASE ~f.blocked
    <3>1. k = Min({Pending(f), f.room, Cardinality(Free(h))})
      BY <2>3 DEF Permitted, Pending
    <3> QED
      BY <3>1, <1>1, <2>1, <2>3, MinThree
  <2> QED
    BY <2>2, <2>3
<1>3. /\ T \subseteq Free(h)
      /\ k = 0 <=> T = {}
      /\ k = Cardinality(Free(h)) => T = Free(h)
  BY <1>2, PortsTaken
<1>4. /\ m \in Host /\ m.list = h.list /\ m.control = h.control /\ m.fault = h.fault
      /\ Free(m) = Free(h) \ T /\ Routed(m)
      /\ \A r \in Srcs : r # s => m.src[r] = h.src[r]
      /\ T # {} => m.src[s] = Send(f, k)
      /\ T = {} => m = h
  BY <1>2, SendAtOnceShape
<1>5. g = IF CanSend(m.src[s]) /\ ~m.src[s].blocked THEN BlockOnNic(m, s) ELSE m
  BY DEF SendIfPermitted
<1> HIDE DEF k, m, g
<1>6. m.src[s].blocked = f.blocked
  BY <1>1, <1>2, <1>4, SendShape
<1>7. Conserving(m)
  BY <1>4 DEF Conserving
<1>8. Waiting(m) = Waiting(h)
  BY <1>4 DEF Waiting
<1>9. Listed(m)
  <2> SUFFICES ASSUME NEW r \in Srcs, m.src[r].blocked PROVE r \in Waiting(m)
    BY DEF Listed
  <2>1. h.src[r].blocked
    BY <1>4, <1>6
  <2> QED
    BY <1>8, <2>1 DEF Listed
<1>10. OthersAwake(m, s)
  BY <1>4 DEF OthersAwake, Awake
<1>11. CASE CanSend(m.src[s]) /\ ~m.src[s].blocked
  <2>1. T = Free(h)
    <3>1. Pending(m.src[s]) > 0 /\ m.src[s].room > 0
      BY <1>11 DEF CanSend, Pending
    <3>2. CASE T = {}
      <4>1. k = 0 /\ Pending(f) > 0 /\ f.room > 0
        BY <1>3, <1>4, <3>1, <3>2
      <4>2. k = Cardinality(Free(h))
        BY <1>1, <1>2, <1>6, <1>11, <4>1
      <4> QED
        BY <1>3, <4>2
    <3>3. CASE T # {}
      <4>1. m.src[s] = Send(f, k)
        BY <1>4, <3>3
      <4>2. Pending(Send(f, k)) = Pending(f) - k /\ (Send(f, k).room > 0 => f.room > k)
        BY <1>1, <1>2, SendShape
      <4>3. Pending(f) > k /\ f.room > k
        BY <1>1, <1>2, <3>1, <4>1, <4>2
      <4>4. k # Pending(f) /\ k # f.room
        BY <1>1, <1>2, <4>3
      <4> QED
        BY <1>2, <1>3, <1>6, <1>11, <4>4
    <3> QED
      BY <3>2, <3>3
  <2>2. Free(m) = {}
    BY <1>4, <2>1
  <2>3. g = BlockOnNic(m, s)
    BY <1>5, <1>11
  <2>4. /\ g \in Host
        /\ g.port = m.port /\ g.control = m.control /\ g.fault = m.fault
        /\ \A r \in Srcs : r # s => g.src[r] = m.src[r]
        /\ g.src[s].blocked
        /\ Waiting(g) = Waiting(m) \cup {s}
    BY <1>4, <2>3, BlockOnNicShape
  <2>5. Free(g) = Free(m)
    BY <2>4 DEF Free
  <2>6. Conserving(g) /\ Routed(g)
    BY <2>2, <2>4, <2>5, <1>4 DEF Conserving, Routed
  <2>7. Listed(g)
    BY <1>9, <2>4 DEF Listed
  <2>8. AllAwake(g)
    BY <1>10, <2>4 DEF AllAwake, OthersAwake, Awake
  <2> QED
    BY <1>4, <2>4, <2>5, <2>6, <2>7, <2>8 DEF Good, g
<1>12. CASE ~(CanSend(m.src[s]) /\ ~m.src[s].blocked)
  <2>1. g = m
    BY <1>5, <1>12
  <2>2. AllAwake(m)
    BY <1>10, <1>12 DEF AllAwake, OthersAwake, Awake
  <2> QED
    BY <1>4, <1>7, <1>9, <2>1, <2>2 DEF Good, g
<1> QED
  BY <1>11, <1>12

-----------------------------------------------------------------------------
(* Control packets and turns *)

\* Only the ports, the list, the senders and the control queue matter to Good.
LEMMA SameWaiting ==
    ASSUME NEW h, NEW g, g.list = h.list, g.src = h.src, Listed(h), AllAwake(h)
    PROVE  Listed(g) /\ AllAwake(g)
<1>1. Waiting(g) = Waiting(h)
  BY DEF Waiting
<1> QED
  BY <1>1 DEF Listed, AllAwake, Awake

\* A port takes a packet of its own route.
LEMMA TakePort ==
    ASSUME NEW h \in Host, NEW g, NEW p \in Ports, g.port = [h.port EXCEPT ![p] = p],
           Routed(h)
    PROVE  /\ g.port \in [Ports -> Ports \cup {Idle}]
           /\ Routed(g)
           /\ Free(g) = Free(h) \ {p}
<1>1. h.port \in [Ports -> Ports \cup {Idle}] /\ p # Idle
  BY DEF Host, Ports, Idle
<1>2. \A q \in Ports : g.port[q] = IF q = p THEN p ELSE h.port[q]
  BY <1>1
<1>3. g.port \in [Ports -> Ports \cup {Idle}]
  BY <1>1
<1>4. Routed(g)
  BY <1>2 DEF Routed
<1>5. Free(g) = Free(h) \ {p}
  BY <1>1, <1>2 DEF Free
<1> QED
  BY <1>3, <1>4, <1>5

\* A control packet leaves on the last free port.
LEMMA SendControlNowGood ==
    ASSUME NEW h \in Host, NEW p \in Ports, h.control > 0,
           Free(h) \subseteq {p}, Routed(h), Listed(h), AllAwake(h)
    PROVE  /\ SendControlNow(h, p) \in Host /\ Good(SendControlNow(h, p))
           /\ SendControlNow(h, p).fault = h.fault
<1> DEFINE g == SendControlNow(h, p)
           port == [h.port EXCEPT ![p] = p]
           control == h.control - 1
<1>1. g = [h EXCEPT !.port = port, !.control = control]
  BY DEF SendControlNow
<1>2. control \in Nat
  BY DEF Host
<1>3. port \in [Ports -> Ports \cup {Idle}]
  BY DEF Host
<1>4. port = [h.port EXCEPT ![p] = p]
  OBVIOUS
<1>5. g = SendControlNow(h, p)
  OBVIOUS
<1> HIDE DEF port, control, g
<1>6. /\ g \in Host /\ g.port = port /\ g.list = h.list /\ g.src = h.src
      /\ g.fault = h.fault
  BY <1>1, <1>2, <1>3 DEF Host
<1>7. Routed(g) /\ Free(g) = Free(h) \ {p}
  BY <1>4, <1>6, TakePort
<1>8. Conserving(g)
  BY <1>7 DEF Conserving
<1>9. Listed(g) /\ AllAwake(g)
  BY <1>6, SameWaiting
<1> QED
  BY <1>5, <1>6, <1>7, <1>8, <1>9 DEF Good

\* A new control packet leaves at once when a port is free.
LEMMA SendControlPacketGood ==
    ASSUME NEW h \in Host, NEW p \in Ports, Good(h), Free(h) # {} => p \in Free(h)
    PROVE  /\ SendControlPacket(h, p) \in Host /\ Good(SendControlPacket(h, p))
           /\ SendControlPacket(h, p).fault = h.fault
<1> DEFINE m == [h EXCEPT !.control = h.control + 1]
           g == SendControlPacket(h, p)
<1>1. g = IF Free(h) = {} THEN m ELSE SendControlNow(m, p)
  BY DEF SendControlPacket
<1>2. h.control + 1 \in Nat /\ h.control + 1 > 0
  BY DEF Host
<1>3. /\ m \in Host /\ m.port = h.port /\ m.list = h.list /\ m.src = h.src
      /\ m.fault = h.fault /\ m.control = h.control + 1
  BY <1>2 DEF Host
<1>4. g = SendControlPacket(h, p)
  OBVIOUS
<1> HIDE DEF m, g
<1>5. Free(m) = Free(h)
  BY <1>3 DEF Free
<1>6. Routed(m) /\ Listed(m) /\ AllAwake(m)
  <2>1. Routed(m)
    BY <1>3 DEF Good, Routed
  <2> QED
    BY <2>1, <1>3, SameWaiting DEF Good
<1>7. CASE Free(h) = {}
  BY <1>1, <1>3, <1>4, <1>5, <1>6, <1>7 DEF Good, Conserving
<1>8. CASE Free(h) # {}
  <2>1. h.list = <<>> /\ h.control = 0
    BY <1>8 DEF Good, Conserving, Host
  <2> DEFINE port == [h.port EXCEPT ![p] = p]
             left == m.control - 1
  <2>2. g = [m EXCEPT !.port[p] = p, !.control = m.control - 1]
    BY <1>1, <1>8 DEF SendControlNow
  <2>3. left = 0 /\ left \in Nat
    BY <1>3, <2>1
  <2>4. port \in [Ports -> Ports \cup {Idle}] /\ port = [m.port EXCEPT ![p] = p]
    BY <1>3 DEF Host
  <2>5. g = [m EXCEPT !.port = port, !.control = left]
    BY <2>2, <1>3
  <2> HIDE DEF port, left
  <2>6. /\ g \in Host /\ g.port = port /\ g.list = m.list /\ g.src = m.src
        /\ g.fault = m.fault /\ g.control = 0
    BY <1>3, <2>3, <2>4, <2>5 DEF Host
  <2>7. Routed(g)
    BY <1>3, <1>6, <2>4, <2>6, TakePort
  <2>8. Conserving(g)
    BY <1>3, <2>1, <2>6 DEF Conserving
  <2>9. Listed(g) /\ AllAwake(g)
    BY <1>6, <2>6, SameWaiting
  <2> QED
    BY <1>3, <1>4, <2>6, <2>7, <2>8, <2>9 DEF Good
<1> QED
  BY <1>7, <1>8

\* Whoever is behind the turn keeps waiting; whoever was called back does not.
LEMMA UnblockShape ==
    ASSUME NEW h \in Host, Listed(h), AllAwake(h)
    PROVE  LET g == Unblock(h)
           IN  /\ g \in Host
               /\ g.port = h.port /\ g.control = h.control /\ g.fault = h.fault
               /\ Turn(h) > Len(h.list) => g.list = <<>>
               /\ \A r \in Srcs : /\ g.src[r].rtx = h.src[r].rtx
                                  /\ g.src[r].backlog = h.src[r].backlog
                                  /\ g.src[r].room = h.src[r].room
               /\ Listed(g)
               /\ \A r \in Srcs : CanSend(g.src[r]) =>
                     \/ g.src[r].blocked
                     \/ Turn(h) <= Len(h.list) /\ r = h.list[Turn(h)]
<1> DEFINE n == Len(h.list)
           k == Turn(h)
           list == SubSeq(h.list, k + 1, n)
           sf == [s \in Srcs |->
                    IF s \in CalledBack(h) THEN [h.src[s] EXCEPT !.blocked = FALSE]
                                           ELSE h.src[s]]
           g == Unblock(h)
<1>1. /\ n \in Nat /\ k \in 1 .. (n + 1) /\ h.list \in Seq(Srcs)
      /\ \A i \in 1 .. n : h.list[i] \in Srcs
  BY TurnFirst DEF Host
<1>2. /\ \A i \in 1 .. n : i < k => ~CanSend(h.src[h.list[i]])
      /\ k <= n => CanSend(h.src[h.list[k]])
  BY TurnFirst
<1>3. g = [h EXCEPT !.list = list, !.src = sf]
  BY DEF Unblock
<1>4. /\ list \in Seq(Srcs)
      /\ Len(list) = IF k < n THEN n - k ELSE 0
      /\ \A i \in 1 .. (n - k) : list[i] = h.list[k + i]
  <2>1. k + 1 \in Int /\ n \in Int /\ \A i \in (k + 1) .. n : h.list[i] \in Srcs
    BY <1>1
  <2> HIDE DEF k, n
  <2>2. /\ list \in Seq(Srcs)
        /\ Len(list) = IF k + 1 <= n THEN n - (k + 1) + 1 ELSE 0
        /\ \A i \in 1 .. n - (k + 1) + 1 : list[i] = h.list[k + 1 + i - 1]
    BY <2>1, SubSeqProperties
  <2>3. n - (k + 1) + 1 = n - k /\ (k + 1 <= n <=> k < n)
    BY <1>1
  <2>4. \A i \in 1 .. (n - k) : k + 1 + i - 1 = k + i
    BY <1>1
  <2> QED
    BY <2>2, <2>3, <2>4
<1>5. \A s \in Srcs : h.src[s] \in Flow
  BY DEF Host
<1>6. ASSUME NEW f \in Flow
      PROVE  /\ [f EXCEPT !.blocked = FALSE] \in Flow
             /\ [f EXCEPT !.blocked = FALSE].rtx = f.rtx
             /\ [f EXCEPT !.blocked = FALSE].backlog = f.backlog
             /\ [f EXCEPT !.blocked = FALSE].room = f.room
             /\ ~[f EXCEPT !.blocked = FALSE].blocked
  BY <1>6 DEF Flow
<1>7. \A s \in Srcs :
        /\ sf[s] \in Flow
        /\ sf[s].rtx = h.src[s].rtx /\ sf[s].backlog = h.src[s].backlog
        /\ sf[s].room = h.src[s].room
        /\ s \in CalledBack(h) => ~sf[s].blocked
        /\ s \notin CalledBack(h) => sf[s] = h.src[s]
  BY <1>5, <1>6
<1>8. sf \in [Srcs -> Flow]
  BY <1>7
<1>9. g = Unblock(h)
  OBVIOUS
<1>10. ASSUME NEW r PROVE r \in CalledBack(h) <=> \E i \in 1 .. n : i <= k /\ h.list[i] = r
  BY DEF CalledBack
<1> HIDE DEF list, sf, g, k
<1>11. /\ g \in Host /\ g.list = list /\ g.src = sf
       /\ g.port = h.port /\ g.control = h.control /\ g.fault = h.fault
  BY <1>3, <1>4, <1>8 DEF Host
<1>12. k > n => g.list = <<>>
  <2> SUFFICES ASSUME k > n PROVE list = <<>>
    BY <1>11
  <2>1. Len(list) = 0
    BY <1>1, <1>4
  <2> QED
    BY <1>4, <2>1
<1>13. ASSUME NEW r \in Srcs, r \in Waiting(h), r \notin CalledBack(h)
       PROVE  r \in Waiting(g)
  <2>1. PICK i \in 1 .. n : h.list[i] = r
    BY <1>13, WaitingPlace
  <2>2. i > k
    BY <1>1, <1>10, <1>13, <2>1
  <2>3. i - k \in 1 .. (n - k) /\ k + (i - k) = i
    BY <1>1, <2>2
  <2>4. list[i - k] = r
    BY <1>4, <2>1, <2>3
  <2>5. i - k \in 1 .. Len(list)
    BY <1>1, <1>4, <2>2, <2>3
  <2> QED
    BY <1>11, <2>4, <2>5, WaitingPlace
<1>14. Listed(g)
  <2> SUFFICES ASSUME NEW r \in Srcs, g.src[r].blocked PROVE r \in Waiting(g)
    BY DEF Listed
  <2>1. r \notin CalledBack(h)
    BY <1>7, <1>11
  <2>2. h.src[r].blocked
    BY <1>7, <1>11, <2>1
  <2> QED
    BY <1>13, <2>1, <2>2 DEF Listed
<1>15. ASSUME NEW r \in Srcs, CanSend(g.src[r]), ~g.src[r].blocked
       PROVE  k <= n /\ r = h.list[k]
  <2>1. CanSend(h.src[r])
    BY <1>7, <1>11, <1>15 DEF CanSend
  <2>2. h.src[r].blocked /\ r \in Waiting(h)
    BY <2>1 DEF AllAwake, Awake, Listed
  <2>3. r \in CalledBack(h)
    BY <1>7, <1>11, <1>15, <2>2
  <2>4. PICK i \in 1 .. n : i <= k /\ h.list[i] = r
    BY <1>10, <2>3
  <2>5. ~(i < k)
    BY <1>2, <2>1, <2>4
  <2> QED
    BY <1>1, <2>4, <2>5
<1>16. \A r \in Srcs : /\ g.src[r].rtx = h.src[r].rtx
                       /\ g.src[r].backlog = h.src[r].backlog
                       /\ g.src[r].room = h.src[r].room
  BY <1>7, <1>11
<1> QED
  BY <1>9, <1>11, <1>12, <1>14, <1>15, <1>16 DEF k

\* A data turn that uses up the only free port.
LEMMA GiveTurnGood ==
    ASSUME NEW h \in Host, NEW p \in Ports, Free(h) = {p},
           Routed(h), Listed(h), AllAwake(h)
    PROVE  /\ GiveTurn(h, p, p) \in Host /\ Good(GiveTurn(h, p, p))
           /\ GiveTurn(h, p, p).fault = h.fault
<1> DEFINE m == Unblock(h)
           s == h.list[Turn(h)]
           f == Send(m.src[s], 1)
           e == [m EXCEPT !.port[p] = p, !.src[s] = f]
           g == GiveTurn(h, p, p)
<1>1. /\ m \in Host
      /\ m.port = h.port /\ m.control = h.control /\ m.fault = h.fault
      /\ Turn(h) > Len(h.list) => m.list = <<>>
      /\ \A r \in Srcs : /\ m.src[r].rtx = h.src[r].rtx
                         /\ m.src[r].backlog = h.src[r].backlog
                         /\ m.src[r].room = h.src[r].room
      /\ Listed(m)
      /\ \A r \in Srcs : CanSend(m.src[r]) =>
            \/ m.src[r].blocked
            \/ Turn(h) <= Len(h.list) /\ r = h.list[Turn(h)]
  BY UnblockShape
<1>2. Free(m) = {p} /\ Routed(m)
  BY <1>1 DEF Free, Routed
<1>3. Turn(h) \in Nat /\ Len(h.list) \in Nat
  BY TurnFirst DEF Host
<1>4. g = IF Turn(h) > Len(h.list)
          THEN IF h.control > 0 THEN SendControlNow(m, p) ELSE m
          ELSE IF ~CanSend(e.src[s]) THEN e
          ELSE IF Free(e) # {} THEN Fails(e, "route after sending")
          ELSE BlockOnNic(e, s)
  BY DEF GiveTurn
<1>5. g = GiveTurn(h, p, p)
  OBVIOUS
<1>6. CASE Turn(h) > Len(h.list)
  <2>1. AllAwake(m)
    BY <1>1, <1>3, <1>6 DEF AllAwake, Awake
  <2>2. CASE h.control > 0
    <3>1. g = SendControlNow(m, p)
      BY <1>4, <1>6, <2>2
    <3> HIDE DEF m, g
    <3>2. g \in Host /\ Good(g) /\ g.fault = m.fault
      BY <1>1, <1>2, <2>1, <2>2, <3>1, SendControlNowGood
    <3> QED
      BY <1>1, <1>5, <3>2
  <2>3. CASE ~(h.control > 0)
    <3>1. g = m
      BY <1>4, <1>6, <2>3
    <3>2. Conserving(m)
      BY <1>1, <1>6, <2>3 DEF Conserving
    <3> HIDE DEF m, g
    <3> QED
      BY <1>1, <1>2, <1>5, <2>1, <3>1, <3>2 DEF Good
  <2> QED
    BY <2>2, <2>3
<1>7. CASE ~(Turn(h) > Len(h.list))
  <2>1. s \in Srcs /\ CanSend(h.src[s])
    BY <1>3, <1>7, TurnFirst DEF Host
  <2>2. m.src[s] \in Flow /\ 1 <= Pending(m.src[s])
    BY <1>1, <2>1 DEF Host, Flow, CanSend, Pending
  <2>3. f \in Flow /\ f.blocked = m.src[s].blocked
    BY <2>2, SendShape
  <2> DEFINE port == [m.port EXCEPT ![p] = p]
             sf == [m.src EXCEPT ![s] = f]
  <2>4. e = [m EXCEPT !.port = port, !.src = sf]
    OBVIOUS
  <2>5. port \in [Ports -> Ports \cup {Idle}] /\ port = [m.port EXCEPT ![p] = p]
    BY <1>1 DEF Host
  <2>6. sf \in [Srcs -> Flow] /\ sf[s] = f /\ \A r \in Srcs : r # s => sf[r] = m.src[r]
    BY <1>1, <2>1, <2>3 DEF Host
  <2> HIDE DEF port, sf, f, e, g, m, s
  <2>7. /\ e \in Host /\ e.port = port /\ e.src = sf /\ e.list = m.list
        /\ e.fault = m.fault
    BY <1>1, <2>4, <2>5, <2>6 DEF Host
  <2>8. Routed(e) /\ Free(e) = {}
    BY SMTT(30), <1>1, <1>2, <2>5, <2>7, TakePort
  <2>9. Waiting(e) = Waiting(m)
    BY <2>7 DEF Waiting
  <2>10. Listed(e)
    <3> SUFFICES ASSUME NEW r \in Srcs, e.src[r].blocked PROVE r \in Waiting(e)
      BY DEF Listed
    <3>1. m.src[r].blocked
      BY <2>3, <2>6, <2>7
    <3> QED
      BY <1>1, <2>9, <3>1 DEF Listed
  <2>11. OthersAwake(e, s)
    <3> SUFFICES ASSUME NEW r \in Srcs, r # s, CanSend(e.src[r]) PROVE e.src[r].blocked
      BY DEF OthersAwake, Awake
    <3>1. e.src[r] = m.src[r]
      BY <2>6, <2>7
    <3> QED
      BY <1>1, <3>1 DEF s
  <2>12. CASE ~CanSend(e.src[s])
    <3>1. g = e
      BY <1>4, <1>7, <2>12
    <3>2. Conserving(e) /\ AllAwake(e)
      BY <2>8, <2>11, <2>12 DEF Conserving, AllAwake, OthersAwake, Awake
    <3> QED
      BY <1>1, <1>5, <2>7, <2>8, <2>10, <3>1, <3>2 DEF Good
  <2>13. CASE CanSend(e.src[s])
    <3>1. g = BlockOnNic(e, s)
      BY <1>4, <1>7, <2>8, <2>13
    <3>2. /\ g \in Host
          /\ g.port = e.port /\ g.fault = e.fault
          /\ \A r \in Srcs : r # s => g.src[r] = e.src[r]
          /\ g.src[s].blocked
          /\ Waiting(g) = Waiting(e) \cup {s}
      BY <2>1, <2>7, <3>1, BlockOnNicShape
    <3>3. Conserving(g) /\ Routed(g)
      BY <2>8, <3>2 DEF Conserving, Routed, Free
    <3>4. Listed(g)
      BY <2>10, <3>2 DEF Listed
    <3>5. AllAwake(g)
      BY <2>11, <3>2 DEF AllAwake, OthersAwake, Awake
    <3> QED
      BY <1>1, <1>5, <2>7, <3>2, <3>3, <3>4, <3>5 DEF Good
  <2> QED
    BY <2>12, <2>13
<1> QED
  BY <1>6, <1>7

-----------------------------------------------------------------------------
(* Actions *)

\* What a step has to establish.
LEMMA NicInvNext ==
    ASSUME host' \in Host, Good(host'),
           (host'.fault = host.fault /\ InStep) \/ host'.fault = "empty rtx queue"
    PROVE  NicInv'
  BY DEF NicInv, Good, Conserving, Routed, Listed, AllAwake, Awake, InStep, Free, Waiting,
         CanSend

\* Replacing the state of one sender leaves the rest of Good alone.
LEMMA ChangeFlow ==
    ASSUME NEW h \in Host, Good(h), NEW s \in Srcs, NEW f \in Flow,
           f.blocked => h.src[s].blocked
    PROVE  LET g == [h EXCEPT !.src[s] = f]
           IN  /\ g \in Host /\ g.src[s] = f
               /\ g.port = h.port /\ g.list = h.list /\ g.control = h.control
               /\ g.fault = h.fault /\ Free(g) = Free(h)
               /\ Conserving(g) /\ Routed(g) /\ Listed(g) /\ OthersAwake(g, s)
<1> DEFINE g == [h EXCEPT !.src[s] = f]
<1>1. /\ g \in Host /\ g.src[s] = f
      /\ g.port = h.port /\ g.list = h.list /\ g.control = h.control
      /\ g.fault = h.fault
      /\ \A r \in Srcs : r # s => g.src[r] = h.src[r]
  BY DEF Host
<1>2. g = [h EXCEPT !.src[s] = f]
  OBVIOUS
<1> HIDE DEF g
<1>3. Free(g) = Free(h) /\ Waiting(g) = Waiting(h)
  BY <1>1 DEF Free, Waiting
<1>4. Conserving(g) /\ Routed(g)
  BY <1>1, <1>3 DEF Good, Conserving, Routed
<1>5. Listed(g)
  <2> SUFFICES ASSUME NEW r \in Srcs, g.src[r].blocked PROVE r \in Waiting(g)
    BY DEF Listed
  <2>1. h.src[r].blocked
    BY <1>1
  <2> QED
    BY <1>3, <2>1 DEF Good, Listed
<1>6. OthersAwake(g, s)
  BY <1>1 DEF Good, AllAwake, OthersAwake, Awake
<1> QED
  BY <1>1, <1>2, <1>3, <1>4, <1>5, <1>6

\* startFlow sends on every free port; what is left waits in the list.
LEMMA StartGood ==
    ASSUME NicInv, NEW s \in Srcs, Start(s)
    PROVE  NicInv'
<1> DEFINE f == Flow0(TRUE, NPkts)
           h == [host EXCEPT !.src[s] = f]
           k == Min({NPkts, Cardinality(Free(host))})
<1>1. NPkts \in Nat /\ NPkts > 0 /\ MaxRoom \in Nat
  BY NicAssumption
<1>2. f \in Flow /\ Pending(f) = NPkts /\ f.backlog = NPkts /\ f.rtx = 0 /\ ~f.blocked
  <2>1. f = [started |-> TRUE, backlog |-> NPkts, rtx |-> 0, out |-> 0,
             room |-> MaxRoom, blocked |-> FALSE]
    BY DEF Flow0
  <2> HIDE DEF f
  <2> QED
    BY <1>1, <2>1 DEF Flow, Pending
<1>3. PICK T \in kSubset(k, Free(host)) : host' = StartFlowOn(host, s, T)
  BY DEF Start
<1> DEFINE m == SendAtOnce(h, s, T)
<1>4. host' = IF m.src[s].backlog > 0 THEN BlockOnNic(m, s) ELSE m
  BY <1>3 DEF StartFlowOn
<1> HIDE DEF f
<1>5. /\ h \in Host /\ h.src[s] = f
      /\ h.port = host.port /\ h.list = host.list /\ h.control = host.control
      /\ h.fault = host.fault /\ Free(h) = Free(host)
      /\ Conserving(h) /\ Routed(h) /\ Listed(h) /\ OthersAwake(h, s)
  BY <1>2, ChangeFlow DEF NicInv
<1>6. /\ k \in Nat /\ k <= NPkts
      /\ k = NPkts \/ k = Cardinality(Free(h))
  BY <1>1, <1>5, FreeFinite, MinTwo
<1> HIDE DEF h, k
<1>7. /\ k = 0 <=> T = {}
      /\ k = Cardinality(Free(h)) => T = Free(h)
  BY <1>3, <1>5, <1>6, PortsTaken
<1>8. /\ m \in Host
      /\ m.list = h.list /\ m.control = h.control /\ m.fault = h.fault
      /\ Free(m) = Free(h) \ T
      /\ Routed(m)
      /\ \A r \in Srcs : r # s => m.src[r] = h.src[r]
      /\ T # {} => m.src[s] = Send(f, k)
      /\ T = {} => m = h
  BY <1>2, <1>3, <1>5, <1>6, SendAtOnceShape
<1> HIDE DEF m
<1>9. /\ m.src[s] \in Flow /\ ~m.src[s].blocked
      /\ Pending(m.src[s]) = NPkts - k /\ m.src[s].backlog = NPkts - k
  <2>1. CASE T = {}
    BY <1>1, <1>2, <1>5, <1>7, <1>8, <2>1
  <2>2. CASE T # {}
    BY <1>2, <1>6, <1>8, <2>2, SendShape
  <2> QED
    BY <2>1, <2>2
<1>10. Waiting(m) = Waiting(h)
  BY <1>8 DEF Waiting
<1>11. Listed(m)
  <2> SUFFICES ASSUME NEW r \in Srcs, m.src[r].blocked PROVE r \in Waiting(m)
    BY DEF Listed
  <2>1. h.src[r].blocked
    BY <1>8, <1>9
  <2> QED
    BY <1>5, <1>10, <2>1 DEF Listed
<1>12. OthersAwake(m, s)
  BY <1>5, <1>8 DEF OthersAwake, Awake
<1>13. CASE m.src[s].backlog > 0
  <2>1. Free(m) = {}
    BY <1>1, <1>6, <1>7, <1>8, <1>9, <1>13
  <2>2. host' = BlockOnNic(m, s)
    BY <1>4, <1>13
  <2>3. /\ host' \in Host
        /\ host'.port = m.port /\ host'.fault = m.fault
        /\ \A r \in Srcs : r # s => host'.src[r] = m.src[r]
        /\ host'.src[s].blocked
        /\ Waiting(host') = Waiting(m) \cup {s}
    BY <1>8, <2>2, BlockOnNicShape
  <2>4. Conserving(host') /\ Routed(host')
    BY <1>8, <2>1, <2>3 DEF Conserving, Routed, Free
  <2>5. Listed(host') /\ AllAwake(host')
    BY <1>11, <1>12, <2>3 DEF Listed, AllAwake, OthersAwake, Awake
  <2> QED
    BY <1>5, <1>8, <2>3, <2>4, <2>5 DEF NicInv, Good, InStep
<1>14. CASE ~(m.src[s].backlog > 0)
  <2>1. host' = m
    BY <1>4, <1>14
  <2>2. ~CanSend(m.src[s])
    BY <1>1, <1>6, <1>9, <1>14 DEF CanSend, Pending
  <2>3. Conserving(m)
    BY <1>5, <1>8 DEF Conserving
  <2>4. AllAwake(m)
    BY <1>12, <2>2 DEF AllAwake, OthersAwake, Awake
  <2> QED
    BY <1>5, <1>8, <1>11, <2>1, <2>3, <2>4 DEF NicInv, Good, InStep
<1> QED
  BY <1>13, <1>14

\* An ACK or a NACK changes a sender, which then sends what it may.
LEMMA FeedbackGood ==
    ASSUME NicInv, NEW s \in Srcs, NEW f \in Flow, f.blocked = host.src[s].blocked,
           Feedback(s, f)
    PROVE  NicInv'
<1> DEFINE h == [host EXCEPT !.src[s] = f]
<1>1. PICK T \in kSubset(Permitted(h, s), Free(h)) : host' = SendIfPermitted(h, s, T)
  BY DEF Feedback
<1>2. /\ h \in Host /\ h.fault = host.fault
      /\ Conserving(h) /\ Routed(h) /\ Listed(h) /\ OthersAwake(h, s)
  BY ChangeFlow DEF NicInv
<1> HIDE DEF h
<1>3. host' \in Host /\ Good(host') /\ host'.fault = h.fault
  BY <1>1, <1>2, SendIfPermittedGood
<1> QED
  BY <1>2, <1>3, NicInvNext DEF NicInv

\* The timer's second test finds every port busy when the window is open.
LEMMA TimeoutGood ==
    ASSUME NicInv, NEW s \in Srcs, Timeout(s)
    PROVE  NicInv'
<1>0. PICK room \in host.src[s].room .. MaxRoom, rtsDue \in BOOLEAN, p \in Ports :
        \E T \in kSubset(Permitted(GiveUp(host, s, room), s), Free(GiveUp(host, s, room))) :
           /\ Free(GiveUp(host, s, room)) \ T # {} => p \in Free(GiveUp(host, s, room)) \ T
           /\ host' = RtxTimerExpired(host, s, room, T, rtsDue, p)
  BY DEF Timeout
<1>1. PICK T \in kSubset(Permitted(GiveUp(host, s, room), s), Free(GiveUp(host, s, room))) :
        /\ Free(GiveUp(host, s, room)) \ T # {} => p \in Free(GiveUp(host, s, room)) \ T
        /\ host' = RtxTimerExpired(host, s, room, T, rtsDue, p)
  BY <1>0
<1> DEFINE o == host.src[s]
           f == [o EXCEPT !.out = o.out - 1, !.rtx = o.rtx + 1, !.room = room]
           h == GiveUp(host, s, room)
           g == SendIfPermitted(h, s, T)
<1>2. o \in Flow /\ o.out > 0 /\ room \in Nat
  <2>1. o \in Flow
    BY DEF NicInv, Host
  <2>2. o.room \in Nat /\ MaxRoom \in Nat
    BY <2>1, NicAssumption DEF Flow
  <2> QED
    BY <2>1, <2>2 DEF Timeout
<1>3. f \in Flow /\ f.blocked = o.blocked
  <2> DEFINE a == o.out - 1
             b == o.rtx + 1
  <2>1. a \in Nat /\ b \in Nat
    BY <1>2 DEF Flow
  <2>2. f = [o EXCEPT !.out = a, !.rtx = b, !.room = room]
    OBVIOUS
  <2> HIDE DEF o, a, b, f
  <2> QED
    BY <1>2, <2>1, <2>2 DEF Flow
<1>4. h = [host EXCEPT !.src[s] = f]
  BY ZenonT(60), <1>2 DEF GiveUp, Flow, NicInv, Host
<1> HIDE DEF f, h
<1>5. /\ h \in Host /\ h.fault = host.fault
      /\ Conserving(h) /\ Routed(h) /\ Listed(h) /\ OthersAwake(h, s)
  BY <1>3, <1>4, ChangeFlow DEF NicInv
<1>6. /\ g \in Host /\ Good(g) /\ g.fault = host.fault
      /\ Free(g) = Free(h) \ T
  BY <1>1, <1>5, SendIfPermittedGood DEF h
<1> DEFINE e == [g EXCEPT !.src[s].out = @ + 1]
<1>7. host' = IF o.rtx > 0 THEN g
              ELSE IF g.src[s].room = 0
              THEN IF rtsDue THEN SendControlPacket(e, p) ELSE g
              ELSE IF Free(g) = {} THEN RequestSending(g, s)
              ELSE IF g.src[s].rtx = 0 THEN Fails(g, "empty rtx queue")
              ELSE [g EXCEPT !.port[p] = p, !.src[s] = Send(@, 1)]
  BY <1>1 DEF RtxTimerExpired, h
<1>8. Free(g) # {} => p \in Free(g)
  BY <1>1, <1>6 DEF h
<1>9. InStep
  BY DEF NicInv
<1> HIDE DEF g, e, o
<1>10. CASE host' = g
  BY <1>6, <1>9, <1>10, NicInvNext
<1>11. CASE g.src[s].room = 0 /\ host' = SendControlPacket(e, p)
  <2> DEFINE u == g.src[s]
             v == [u EXCEPT !.out = u.out + 1]
  <2>1. u \in Flow
    BY <1>6 DEF Host
  <2>2. v \in Flow /\ v.blocked = u.blocked /\ v.room = u.room
    <3> HIDE DEF u
    <3> QED
      BY <2>1 DEF Flow
  <2>3. e = [g EXCEPT !.src[s] = v]
    BY <1>6, <2>1 DEF e, Host, Flow
  <2> HIDE DEF v
  <2>4. /\ e \in Host /\ e.src[s] = v /\ e.fault = g.fault /\ Free(e) = Free(g)
        /\ Conserving(e) /\ Routed(e) /\ Listed(e) /\ OthersAwake(e, s)
    BY <1>6, <2>2, <2>3, ChangeFlow
  <2>5. AllAwake(e)
    BY <1>11, <2>2, <2>4 DEF AllAwake, OthersAwake, Awake, CanSend
  <2>6. host' \in Host /\ Good(host') /\ host'.fault = e.fault
    BY <1>8, <1>11, <2>4, <2>5, SendControlPacketGood DEF Good
  <2> QED
    BY <1>6, <1>9, <2>4, <2>6, NicInvNext
<1>12. CASE Free(g) = {} /\ host' = RequestSending(g, s)
  <2>1. /\ host' \in Host
        /\ host'.port = g.port /\ host'.fault = g.fault /\ host'.src = g.src
        /\ Waiting(host') = Waiting(g) \cup {s}
    BY <1>6, <1>12, RequestSendingShape
  <2>2. Conserving(host') /\ Routed(host')
    BY <1>6, <1>12, <2>1 DEF Good, Conserving, Routed, Free
  <2>3. Listed(host') /\ AllAwake(host')
    BY <1>6, <2>1 DEF Good, Listed, AllAwake, Awake
  <2> QED
    BY <1>6, <1>9, <2>1, <2>2, <2>3, NicInvNext DEF Good
<1>13. CASE host' = Fails(g, "empty rtx queue")
  <2>1. /\ host' \in Host /\ host'.port = g.port /\ host'.list = g.list
        /\ host'.control = g.control /\ host'.src = g.src
        /\ host'.fault = "empty rtx queue"
    <3> DEFINE what == "empty rtx queue"
    <3>1. what \in Faults \cup {"none"} /\ what = "empty rtx queue"
      BY DEF Faults
    <3>2. host' = [g EXCEPT !.fault = what]
      BY <1>13 DEF Fails
    <3> HIDE DEF what
    <3> QED
      BY <1>6, <3>1, <3>2 DEF Host
  <2>2. Conserving(host') /\ Routed(host')
    BY <1>6, <2>1 DEF Good, Conserving, Routed, Free
  <2>3. Listed(host') /\ AllAwake(host')
    BY <1>6, <2>1, SameWaiting DEF Good
  <2> QED
    BY <2>1, <2>2, <2>3, NicInvNext DEF Good
<1>14. ASSUME g.src[s].room # 0, Free(g) # {}
       PROVE  g.src[s].rtx = 0
  <2> SUFFICES ASSUME g.src[s].rtx # 0 PROVE FALSE
    OBVIOUS
  <2>1. g.src[s] \in Flow
    BY <1>6 DEF Host
  <2>2. CanSend(g.src[s])
    BY <1>14, <2>1 DEF CanSend, Flow
  <2>3. s \in Waiting(g)
    BY <1>6, <2>2 DEF Good, AllAwake, Awake, Listed
  <2>4. g.list # <<>>
    BY <2>3 DEF Waiting
  <2> QED
    BY <1>6, <1>14, <2>4 DEF Good, Conserving
<1> QED
  BY <1>7, <1>10, <1>11, <1>12, <1>13, <1>14

\* A freed port is the only free one when something waits: both searches find
\* it, and the turn goes out on it.
LEMMA PortDoneGood ==
    ASSUME NicInv, NEW freed \in Ports, PortDone(freed)
    PROVE  NicInv'
<1> DEFINE idle == [host EXCEPT !.port[freed] = Idle]
           crt == IF host.list # <<>> /\ host.control > 0 THEN NextCrt(host) ELSE host.crt
           h == IF host.list # <<>> /\ host.control > 0
                THEN [idle EXCEPT !.crt = NextCrt(host)] ELSE idle
           port == [host.port EXCEPT ![freed] = Idle]
<1>1. PICK route \in Ports, p \in Ports :
        TwoSearches(idle, route, p) /\ host' = PortFreed(host, freed, route, p)
  BY DEF PortDone
<1>2. host' = IF DataTurn(host) THEN GiveTurn(h, route, p)
              ELSE IF host.control > 0 THEN SendControlNow(h, p) ELSE h
  BY <1>1 DEF PortFreed
<1>3. crt \in 0 .. (RatioControl + RatioData - 1)
  <2>1. /\ RatioControl \in Nat /\ RatioData \in Nat
        /\ RatioControl > 0 /\ RatioData > 0
    BY NicAssumption
  <2>2. host.crt \in 0 .. (RatioControl + RatioData - 1)
    BY DEF NicInv, Host
  <2>3. NextCrt(host) \in 0 .. (RatioControl + RatioData - 1)
    BY <2>1, <2>2 DEF NextCrt
  <2> QED
    BY <2>2, <2>3
<1>4. /\ port \in [Ports -> Ports \cup {Idle}]
      /\ \A q \in Ports : port[q] = IF q = freed THEN Idle ELSE host.port[q]
  BY DEF NicInv, Host
<1>5. /\ idle \in Host /\ idle.port = port /\ idle.list = host.list
      /\ idle.control = host.control /\ idle.src = host.src /\ idle.fault = host.fault
      /\ idle.crt = host.crt
  <2>1. idle = [host EXCEPT !.port = port]
    BY DEF NicInv, Host
  <2> HIDE DEF idle, port
  <2> QED
    BY <1>4, <2>1 DEF NicInv, Host
<1>6. h.port = port /\ h.list = host.list /\ h.control = host.control
      /\ h.src = host.src /\ h.fault = host.fault /\ h \in Host
  <2> DEFINE c == NextCrt(host)
  <2>1. CASE host.list # <<>> /\ host.control > 0
    <3>1. h = [idle EXCEPT !.crt = c] /\ c \in 0 .. (RatioControl + RatioData - 1)
      BY <1>3, <2>1
    <3> HIDE DEF idle, c, h, port
    <3> QED
      BY <1>5, <3>1 DEF Host
  <2>2. CASE ~(host.list # <<>> /\ host.control > 0)
    <3>1. h = idle
      BY <2>2
    <3> QED
      BY <1>5, <3>1
  <2> QED
    BY <2>1, <2>2
<1> HIDE DEF idle, h, port, crt
<1>7. Free(idle) = Free(host) \cup {freed} /\ Free(h) = Free(host) \cup {freed}
  BY <1>4, <1>5, <1>6 DEF Free
<1>8. Routed(h)
  BY <1>4, <1>6 DEF NicInv, Good, Routed
<1>9. Listed(h) /\ AllAwake(h)
  BY <1>6, SameWaiting DEF NicInv, Good
<1>10. CASE host.list # <<>> \/ host.control > 0
  <2>1. Free(idle) = {freed} /\ Free(h) = {freed}
    BY <1>7, <1>10 DEF NicInv, Good, Conserving
  <2>2. route = freed /\ p = freed
    BY <1>1, <2>1 DEF TwoSearches
  <2>3. CASE DataTurn(host)
    <3>1. host' = GiveTurn(h, freed, freed)
      BY <1>2, <2>2, <2>3
    <3>2. host' \in Host /\ Good(host') /\ host'.fault = h.fault
      BY <1>6, <1>8, <1>9, <2>1, <3>1, GiveTurnGood
    <3> QED
      BY <1>6, <3>2, NicInvNext DEF NicInv
  <2>4. CASE ~DataTurn(host)
    <3>1. host.control > 0
      BY <1>10, <2>4 DEF DataTurn, NicInv, Host
    <3>2. host' = SendControlNow(h, freed)
      BY <1>2, <2>2, <2>4, <3>1
    <3>3. host' \in Host /\ Good(host') /\ host'.fault = h.fault
      BY <1>6, <1>8, <1>9, <2>1, <3>1, <3>2, SendControlNowGood
    <3> QED
      BY <1>6, <3>3, NicInvNext DEF NicInv
  <2> QED
    BY <2>3, <2>4
<1>11. CASE ~(host.list # <<>> \/ host.control > 0)
  <2>1. host' = h
    BY <1>2, <1>11 DEF DataTurn
  <2>2. Conserving(h)
    BY <1>6, <1>11 DEF Conserving
  <2> QED
    BY <1>6, <1>8, <1>9, <2>1, <2>2, NicInvNext DEF Good, NicInv
<1> QED
  BY <1>10, <1>11

\* Nothing waits at the start.
LEMMA InitGood == Init => NicInv
<1> SUFFICES ASSUME Init PROVE NicInv
  OBVIOUS
<1>1. NPkts \in Nat /\ MaxRoom \in Nat
      /\ 0 \in 0 .. (RatioControl + RatioData - 1)
  BY NicAssumption
<1>2. Flow0(FALSE, 0) \in Flow /\ ~Flow0(FALSE, 0).blocked /\ ~CanSend(Flow0(FALSE, 0))
  BY <1>1 DEF Flow0, Flow, CanSend
<1>3. /\ host.port = [p \in Ports |-> Idle] /\ host.list = <<>> /\ host.control = 0
      /\ host.fault = "none" /\ host.src = [s \in Srcs |-> Flow0(FALSE, 0)]
      /\ \A s \in Srcs : host.src[s] = Flow0(FALSE, 0)
  BY DEF Init, InitHost
<1>4. host \in Host
  <2> DEFINE port == [p \in Ports |-> Idle]
             sf == [s \in Srcs |-> Flow0(FALSE, 0)]
             zero == 0
  <2>1. /\ port \in [Ports -> Ports \cup {Idle}] /\ sf \in [Srcs -> Flow]
        /\ zero \in Nat /\ zero \in 0 .. (RatioControl + RatioData - 1)
        /\ <<>> \in Seq(Srcs)
    <3>1. port \in [Ports -> Ports \cup {Idle}] /\ <<>> \in Seq(Srcs)
      OBVIOUS
    <3>2. sf \in [Srcs -> Flow]
      <4>1. Flow0(FALSE, 0) \in Flow
        BY <1>2
      <4> DEFINE f == Flow0(FALSE, 0)
      <4> HIDE DEF f
      <4>2. ASSUME f \in Flow PROVE [s \in Srcs |-> f] \in [Srcs -> Flow]
        BY <4>2
      <4> QED
        BY <4>1, <4>2 DEF f
    <3>3. zero \in Nat /\ zero \in 0 .. (RatioControl + RatioData - 1)
      BY <1>1
    <3> QED
      BY <3>1, <3>2, <3>3
  <2>2. host = [port |-> port, list |-> <<>>, control |-> zero, crt |-> zero,
                fault |-> "none", src |-> sf]
    BY DEF Init, InitHost
  <2> HIDE DEF port, sf, zero
  <2> QED
    BY <2>1, <2>2 DEF Host
<1>5. Good(host) /\ InStep
  <2>1. Conserving(host)
    BY <1>3 DEF Conserving
  <2>2. Routed(host)
    BY <1>3 DEF Routed
  <2>3. Listed(host) /\ AllAwake(host)
    <3> DEFINE f == Flow0(FALSE, 0)
    <3>1. ~f.blocked /\ ~CanSend(f) /\ \A s \in Srcs : host.src[s] = f
      BY <1>2, <1>3
    <3> HIDE DEF f
    <3> QED
      BY <3>1 DEF Listed, AllAwake, Awake
  <2>4. InStep
    BY <1>3 DEF InStep
  <2> QED
    BY <2>1, <2>2, <2>3, <2>4 DEF Good
<1> QED
  BY <1>4, <1>5 DEF NicInv

\* Every step keeps the invariant.
LEMMA NextGood == NicInv /\ [Next]_host => NicInv'
<1> SUFFICES ASSUME NicInv, [Next]_host PROVE NicInv'
  OBVIOUS
<1>1. ASSUME NEW s \in Srcs, Start(s) PROVE NicInv'
  BY <1>1, StartGood
<1>2. ASSUME NEW s \in Srcs, Ack(s) PROVE NicInv'
  <2> DEFINE o == host.src[s]
  <2>1. PICK a \in 0 .. o.out, q \in 0 .. o.rtx, room \in 0 .. MaxRoom :
          Feedback(s, [o EXCEPT !.out = o.out - a, !.rtx = o.rtx - q, !.room = room])
    BY <1>2 DEF Ack
  <2>2. o \in Flow /\ MaxRoom \in Nat
    BY NicAssumption DEF NicInv, Host
  <2> DEFINE out == o.out - a
             rtx == o.rtx - q
             f == [o EXCEPT !.out = out, !.rtx = rtx, !.room = room]
  <2>3. out \in Nat /\ rtx \in Nat /\ room \in Nat
    BY <2>2 DEF Flow
  <2>4. f \in Flow /\ f.blocked = o.blocked
    <3> HIDE DEF o, out, rtx
    <3> QED
      BY <2>2, <2>3 DEF Flow
  <2>5. Feedback(s, f)
    BY <2>1
  <2> HIDE DEF f
  <2> QED
    BY <2>4, <2>5, FeedbackGood
<1>3. ASSUME NEW s \in Srcs, Nack(s) PROVE NicInv'
  <2> DEFINE o == host.src[s]
  <2>1. PICK room \in 0 .. Min({o.room + 1, MaxRoom}) :
          Feedback(s, GiveUp(host, s, room).src[s])
    BY <1>3 DEF Nack
  <2>2. o \in Flow /\ MaxRoom \in Nat
    BY NicAssumption DEF NicInv, Host
  <2>3. Min({o.room + 1, MaxRoom}) \in Nat
    BY <2>2, MinTwo DEF Flow
  <2> DEFINE out == o.out - 1
             rtx == o.rtx + 1
             f == [o EXCEPT !.out = out, !.rtx = rtx, !.room = room]
  <2>4. out \in Nat /\ rtx \in Nat /\ room \in Nat
    BY <1>3, <2>2, <2>3 DEF Flow, Nack
  <2>5. f \in Flow /\ f.blocked = o.blocked
    <3> HIDE DEF o, out, rtx
    <3> QED
      BY <2>2, <2>4 DEF Flow
  <2>6. GiveUp(host, s, room).src[s] = f
    BY <2>2 DEF GiveUp, NicInv, Host, Flow
  <2>7. Feedback(s, f)
    BY <2>1, <2>6
  <2> HIDE DEF f
  <2> QED
    BY <2>5, <2>7, FeedbackGood
<1>4. ASSUME NEW s \in Srcs, Timeout(s) PROVE NicInv'
  BY <1>4, TimeoutGood
<1>5. CASE ReceiverSends
  <2>1. PICK p \in Ports : /\ Free(host) # {} => p \in Free(host)
                           /\ host' = SendControlPacket(host, p)
    BY <1>5 DEF ReceiverSends
  <2>2. host' \in Host /\ Good(host') /\ host'.fault = host.fault
    BY <2>1, SendControlPacketGood DEF NicInv
  <2> QED
    BY <2>2, NicInvNext DEF NicInv
<1>6. ASSUME NEW p \in Ports, PortDone(p) PROVE NicInv'
  BY <1>6, PortDoneGood
<1>7. CASE host' = host
  BY <1>7, NicInvNext DEF NicInv
<1> QED
  BY <1>1, <1>2, <1>3, <1>4, <1>5, <1>6, <1>7 DEF Next, Stopped

-----------------------------------------------------------------------------
(* Theorems *)

\* The invariant holds throughout.
THEOREM NicInvariant == Spec => []NicInv
  BY InitGood, NextGood, PTL DEF Spec

\* Type correctness for every number of senders, ports and packets.
THEOREM TypeCorrect == Spec => []TypeOK
<1>1. NicInv => TypeOK
  BY DEF NicInv, TypeOK, Host, Flow
<1> QED
  BY <1>1, NicInvariant, PTL

\* No port idles while anything waits for one (requestSending, cantSend,
\* doNextEvent), however many ports the NIC has.
THEOREM PortsWorkConserving == Spec => []WorkConserving
<1>1. NicInv => WorkConserving
  BY DEF NicInv, Good, Conserving, WorkConserving
<1> QED
  BY <1>1, NicInvariant, PTL

\* A sender that may send is in the NIC's list (sendIfPermitted, timeToSend,
\* rtxTimerExpired): no wakeup is lost.
THEOREM NoWakeupIsLost == Spec => []NoLostWakeup
<1>1. NicInv => NoLostWakeup
  BY DEF NicInv, Good, Listed, AllAwake, Awake, NoLostWakeup
<1> QED
  BY <1>1, NicInvariant, PTL

\* The route of timeToSend and the port of startSending are the same port.
THEOREM RouteOfThePort == Spec => []PortMatchesRoute
<1>1. NicInv => PortMatchesRoute
  BY DEF NicInv, Good, Routed, PortMatchesRoute
<1> QED
  BY <1>1, NicInvariant, PTL

\* Neither exception of the NIC dialogue is thrown, and the assertion of
\* requestSending never fails.
THEOREM DialogueInStep == Spec => []InStep
<1>1. NicInv => InStep
  BY DEF NicInv
<1> QED
  BY <1>1, NicInvariant, PTL
=============================================================================
