------------------------- MODULE UecCredit_proofs -------------------------
(***************************************************************************)
(* The invariants of receiver based credit for any flows, sizes and        *)
(* bounds.                                                                 *)
(*                                                                         *)
(* The argument.  A sender's books (SrcOK) hold by its own steps alone;    *)
(* a pull moves credit and pull number together.  Pull numbers on the way  *)
(* never exceed what the receiver has granted, targets on the way never    *)
(* exceed what the sender may ask for at the pull number it has now, and   *)
(* both bounds only grow (MsgOK, Between): so the order in which messages  *)
(* arrive does not matter.                                                 *)
(***************************************************************************)
EXTENDS UecCredit, NatFacts_proofs, TLAPS, FiniteSetTheorems, FunctionTheorems, SequenceTheorems

SrcSet == [backlog : 0 .. NPkts, out : SUBSET Packets, rtx : SUBSET Packets,
           credit : Int, spec : BOOLEAN, pull : Nat, target : Int,
           rts : 0 .. MaxRts, bytes : Nat]
SnkSet == [got : SUBSET Packets, latest : Nat, highest : Int, inPull : BOOLEAN, inSlow : BOOLEAN]
PacerSet == [active : Seq(Flows), idle : Seq(Flows), on : BOOLEAN]

\* What a sender may ask for beyond its pull number: a window and a packet.
Demand == QuantizeCeil(MaxWnd + Mtu)

\* A packet waits for an answer or for its retransmission; RTS are numbered in turn.
Sorted(s) ==
    /\ s.out \cap s.rtx = {}
    /\ \A n \in 1 .. MaxRts : Rts(n) \in s.out \cup s.rtx => n <= s.rts

Books(s) ==
    /\ s.credit > -Mtu
    /\ s.bytes + s.credit <= MaxWnd + Unquantize(s.pull)
    /\ s.target <= s.pull + Demand

SrcOK(s) == s \in SrcSet /\ Sorted(s) /\ Books(s)

\* A sender and its receiver.
Between(s, k) == s.pull <= k.latest /\ k.highest <= s.pull + Demand

\* A message, by what its sender may ask for and its receiver has granted by now.
MsgOK(m, ss, ks) ==
    /\ m.t \in {"data", "rts", "trim"} =>
         m.from \in Flows /\ m.p \in Packets /\ m.target \in Int
           /\ m.target <= ss[m.from].pull + Demand
    /\ m.t = "ack" => m.to \in Flows /\ m.got \subseteq Packets
    /\ m.t = "nack" => m.to \in Flows /\ m.p \in Packets
    /\ m.t = "pull" => m.to \in Flows /\ m.no \in Nat /\ m.no <= ks[m.to].latest

\* The sinks that believe they are in the list are in it, each once.
Listed(ks, p) ==
    /\ IsInjective(p.active)
    /\ ToSet(p.active) = {f \in Flows : ks[f].inPull}
Awake(p) == p.active # <<>> \/ p.idle # <<>> => p.on

Functions == src \in [Flows -> SrcSet] /\ snk \in [Flows -> SnkSet] /\ pacer \in PacerSet

CreditInv ==
    /\ Functions
    /\ \A f \in Flows : SrcOK(src[f])
    /\ \A f \in Flows : Between(src[f], snk[f])
    /\ \A m \in net : MsgOK(m, src, snk)
    /\ Listed(snk, pacer)
    /\ Awake(pacer)

-----------------------------------------------------------------------------
(* Quanta and shares *)

\* What is assumed of the sizes and bounds, one by one.
LEMMA Constants ==
    /\ NPkts \in Nat \ {0} /\ Mtu \in Nat \ {0} /\ Hdr \in Nat \ {0} /\ Quantum \in Nat \ {0}
    /\ CreditPerPull \in Nat \ {0} /\ MaxWnd \in Nat /\ Hdr <= Mtu
    /\ MaxRts \in Nat /\ \A active \in ActiveSources : active \in Nat \ {0}
BY CreditAssumption

\* Rounding up to quanta gives an integer.
LEMMA CeilType ==
    ASSUME NEW b \in Int
    PROVE  QuantizeCeil(b) \in Int
BY Constants DEF QuantizeCeil

\* Rounding up to quanta keeps the order.
LEMMA CeilMonotone ==
    ASSUME NEW a \in Int, NEW b \in Int, a <= b
    PROVE  QuantizeCeil(a) <= QuantizeCeil(b)
<1> DEFINE m == -a
           n == -b
<1>1. m \in Int /\ n \in Int /\ n <= m
  OBVIOUS
<1> HIDE DEF m, n
<1>2. n \div Quantum <= m \div Quantum /\ n \div Quantum \in Int /\ m \div Quantum \in Int
  BY <1>1, Constants
<1> QED
  BY <1>2 DEF QuantizeCeil, m, n

\* Whole quanta pass through the rounding.
LEMMA CeilOfQuanta ==
    ASSUME NEW b \in Int, NEW n \in Int
    PROVE  QuantizeCeil(b + Unquantize(n)) = QuantizeCeil(b) + n
<1> DEFINE a == -b
           k == -n
<1>1. a \in Int /\ k \in Int /\ -(b + n * Quantum) = a + k * Quantum
  BY Constants
<1> HIDE DEF a, k
<1>2. (a + k * Quantum) \div Quantum = a \div Quantum + k /\ a \div Quantum \in Int
  BY <1>1, Constants
<1> QED
  BY <1>1, <1>2 DEF QuantizeCeil, Unquantize, a, k

\* A grant in two parts is worth as much as the whole.
LEMMA UnquantizeParts ==
    ASSUME NEW i \in Int, NEW n \in Int
    PROVE  /\ Unquantize(i) \in Int /\ Unquantize(n - i) \in Int
           /\ Unquantize(i) + Unquantize(n - i) = Unquantize(n)
BY Constants DEF Unquantize

\* A share of what is asked for is no more than a bound on the whole.
LEMMA ShareBound ==
    ASSUME NEW b \in Int, NEW n \in Nat \ {0}, NEW w \in Nat, b <= w
    PROVE  Share(b, n) \in Int /\ Share(b, n) <= w
<1>1. CASE b >= 0
  <2>1. b \div n \in Int /\ b \div n <= b
    BY <1>1
  <2> QED
    BY <1>1, <2>1 DEF Share
<1>2. CASE b < 0
  <2> DEFINE c == -b
  <2>1. c \in Nat
    BY <1>2
  <2> HIDE DEF c
  <2>2. c \div n \in Nat
    BY <2>1
  <2> QED
    BY <1>2, <2>2 DEF Share, c
<1> QED
  BY <1>1, <1>2

\* The bound on demand is a number.
LEMMA DemandType == Demand \in Int
BY CeilType, Constants DEF Demand

-----------------------------------------------------------------------------
(* The sender *)

\* A flow has finitely many packets.
LEMMA PacketsFinite == IsFiniteSet(Packets)
<1>1. ASSUME NEW n \in Nat, NEW t PROVE IsFiniteSet({<<t, i>> : i \in 1 .. n})
  <2> DEFINE g == [i \in 1 .. n |-> <<t, i>>]
  <2>1. g \in Surjection(1 .. n, {<<t, i>> : i \in 1 .. n})
    BY Fun_IsSurj
  <2>2. IsFiniteSet(1 .. n)
    BY FS_Interval
  <2> QED
    BY <2>1, <2>2, FS_Surjection
<1>2. /\ IsFiniteSet({<<"data", i>> : i \in 1 .. NPkts})
      /\ IsFiniteSet({<<"rts", i>> : i \in 1 .. MaxRts})
  BY <1>1, Constants
<1> QED
  BY <1>2, FS_Union DEF Packets, Data, Rts

\* The bytes a sender has to send are a number.
LEMMA BacklogType ==
    ASSUME NEW s \in SrcSet
    PROVE  Backlog(s) \in Nat
<1>1. s.backlog \in Nat /\ s.rtx \subseteq Packets
  BY Constants DEF SrcSet
<1>2. IsFiniteSet(s.rtx)
  BY <1>1, PacketsFinite, FS_Subset
<1> DEFINE d == Cardinality({p \in s.rtx : p[1] = "data"})
           r == Cardinality({p \in s.rtx : p[1] = "rts"})
<1>3. d \in Nat /\ r \in Nat
  BY <1>2, FS_Subset, FS_CardinalityType
<1> HIDE DEF d, r
<1>4. (s.backlog + d) * Mtu + r * Hdr \in Nat
  BY <1>1, <1>3, Constants
<1> QED
  BY <1>4 DEF Backlog, d, r

\* Whatever a sender has, it asks for a window and the packet it overdraws at most.
LEMMA TargetBound ==
    ASSUME NEW s \in SrcSet, s.credit > -Mtu, NEW active \in ActiveSources
    PROVE  /\ ComputePullTarget(s, active) \in Int
           /\ ComputePullTarget(s, active) <= s.pull + Demand
<1> DEFINE least == Min({Backlog(s), MaxWnd})
           want == least - s.credit
           ask == IF s.spec /\ want < Mtu /\ s.backlog > 0 THEN Mtu ELSE want
           share == Share(ask, active)
<1>1. s.credit \in Int /\ s.pull \in Nat
  BY DEF SrcSet
<1>2. least \in Int /\ least <= MaxWnd
  BY BacklogType, MinInts, Constants
<1> HIDE DEF least
<1>3. ask \in Int /\ ask <= MaxWnd + Mtu
  BY <1>1, <1>2, Constants
<1> HIDE DEF ask
<1>4. share \in Int /\ share <= MaxWnd + Mtu
  BY <1>3, ShareBound, Constants
<1> HIDE DEF share
<1>5. /\ QuantizeCeil(share + Unquantize(s.pull)) = QuantizeCeil(share) + s.pull
      /\ QuantizeCeil(share) <= Demand /\ QuantizeCeil(share) \in Int
  <2>1. QuantizeCeil(share + Unquantize(s.pull)) = QuantizeCeil(share) + s.pull
    BY <1>1, <1>4, CeilOfQuanta
  <2>2. MaxWnd + Mtu \in Int
    BY Constants
  <2>3. QuantizeCeil(share) <= Demand /\ QuantizeCeil(share) \in Int
    BY <1>4, <2>2, CeilMonotone, CeilType DEF Demand
  <2> QED
    BY <2>1, <2>3
<1>6. ComputePullTarget(s, active) = QuantizeCeil(share + Unquantize(s.pull))
  BY DEF ComputePullTarget, share, ask, least
<1> QED
  BY <1>1, <1>5, <1>6, DemandType

\* Numbers of packets.
LEMMA PacketFacts ==
    /\ \A n \in 1 .. NPkts : Data(n) \in Packets
    /\ \A n \in 1 .. MaxRts : Rts(n) \in Packets
    /\ \A n, m : Data(n) # Rts(m)
    /\ \A n, m : Rts(n) = Rts(m) => n = m
    /\ \A p : Size(p) \in Nat \ {0} /\ Size(p) <= Mtu
BY Constants DEF Packets, Data, Rts, Size

\* The sender after it has spent credit on packet p, which it has sent, and set its target.
LEMMA SentOK ==
    ASSUME NEW s \in SrcSet, Books(s), s.credit > 0, NEW p \in Packets,
           NEW active \in ActiveSources, NEW t \in SrcSet, Sorted(t),
           t.credit = s.credit - Size(p), t.bytes = s.bytes + Size(p), t.pull = s.pull
    PROVE  /\ SrcOK(Retarget(t, active))
           /\ Retarget(t, active).pull = s.pull
           /\ Retarget(t, active).rts = t.rts
           /\ Retarget(t, active).rtx = t.rtx
           /\ Retarget(t, active).out = t.out
<1> DEFINE x == ComputePullTarget(t, active)
           u == [t EXCEPT !.target = x]
<1>1. /\ s.credit \in Int /\ s.pull \in Nat /\ s.bytes \in Nat /\ t.credit \in Int
      /\ t.bytes \in Nat
  BY DEF SrcSet
<1>2. Size(p) \in Nat \ {0} /\ Size(p) <= Mtu
  BY PacketFacts
<1>3. t.credit > -Mtu /\ t.bytes + t.credit <= MaxWnd + Unquantize(s.pull)
  BY <1>1, <1>2, Constants DEF Books
<1>4. x \in Int /\ x <= s.pull + Demand
  BY <1>3, TargetBound
<1> HIDE DEF x
<1>5. /\ u \in SrcSet /\ u.target = x /\ u.pull = t.pull /\ u.rts = t.rts /\ u.rtx = t.rtx
      /\ u.out = t.out /\ u.credit = t.credit /\ u.bytes = t.bytes
  BY <1>4 DEF SrcSet
<1>6. Retarget(t, active) = u
  BY DEF Retarget, x
<1> HIDE DEF u
<1>7. Sorted(u)
  BY <1>5 DEF Sorted
<1>8. Books(u)
  BY <1>3, <1>4, <1>5 DEF Books
<1> QED
  BY <1>5, <1>6, <1>7, <1>8 DEF SrcOK

\* Spending credit changes the credit and the bytes sent, and nothing else.
LEMMA SpendFields ==
    ASSUME NEW s \in SrcSet, NEW p \in Packets
    PROVE  LET u == SpendCredit(s, p)
           IN  /\ u \in SrcSet /\ u.credit = s.credit - Size(p) /\ u.bytes = s.bytes + Size(p)
               /\ u.pull = s.pull /\ u.rts = s.rts /\ u.rtx = s.rtx /\ u.out = s.out
               /\ u.backlog = s.backlog /\ u.target = s.target /\ u.spec = s.spec
<1> DEFINE c == s.credit - Size(p)
           b == s.bytes + Size(p)
           u == [s EXCEPT !.credit = c, !.bytes = b]
<1>1. c \in Int /\ b \in Nat
  BY PacketFacts DEF SrcSet
<1> HIDE DEF c, b
<1>2. /\ u \in SrcSet /\ u.credit = c /\ u.bytes = b
      /\ u.pull = s.pull /\ u.rts = s.rts /\ u.rtx = s.rtx /\ u.out = s.out
      /\ u.backlog = s.backlog /\ u.target = s.target /\ u.spec = s.spec
  BY <1>1 DEF SrcSet
<1> QED
  BY <1>2 DEF SpendCredit, c, b

\* A sender that repeats a packet stays well (sendRtxPacket).
LEMMA SendRtxOK ==
    ASSUME NEW s, SrcOK(s), s.credit > 0, NEW p \in s.rtx, NEW active \in ActiveSources
    PROVE  LET t == SendRtxPacket(s, p, active)
           IN  SrcOK(t) /\ t.pull = s.pull /\ t.rts = s.rts
<1> DEFINE u == SpendCredit(s, p)
           t == [u EXCEPT !.rtx = @ \ {p}, !.out = @ \cup {p}]
<1>1. s \in SrcSet /\ Sorted(s) /\ Books(s)
  BY DEF SrcOK
<1>2. p \in Packets /\ Size(p) \in Nat \ {0}
  BY <1>1, PacketFacts DEF SrcSet
<1>3. /\ u \in SrcSet /\ u.credit = s.credit - Size(p) /\ u.bytes = s.bytes + Size(p)
      /\ u.pull = s.pull /\ u.rts = s.rts /\ u.rtx = s.rtx /\ u.out = s.out
  BY <1>1, <1>2, SpendFields
<1> HIDE DEF u
<1>4. /\ t \in SrcSet /\ t.credit = u.credit /\ t.bytes = u.bytes /\ t.pull = u.pull
      /\ t.rts = u.rts /\ t.rtx = u.rtx \ {p} /\ t.out = u.out \cup {p}
  BY <1>2, <1>3 DEF SrcSet
<1>5. SendRtxPacket(s, p, active) = Retarget(t, active)
  BY DEF SendRtxPacket, u
<1> HIDE DEF t
<1>6. Sorted(t)
  <2>1. t.out \cap t.rtx = {}
    BY <1>1, <1>3, <1>4 DEF Sorted
  <2>2. t.out \cup t.rtx = s.out \cup s.rtx
    BY <1>3, <1>4
  <2> QED
    BY <1>1, <1>3, <1>4, <2>1, <2>2 DEF Sorted
<1> QED
  BY <1>1, <1>2, <1>3, <1>4, <1>5, <1>6, SentOK

\* A sender that sends its next packet stays well, and the packet is one (sendNewPacket).
LEMMA SendNewOK ==
    ASSUME NEW s, SrcOK(s), s.credit > 0, s.rtx = {}, s.backlog > 0,
           NEW active \in ActiveSources
    PROVE  /\ SrcOK(SendNewPacket(s, active))
           /\ SendNewPacket(s, active).pull = s.pull
           /\ Data(NPkts - s.backlog + 1) \in Packets
<1> DEFINE p == Data(NPkts - s.backlog + 1)
           u == SpendCredit(s, p)
           t == [u EXCEPT !.backlog = @ - 1, !.out = @ \cup {p}]
<1>1. s \in SrcSet /\ Sorted(s) /\ Books(s)
  BY DEF SrcOK
<1>2. /\ p \in Packets /\ Size(p) \in Nat \ {0} /\ s.backlog - 1 \in 0 .. NPkts
      /\ \A m : p # Rts(m)
  <2>1. s.backlog \in 1 .. NPkts
    BY <1>1, Constants DEF SrcSet
  <2>2. NPkts - s.backlog + 1 \in 1 .. NPkts /\ s.backlog - 1 \in 0 .. NPkts
    BY <2>1, Constants
  <2> QED
    BY <2>2, PacketFacts
<1> HIDE DEF p
<1>3. /\ u \in SrcSet /\ u.credit = s.credit - Size(p) /\ u.bytes = s.bytes + Size(p)
      /\ u.pull = s.pull /\ u.rts = s.rts /\ u.rtx = s.rtx /\ u.out = s.out
      /\ u.backlog = s.backlog
  BY <1>1, <1>2, SpendFields
<1> HIDE DEF u
<1>4. /\ t \in SrcSet /\ t.credit = u.credit /\ t.bytes = u.bytes /\ t.pull = u.pull
      /\ t.rts = u.rts /\ t.rtx = u.rtx /\ t.out = u.out \cup {p}
  BY <1>2, <1>3 DEF SrcSet
<1>5. SendNewPacket(s, active) = Retarget(t, active)
  BY DEF SendNewPacket, u, p
<1> HIDE DEF t
<1>6. Sorted(t)
  <2>1. t.rtx = {} /\ t.out = s.out \cup {p} /\ t.rts = s.rts
    BY <1>3, <1>4
  <2> QED
    BY <1>1, <1>2, <2>1 DEF Sorted
<1> QED
  BY <1>1, <1>2, <1>3, <1>4, <1>5, <1>6, SentOK DEF p

\* A sender that stops speculating stays well, with no more credit (stopSpeculating).
LEMMA StopOK ==
    ASSUME NEW s, SrcOK(s)
    PROVE  LET t == StopSpeculating(s)
           IN  /\ SrcOK(t) /\ t.pull = s.pull /\ t.out = s.out /\ t.rtx = s.rtx /\ t.rts = s.rts
               /\ t.target = s.target /\ t.bytes = s.bytes /\ t.credit <= s.credit
<1>1. s \in SrcSet /\ Sorted(s) /\ Books(s) /\ s.credit \in Int /\ s.bytes \in Nat /\ s.pull \in Nat
  BY DEF SrcOK, SrcSet
<1>2. CASE s.spec
  <2> DEFINE c == Min({s.credit, 0})
             t == [s EXCEPT !.spec = FALSE, !.credit = c]
  <2>1. c \in Int /\ c <= s.credit /\ c > -Mtu
    BY <1>1, MinInts, Constants DEF Books
  <2>2. StopSpeculating(s) = t
    BY <1>2 DEF StopSpeculating
  <2> HIDE DEF c
  <2>3. /\ t \in SrcSet /\ t.pull = s.pull /\ t.out = s.out /\ t.rtx = s.rtx /\ t.rts = s.rts
        /\ t.target = s.target /\ t.bytes = s.bytes /\ t.credit = c
    BY <1>1, <2>1 DEF SrcSet
  <2> HIDE DEF t
  <2>4. Sorted(t)
    BY <1>1, <2>3 DEF Sorted
  <2>5. Unquantize(s.pull) \in Int
    BY <1>1, Constants DEF Unquantize
  <2>6. Books(t)
    BY <1>1, <2>1, <2>3, <2>5, Constants DEF Books
  <2> QED
    BY <2>1, <2>2, <2>3, <2>4, <2>6 DEF SrcOK
<1>3. CASE ~s.spec
  BY <1>1, <1>3 DEF StopSpeculating
<1> QED
  BY <1>2, <1>3

\* A sender that queues a packet for repetition stays well (queueForRtx).
LEMMA QueueOK ==
    ASSUME NEW s, SrcOK(s), NEW p \in s.out
    PROVE  LET t == QueueForRtx(s, p)
           IN  /\ SrcOK(t) /\ p \in t.rtx /\ t.pull = s.pull /\ t.rts = s.rts
               /\ t.target = s.target /\ t.credit = s.credit
<1> DEFINE t == [s EXCEPT !.out = @ \ {p}, !.rtx = @ \cup {p}]
<1>1. s \in SrcSet /\ Sorted(s) /\ Books(s)
  BY DEF SrcOK
<1>2. /\ t \in SrcSet /\ t.out = s.out \ {p} /\ t.rtx = s.rtx \cup {p} /\ t.pull = s.pull
      /\ t.rts = s.rts /\ t.target = s.target /\ t.credit = s.credit /\ t.bytes = s.bytes
  BY <1>1 DEF SrcSet
<1>3. QueueForRtx(s, p) = t
  BY DEF QueueForRtx
<1> HIDE DEF t
<1>4. Sorted(t)
  <2>1. t.out \cap t.rtx = {} /\ t.out \cup t.rtx = s.out \cup s.rtx
    BY <1>1, <1>2 DEF Sorted
  <2> QED
    BY <1>1, <1>2, <2>1 DEF Sorted
<1>5. Books(t)
  BY <1>1, <1>2 DEF Books
<1> QED
  BY <1>2, <1>3, <1>4, <1>5 DEF SrcOK

\* A sender that sends an RTS stays well (sendRTS).
LEMMA SendRtsOK ==
    ASSUME NEW s, SrcOK(s), s.rts < MaxRts
    PROVE  LET t == SendRTS(s)
           IN  SrcOK(t) /\ t.pull = s.pull /\ t.target = s.target /\ Rts(t.rts) \in Packets
<1> DEFINE n == s.rts + 1
           t == [s EXCEPT !.rts = n, !.out = @ \cup {Rts(n)}]
<1>1. s \in SrcSet /\ Sorted(s) /\ Books(s)
  BY DEF SrcOK
<1>2. n \in 1 .. MaxRts /\ n \in 0 .. MaxRts /\ s.rts \in 0 .. MaxRts
  BY <1>1, Constants DEF SrcSet
<1>3. Rts(n) \in Packets
  BY <1>2, PacketFacts
<1>a. SendRTS(s) = t
  BY DEF SendRTS
<1>b. n > s.rts
  BY <1>2
<1> HIDE DEF n
<1>4. /\ t \in SrcSet /\ t.out = s.out \cup {Rts(n)} /\ t.rtx = s.rtx /\ t.pull = s.pull
      /\ t.rts = n /\ t.target = s.target /\ t.credit = s.credit /\ t.bytes = s.bytes
  BY <1>1, <1>2, <1>3 DEF SrcSet
<1> HIDE DEF t
<1>5. Sorted(t)
  <2>1. Rts(n) \notin s.out \cup s.rtx
    BY <1>1, <1>2, <1>b DEF Sorted
  <2>2. ASSUME NEW i \in 1 .. MaxRts, Rts(i) \in t.out \cup t.rtx PROVE i <= n
    <3>1. CASE Rts(i) = Rts(n)
      <4>1. i = n
        BY <3>1, PacketFacts
      <4> QED
        BY <4>1, <1>2
    <3>2. CASE Rts(i) # Rts(n)
      <4>1. i <= s.rts
        BY <1>1, <1>4, <2>2, <3>2 DEF Sorted
      <4> QED
        BY <4>1, <1>2, <1>b
    <3> QED
      BY <3>1, <3>2
  <2>3. t.out \cap t.rtx = {}
    BY <1>1, <1>4, <2>1 DEF Sorted
  <2> QED
    BY <1>4, <2>2, <2>3 DEF Sorted
<1>6. Books(t)
  BY <1>1, <1>4 DEF Books
<1> QED
  BY <1>3, <1>4, <1>a, <1>5, <1>6 DEF SrcOK

\* A sender that forgets acknowledged packets stays well.
LEMMA AckedOK ==
    ASSUME NEW s, SrcOK(s), NEW got
    PROVE  LET t == [s EXCEPT !.out = @ \ got, !.rtx = @ \ got]
           IN  SrcOK(t) /\ t.pull = s.pull
<1> DEFINE t == [s EXCEPT !.out = @ \ got, !.rtx = @ \ got]
<1>1. s \in SrcSet /\ Sorted(s) /\ Books(s)
  BY DEF SrcOK
<1>2. /\ t \in SrcSet /\ t.out = s.out \ got /\ t.rtx = s.rtx \ got /\ t.pull = s.pull
      /\ t.rts = s.rts /\ t.target = s.target /\ t.credit = s.credit /\ t.bytes = s.bytes
  BY <1>1 DEF SrcSet
<1> HIDE DEF t
<1>3. Sorted(t)
  BY <1>1, <1>2 DEF Sorted
<1>4. Books(t)
  BY <1>1, <1>2 DEF Books
<1> QED
  BY <1>2, <1>3, <1>4 DEF SrcOK, t

\* A sender that hears a pull stays well, and its pull number is the old one or the pull's,
\* never less (handlePull).
LEMMA PullOK ==
    ASSUME NEW s, SrcOK(s), NEW n \in Nat
    PROVE  LET t == HandlePull(s, n)
           IN  SrcOK(t) /\ t.pull >= s.pull /\ (t.pull = s.pull \/ t.pull = n)
<1>1. /\ s \in SrcSet /\ Sorted(s) /\ Books(s) /\ s.credit \in Int /\ s.bytes \in Nat
      /\ s.pull \in Nat /\ s.target \in Int
  BY DEF SrcOK, SrcSet
<1>2. CASE n > s.pull
  <2> DEFINE g == Unquantize(n - s.pull)
             c == Min({MaxWnd, s.credit + g})
             t == [s EXCEPT !.credit = c, !.pull = n]
  <2>1. g \in Nat /\ Unquantize(s.pull) \in Int /\ Unquantize(s.pull) + g = Unquantize(n)
    BY <1>1, <1>2, Constants DEF Unquantize
  <2>2. HandlePull(s, n) = t
    BY <1>2 DEF HandlePull
  <2> HIDE DEF g
  <2>3. c \in Int /\ c <= s.credit + g /\ c > -Mtu
    <3>1. s.credit + g \in Int /\ MaxWnd \in Int /\ s.credit > -Mtu
      BY <1>1, <2>1, Constants DEF Books
    <3>2. c = IF MaxWnd <= s.credit + g THEN MaxWnd ELSE s.credit + g
      BY <3>1, MinInts
    <3> QED
      BY <1>1, <2>1, <3>1, <3>2, Constants
  <2> HIDE DEF c
  <2>4. /\ t \in SrcSet /\ t.out = s.out /\ t.rtx = s.rtx /\ t.pull = n
        /\ t.rts = s.rts /\ t.target = s.target /\ t.credit = c /\ t.bytes = s.bytes
    BY <1>1, <2>3 DEF SrcSet
  <2> HIDE DEF t
  <2>5. Sorted(t)
    BY <1>1, <2>4 DEF Sorted
  <2>6. Books(t)
    <3>1. t.target <= t.pull + Demand
      BY <1>1, <1>2, <2>4, DemandType DEF Books
    <3>2. t.bytes + t.credit <= MaxWnd + Unquantize(t.pull)
      BY <1>1, <2>1, <2>3, <2>4, Constants DEF Books
    <3> QED
      BY <2>3, <2>4, <3>1, <3>2 DEF Books
  <2> QED
    BY <1>1, <1>2, <2>2, <2>4, <2>5, <2>6 DEF SrcOK
<1>3. CASE ~(n > s.pull)
  BY <1>1, <1>3 DEF HandlePull
<1> QED
  BY <1>2, <1>3

-----------------------------------------------------------------------------
(* Lists of the pacer *)

\* A sink that joins a list it is not in is in it once.
LEMMA AppendedList ==
    ASSUME NEW q \in Seq(Flows), NEW f \in Flows, IsInjective(q), f \notin ToSet(q)
    PROVE  /\ Append(q, f) \in Seq(Flows) /\ Append(q, f) # <<>>
           /\ IsInjective(Append(q, f))
           /\ ToSet(Append(q, f)) = ToSet(q) \cup {f}
<1> DEFINE r == Append(q, f)
<1>1. /\ r \in Seq(Flows) /\ Len(r) = Len(q) + 1 /\ Len(q) \in Nat /\ r[Len(q) + 1] = f
      /\ \A i \in 1 .. Len(q) : r[i] = q[i]
      /\ DOMAIN q = 1 .. Len(q) /\ DOMAIN r = 1 .. Len(q) + 1
  OBVIOUS
<1> HIDE DEF r
<1>2. \A i \in 1 .. Len(q) : q[i] # f
  BY <1>1 DEF ToSet
<1>3. ASSUME NEW a \in 1 .. Len(q) + 1, NEW b \in 1 .. Len(q) + 1, r[a] = r[b] PROVE a = b
  <2>1. CASE a \in 1 .. Len(q) /\ b \in 1 .. Len(q)
    BY <1>1, <1>3, <2>1 DEF IsInjective
  <2>2. CASE a = Len(q) + 1 /\ b \in 1 .. Len(q)
    BY <1>1, <1>2, <1>3, <2>2
  <2>3. CASE b = Len(q) + 1 /\ a \in 1 .. Len(q)
    BY <1>1, <1>2, <1>3, <2>3
  <2> QED
    BY <1>1, <2>1, <2>2, <2>3
<1>4. IsInjective(r)
  BY <1>1, <1>3 DEF IsInjective
<1>5. ToSet(r) = ToSet(q) \cup {f}
  <2>1. ASSUME NEW x \in ToSet(r) PROVE x \in ToSet(q) \cup {f}
    BY <1>1 DEF ToSet
  <2>2. ASSUME NEW x \in ToSet(q) PROVE x \in ToSet(r)
    BY <1>1 DEF ToSet
  <2>3. f \in ToSet(r)
    BY <1>1 DEF ToSet
  <2> QED
    BY <2>1, <2>2, <2>3
<1>6. r # <<>>
  BY <1>1, EmptySeq
<1> QED
  BY <1>1, <1>4, <1>5, <1>6 DEF r

\* A sink that is served leaves a list that held each sink once.
LEMMA ServedList ==
    ASSUME NEW q \in Seq(Flows), q # <<>>, IsInjective(q)
    PROVE  /\ Head(q) \in Flows /\ Head(q) \in ToSet(q)
           /\ Tail(q) \in Seq(Flows) /\ IsInjective(Tail(q))
           /\ ToSet(Tail(q)) = ToSet(q) \ {Head(q)}
<1> DEFINE r == Tail(q)
<1>1. Len(q) \in Nat \ {0}
  BY EmptySeq
<1>2. /\ r \in Seq(Flows) /\ Len(r) = Len(q) - 1 /\ Head(q) = q[1]
      /\ DOMAIN q = 1 .. Len(q)
  OBVIOUS
<1>3. DOMAIN r = 1 .. Len(r)
  BY <1>2
<1>4. ASSUME NEW i \in 1 .. Len(r) PROVE r[i] = q[i + 1]
  BY <1>2
<1> HIDE DEF r
<1>5. IsInjective(r)
  <2> SUFFICES ASSUME NEW a \in 1 .. Len(r), NEW b \in 1 .. Len(r), r[a] = r[b] PROVE a = b
    BY <1>3 DEF IsInjective
  <2>1. q[a + 1] = q[b + 1] /\ a + 1 \in 1 .. Len(q) /\ b + 1 \in 1 .. Len(q)
    BY <1>1, <1>2, <1>4
  <2>2. a + 1 = b + 1
    BY <1>2, <2>1, ZenonT(60) DEF IsInjective
  <2> QED
    BY <2>2
<1>6. 1 \in 1 .. Len(q)
  BY <1>1
<1>7. ToSet(r) = ToSet(q) \ {Head(q)}
  <2>1. ASSUME NEW x \in ToSet(r) PROVE x \in ToSet(q) \ {Head(q)}
    <3>1. PICK i \in 1 .. Len(r) : x = r[i]
      BY <1>3 DEF ToSet
    <3>2. x = q[i + 1] /\ i + 1 \in 1 .. Len(q) /\ i + 1 # 1
      BY <1>1, <1>2, <1>4, <3>1
    <3>3. x # q[1]
      BY <1>2, <1>6, <3>2, ZenonT(60) DEF IsInjective
    <3> QED
      BY <1>2, <3>2, <3>3 DEF ToSet
  <2>2. ASSUME NEW x \in ToSet(q), x # Head(q) PROVE x \in ToSet(r)
    <3>1. PICK i \in 1 .. Len(q) : x = q[i]
      BY <1>2 DEF ToSet
    <3>2. i - 1 \in 1 .. Len(r) /\ (i - 1) + 1 = i
      BY <1>1, <1>2, <2>2, <3>1
    <3>3. x = r[i - 1]
      BY <1>4, <3>1, <3>2
    <3> QED
      BY <1>3, <3>2, <3>3 DEF ToSet
  <2> QED
    BY <2>1, <2>2
<1>8. Head(q) \in Flows /\ Head(q) \in ToSet(q)
  BY <1>2, <1>6 DEF ToSet
<1> QED
  BY <1>2, <1>5, <1>7, <1>8 DEF r

-----------------------------------------------------------------------------
(* The receiver and the pacer *)

\* The pacer agrees with sink k of flow f, and with those of the other flows in R.
Held(R, f, k, p) ==
    /\ p \in PacerSet /\ IsInjective(p.active) /\ Awake(p)
    /\ f \in ToSet(p.active) <=> k.inPull
    /\ \A g \in Flows \ {f} : g \in ToSet(p.active) <=> g \in R

\* The sinks in a list are sinks.
LEMMA ToSetType ==
    ASSUME NEW q \in Seq(Flows)
    PROVE  ToSet(q) \subseteq Flows
BY DEF ToSet

\* A sink that requests a pull agrees with the pacer still (requestPull).
LEMMA RequestOK ==
    ASSUME NEW f \in Flows, NEW k \in SnkSet, NEW p, NEW R, Held(R, f, k, p)
    PROVE  LET r == RequestPull(f, [k |-> k, p |-> p])
           IN  /\ r = [k |-> r.k, p |-> r.p] /\ r.k \in SnkSet /\ Held(R, f, r.k, r.p)
               /\ r.k.latest = k.latest /\ r.k.highest = k.highest /\ r.k.got = k.got
<1>1. p \in PacerSet /\ p.active \in Seq(Flows) /\ IsInjective(p.active) /\ p.idle \in Seq(Flows)
  BY DEF Held, PacerSet
<1>2. CASE k.inPull
  BY <1>2 DEF RequestPull
<1>3. CASE ~k.inPull
  <2> DEFINE j == [k EXCEPT !.inPull = TRUE]
             q == Append(p.active, f)
             o == [p EXCEPT !.active = q, !.on = TRUE]
  <2>1. f \notin ToSet(p.active)
    BY <1>3 DEF Held
  <2>2. /\ q \in Seq(Flows) /\ IsInjective(q) /\ ToSet(q) = ToSet(p.active) \cup {f}
    BY <1>1, <2>1, AppendedList
  <2>3. RequestPull(f, [k |-> k, p |-> p]) = [k |-> j, p |-> o]
    BY <1>3 DEF RequestPull
  <2> HIDE DEF q
  <2>4. /\ j \in SnkSet /\ j.latest = k.latest /\ j.highest = k.highest /\ j.got = k.got
        /\ j.inPull = TRUE
    BY DEF SnkSet
  <2>5. o \in PacerSet /\ o.active = q /\ o.idle = p.idle /\ o.on = TRUE
    BY <1>1, <2>2 DEF PacerSet
  <2> HIDE DEF j, o
  <2>6. Held(R, f, j, o)
    <3>1. Awake(o)
      BY <2>5 DEF Awake
    <3>2. f \in ToSet(o.active)
      BY <2>2, <2>5
    <3>3. \A g \in Flows \ {f} : g \in ToSet(o.active) <=> g \in R
      BY <2>2, <2>5 DEF Held
    <3>4. IsInjective(o.active)
      BY <2>2, <2>5
    <3> QED
      BY <2>4, <2>5, <3>1, <3>2, <3>3, <3>4 DEF Held
  <2> QED
    BY <2>3, <2>4, <2>6
<1> QED
  BY <1>2, <1>3

\* A sink that hears a pull target agrees with the pacer still, and was asked for that target
\* at most (handlePullTarget).
LEMMA TargetOK ==
    ASSUME NEW f \in Flows, NEW k \in SnkSet, NEW p, NEW R, Held(R, f, k, p), NEW pt \in Int
    PROVE  LET r == HandlePullTarget(f, [k |-> k, p |-> p], pt)
           IN  /\ r = [k |-> r.k, p |-> r.p] /\ r.k \in SnkSet /\ Held(R, f, r.k, r.p)
               /\ r.k.latest = k.latest /\ r.k.got = k.got
               /\ r.k.highest = k.highest \/ r.k.highest = pt
<1>1. CASE pt > k.highest
  <2> DEFINE j == [k EXCEPT !.highest = pt]
             r == RequestPull(f, [k |-> j, p |-> p])
  <2>1. [[k |-> k, p |-> p] EXCEPT !.k.highest = pt] = [k |-> j, p |-> p]
    OBVIOUS
  <2>2. HandlePullTarget(f, [k |-> k, p |-> p], pt) = r
    BY <1>1, <2>1 DEF HandlePullTarget
  <2>3. /\ j \in SnkSet /\ j.latest = k.latest /\ j.highest = pt /\ j.got = k.got
        /\ j.inPull = k.inPull
    BY DEF SnkSet
  <2> HIDE DEF j
  <2>4. Held(R, f, j, p)
    BY <2>3 DEF Held
  <2>5. /\ r = [k |-> r.k, p |-> r.p] /\ r.k \in SnkSet /\ Held(R, f, r.k, r.p)
        /\ r.k.latest = j.latest /\ r.k.highest = j.highest /\ r.k.got = j.got
    BY <2>3, <2>4, RequestOK
  <2> HIDE DEF r
  <2> QED
    BY <2>2, <2>3, <2>5
<1>2. CASE ~(pt > k.highest)
  BY <1>2 DEF HandlePullTarget
<1> QED
  BY <1>1, <1>2

-----------------------------------------------------------------------------
(* Steps of one sender and of one receiver *)

\* What is on the way stays in bounds while pull numbers and grants grow.
LEMMA MsgStays ==
    ASSUME Functions, NEW m, MsgOK(m, src, snk), NEW ss \in [Flows -> SrcSet],
           NEW ks \in [Flows -> SnkSet],
           \A f \in Flows : ss[f].pull >= src[f].pull /\ ks[f].latest >= snk[f].latest
    PROVE  MsgOK(m, ss, ks)
<1>1. \A f \in Flows : /\ ss[f].pull \in Nat /\ src[f].pull \in Nat
                        /\ ks[f].latest \in Nat /\ snk[f].latest \in Nat
  BY DEF Functions, SrcSet, SnkSet
<1>2. m.t \in {"data", "rts", "trim"} =>
        m.from \in Flows /\ m.p \in Packets /\ m.target \in Int
          /\ m.target <= ss[m.from].pull + Demand
  BY <1>1, DemandType DEF MsgOK
<1>3. m.t = "pull" => m.to \in Flows /\ m.no \in Nat /\ m.no <= ks[m.to].latest
  BY <1>1 DEF MsgOK
<1> QED
  BY <1>2, <1>3 DEF MsgOK

\* A step that changes one sender only, to a good one, keeps the invariant.
LEMMA SenderStep ==
    ASSUME CreditInv, NEW f \in Flows, NEW t, SrcOK(t), t.pull >= src[f].pull,
           t.pull <= snk[f].latest, src' = [src EXCEPT ![f] = t], UNCHANGED <<snk, pacer>>,
           \A m \in net' : m \in net \/ MsgOK(m, src', snk)
    PROVE  CreditInv'
<1>1. /\ Functions /\ \A g \in Flows : SrcOK(src[g]) /\ Between(src[g], snk[g])
      /\ \A m \in net : MsgOK(m, src, snk)
  BY DEF CreditInv
<1>2. /\ src' \in [Flows -> SrcSet] /\ src'[f] = t
      /\ \A g \in Flows \ {f} : src'[g] = src[g]
      /\ t.pull \in Nat /\ \A g \in Flows : src[g].pull \in Nat
      /\ snk \in [Flows -> SnkSet] /\ \A g \in Flows : snk[g].highest \in Int /\ snk[g].latest \in Nat
  BY <1>1 DEF Functions, SrcOK, SrcSet, SnkSet
<1>3. \A g \in Flows : src'[g].pull >= src[g].pull /\ snk[g].latest >= snk[g].latest
  BY <1>2
<1>4. Functions'
  BY <1>1, <1>2 DEF Functions
<1>5. \A g \in Flows : SrcOK(src'[g])
  BY <1>1, <1>2
<1>6. ASSUME NEW g \in Flows PROVE Between(src'[g], snk'[g])
  <2>1. CASE g = f
    BY <1>1, <1>2, <2>1, DemandType DEF Between
  <2>2. CASE g # f
    BY <1>1, <1>2, <2>2
  <2> QED
    BY <2>1, <2>2
<1>7. ASSUME NEW m \in net' PROVE MsgOK(m, src', snk')
  <2>1. CASE m \in net
    BY <1>1, <1>2, <1>3, <2>1, MsgStays
  <2> QED
    BY <2>1
<1>8. Listed(snk, pacer)' /\ Awake(pacer)'
  BY DEF CreditInv, Listed, Awake
<1> QED
  BY <1>4, <1>5, <1>6, <1>7, <1>8 DEF CreditInv

\* A step that changes one receiver and the pacer, which agree, keeps the invariant.
LEMMA ReceiverStep ==
    ASSUME CreditInv, NEW f \in Flows, NEW k \in SnkSet, k.latest >= snk[f].latest,
           k.highest <= src[f].pull + Demand, snk' = [snk EXCEPT ![f] = k],
           Held({g \in Flows : snk[g].inPull}, f, k, pacer'), src' = src,
           \A m \in net' : m \in net \/ MsgOK(m, src, snk')
    PROVE  CreditInv'
<1>1. /\ Functions /\ \A g \in Flows : SrcOK(src[g]) /\ Between(src[g], snk[g])
      /\ \A m \in net : MsgOK(m, src, snk)
  BY DEF CreditInv
<1>2. /\ snk' \in [Flows -> SnkSet] /\ snk'[f] = k
      /\ \A g \in Flows \ {f} : snk'[g] = snk[g]
      /\ k.latest \in Nat /\ \A g \in Flows : src[g].pull \in Nat
      /\ src \in [Flows -> SrcSet] /\ \A g \in Flows : snk[g].latest \in Nat
  BY <1>1 DEF Functions, SrcSet, SnkSet
<1>3. \A g \in Flows : src[g].pull >= src[g].pull /\ snk'[g].latest >= snk[g].latest
  BY <1>2
<1>4. Functions'
  BY <1>1, <1>2 DEF Functions, Held
<1>6. ASSUME NEW g \in Flows PROVE Between(src'[g], snk'[g])
  <2>1. CASE g = f
    BY <1>1, <1>2, <2>1 DEF Between
  <2>2. CASE g # f
    BY <1>1, <1>2, <2>2
  <2> QED
    BY <2>1, <2>2
<1>7. ASSUME NEW m \in net' PROVE MsgOK(m, src', snk')
  <2>1. CASE m \in net
    BY <1>1, <1>2, <1>3, <2>1, MsgStays
  <2> QED
    BY <2>1
<1>8. Listed(snk', pacer')
  <2>1. pacer'.active \in Seq(Flows) /\ IsInjective(pacer'.active)
    BY DEF Held, PacerSet
  <2>2. ToSet(pacer'.active) \subseteq Flows
    BY <2>1, ToSetType
  <2>3. ASSUME NEW g \in Flows PROVE g \in ToSet(pacer'.active) <=> snk'[g].inPull
    <3>1. CASE g = f
      BY <1>2, <3>1 DEF Held
    <3>2. CASE g # f
      BY <1>2, <3>2 DEF Held
    <3> QED
      BY <3>1, <3>2
  <2> QED
    BY <2>1, <2>2, <2>3 DEF Listed
<1>9. Awake(pacer')
  BY DEF Held
<1> QED
  BY <1>1, <1>4, <1>6, <1>7, <1>8, <1>9 DEF CreditInv

\* The pacer agrees with every sink to begin with.
LEMMA HeldNow ==
    ASSUME CreditInv, NEW f \in Flows
    PROVE  Held({g \in Flows : snk[g].inPull}, f, snk[f], pacer)
BY DEF CreditInv, Held, Listed, Functions

-----------------------------------------------------------------------------
(* The actions *)

\* What the invariant says of flow f.
LEMMA OfFlow ==
    ASSUME CreditInv, NEW f \in Flows
    PROVE  /\ SrcOK(src[f]) /\ src[f] \in SrcSet /\ snk[f] \in SnkSet
           /\ src[f].pull <= snk[f].latest /\ snk[f].highest <= src[f].pull + Demand
           /\ src \in [Flows -> SrcSet] /\ snk \in [Flows -> SnkSet]
           /\ src[f].pull \in Nat /\ src[f].target \in Int /\ src[f].target <= src[f].pull + Demand
           /\ src[f].out \subseteq Packets
           /\ snk[f].latest \in Nat /\ snk[f].highest \in Int /\ snk[f].got \subseteq Packets
BY DEF CreditInv, Functions, Between, SrcOK, Books, SrcSet, SnkSet

\* What a good sender sends is a good message.
LEMMA RequestMsg ==
    ASSUME NEW f \in Flows, NEW s, SrcOK(s), NEW p \in Packets, NEW t \in {"data", "rts"}, NEW ar,
           NEW ss, ss[f].pull = s.pull, NEW ks
    PROVE  /\ MsgOK([from |-> f, t |-> t, p |-> p, target |-> s.target, ar |-> ar], ss, ks)
           /\ MsgOK([from |-> f, t |-> t, p |-> p, ar |-> ar, target |-> s.target], ss, ks)
<1>1. s.target \in Int /\ s.target <= s.pull + Demand
  BY DEF SrcOK, SrcSet, Books
<1> QED
  BY <1>1 DEF MsgOK

\* A sender that sends keeps the invariant.
LEMMA SendKeeps ==
    ASSUME CreditInv, NEW f \in Flows, Send(f)
    PROVE  CreditInv'
<1> DEFINE S(p, active) == IF src[f].rtx # {} THEN SendRtxPacket(src[f], p, active)
                                              ELSE SendNewPacket(src[f], active)
           M(p, s) == [from |-> f, t |-> "data", p |-> p, target |-> s.target,
                       ar |-> src[f].rtx # {} \/ s.backlog = 0 \/ s.credit <= 0]
<1>1. PICK active \in ActiveSources, p \in Packets :
        /\ IF src[f].rtx # {} THEN p \in src[f].rtx ELSE p = Data(NPkts - src[f].backlog + 1)
        /\ src' = [src EXCEPT ![f] = S(p, active)]
        /\ net' = net \cup {M(p, S(p, active))}
  BY DEF Send
<1> DEFINE t == S(p, active)
<1>2. src[f].credit > 0 /\ (src[f].rtx # {} \/ src[f].backlog > 0)
  BY DEF Send, Permitted
<1>3. SrcOK(t) /\ t.pull = src[f].pull
  <2>1. CASE src[f].rtx # {}
    BY <1>1, <1>2, <2>1, OfFlow, SendRtxOK
  <2>2. CASE src[f].rtx = {}
    BY <1>1, <1>2, <2>2, OfFlow, SendNewOK
  <2> QED
    BY <2>1, <2>2
<1>4. src' = [src EXCEPT ![f] = t] /\ net' = net \cup {M(p, t)}
  BY <1>1
<1> HIDE DEF S
<1> HIDE DEF t
<1>5. src'[f].pull = t.pull
  BY <1>4, OfFlow
<1>6. MsgOK(M(p, t), src', snk)
  BY <1>3, <1>5, RequestMsg
<1> HIDE DEF M
<1>7. \A m \in net' : m \in net \/ MsgOK(m, src', snk)
  BY <1>4, <1>6
<1>8. t.pull >= src[f].pull /\ t.pull <= snk[f].latest
  BY <1>3, OfFlow
<1>9. UNCHANGED <<snk, pacer>>
  BY DEF Send
<1> QED
  BY <1>3, <1>4, <1>7, <1>8, <1>9, SenderStep

\* A sender whose timer fires keeps the invariant (rtxTimerExpired).
LEMMA TimeoutKeeps ==
    ASSUME CreditInv, NEW f \in Flows, Timeout(f)
    PROVE  CreditInv'
<1> DEFINE queued == src[f].rtx # {}
           S0(p) == QueueForRtx(IF queued THEN StopSpeculating(src[f]) ELSE src[f], p)
           S1(p, now, active) == IF now THEN SendRtxPacket(S0(p), p, active) ELSE S0(p)
           R(p, now, active, due) == due /\ (queued \/ S1(p, now, active).credit <= 0)
           S2(p, now, active, due) == IF R(p, now, active, due) THEN SendRTS(S1(p, now, active))
                                      ELSE S1(p, now, active)
<1>1. PICK p \in src[f].out, due, now \in BOOLEAN, active \in ActiveSources :
        /\ now => Permitted(S0(p)) /\ ~S0(p).spec /\ ~queued
        /\ due => src[f].rts < MaxRts
        /\ src[f].rts = 0 => due
        /\ Pending(f, p) => faults.early < MaxEarly
        /\ faults' = IF Pending(f, p) THEN [faults EXCEPT !.early = @ + 1] ELSE faults
        /\ src' = [src EXCEPT ![f] = S2(p, now, active, due)]
        /\ net' = net
             \cup (IF now THEN {[from |-> f, t |-> "data", p |-> p, ar |-> TRUE,
                                 target |-> S1(p, now, active).target]} ELSE {})
             \cup (IF R(p, now, active, due)
                   THEN {[from |-> f, t |-> "rts", p |-> Rts(S2(p, now, active, due).rts),
                          ar |-> TRUE, target |-> S1(p, now, active).target]} ELSE {})
        /\ UNCHANGED <<snk, pacer>>
  BY ZenonT(60) DEF Timeout
<1> DEFINE s0 == S0(p)
           s1 == S1(p, now, active)
           rts == R(p, now, active, due)
           s2 == S2(p, now, active, due)
           sent == [from |-> f, t |-> "data", p |-> p, ar |-> TRUE, target |-> s1.target]
           asked == [from |-> f, t |-> "rts", p |-> Rts(s2.rts), ar |-> TRUE, target |-> s1.target]
<1>2. SrcOK(s0) /\ p \in s0.rtx /\ s0.pull = src[f].pull /\ s0.rts = src[f].rts
  <2> DEFINE s == IF queued THEN StopSpeculating(src[f]) ELSE src[f]
  <2>1. SrcOK(s) /\ s.pull = src[f].pull /\ s.rts = src[f].rts /\ p \in s.out
    BY OfFlow, StopOK
  <2> HIDE DEF s
  <2>2. /\ SrcOK(QueueForRtx(s, p)) /\ p \in QueueForRtx(s, p).rtx
        /\ QueueForRtx(s, p).pull = s.pull /\ QueueForRtx(s, p).rts = s.rts
    BY <2>1, QueueOK
  <2> QED
    BY <2>1, <2>2 DEF s
<1>3. s1 = IF now THEN SendRtxPacket(s0, p, active) ELSE s0
  OBVIOUS
<1>4. rts => src[f].rts < MaxRts
  BY <1>1
<1>5. s2 = IF rts THEN SendRTS(s1) ELSE s1
  OBVIOUS
<1>6. now => s0.credit > 0
  BY SMTT(30), <1>1 DEF Permitted
<1>7. /\ src' = [src EXCEPT ![f] = s2]
      /\ \A m \in net' : m \in net \/ (now /\ m = sent) \/ (rts /\ m = asked)
  BY <1>1
<1> HIDE DEF S0, S1, R, S2
<1> HIDE DEF s0, s1, rts, s2
<1>8. SrcOK(s1) /\ s1.pull = src[f].pull /\ s1.rts = src[f].rts
  BY <1>2, <1>3, <1>6, SendRtxOK
<1>9. SrcOK(s2) /\ s2.pull = src[f].pull /\ (rts => Rts(s2.rts) \in Packets)
  BY <1>4, <1>5, <1>8, SendRtsOK
<1>10. src'[f].pull = s1.pull /\ p \in Packets
  BY <1>7, <1>8, <1>9, OfFlow
<1>11. MsgOK(sent, src', snk) /\ (rts => MsgOK(asked, src', snk))
  BY <1>8, <1>9, <1>10, RequestMsg
<1> HIDE DEF sent, asked
<1>12. \A m \in net' : m \in net \/ MsgOK(m, src', snk)
  BY <1>7, <1>11
<1>13. s2.pull >= src[f].pull /\ s2.pull <= snk[f].latest
  BY <1>9, OfFlow
<1>14. UNCHANGED <<snk, pacer>>
  BY DEF Timeout
<1> QED
  BY <1>7, <1>9, <1>12, <1>13, <1>14, SenderStep

\* An answer reaches its sender.
LEMMA AnswerKeeps ==
    ASSUME CreditInv, NEW m, m.to \in Flows, NEW s, SrcOK(s), Answer(m, s),
           s.pull >= src[m.to].pull, s.pull <= snk[m.to].latest
    PROVE  CreditInv'
<1>1. src' = [src EXCEPT ![m.to] = s] /\ UNCHANGED <<snk, pacer>> /\ \A n \in net' : n \in net
  BY DEF Answer
<1> QED
  BY <1>1, SenderStep

\* An ACK, a NACK or a pull that arrives keeps the invariant.
LEMMA AnswersKeep ==
    ASSUME CreditInv, NEW m \in net, ReceiveAck(m) \/ ReceiveNack(m) \/ ReceivePull(m)
    PROVE  CreditInv'
<1>1. MsgOK(m, src, snk)
  BY DEF CreditInv
<1>2. CASE ReceiveAck(m)
  <2> DEFINE s == [src[m.to] EXCEPT !.out = @ \ m.got, !.rtx = @ \ m.got]
  <2>1. m.to \in Flows /\ Answer(m, StopSpeculating(s))
    BY <1>1, <1>2 DEF MsgOK, ReceiveAck
  <2>2. SrcOK(s) /\ s.pull = src[m.to].pull
    BY <2>1, OfFlow, AckedOK
  <2> HIDE DEF s
  <2>3. SrcOK(StopSpeculating(s)) /\ StopSpeculating(s).pull = src[m.to].pull
    BY <2>2, StopOK
  <2> QED
    BY <2>1, <2>3, OfFlow, AnswerKeeps
<1>3. CASE ReceiveNack(m)
  <2> DEFINE t == StopSpeculating(src[m.to])
             s == IF m.p \in src[m.to].out THEN QueueForRtx(t, m.p) ELSE src[m.to]
  <2>1. m.to \in Flows /\ Answer(m, s)
    BY <1>1, <1>3 DEF MsgOK, ReceiveNack
  <2>2. SrcOK(t) /\ t.pull = src[m.to].pull /\ t.out = src[m.to].out
    BY <2>1, OfFlow, StopOK
  <2> HIDE DEF t
  <2>3. SrcOK(s) /\ s.pull = src[m.to].pull
    BY <2>1, <2>2, OfFlow, QueueOK
  <2> HIDE DEF s
  <2> QED
    BY <2>1, <2>3, OfFlow, AnswerKeeps
<1>4. CASE ReceivePull(m)
  <2> DEFINE t == StopSpeculating(src[m.to])
             s == HandlePull(t, m.no)
  <2>1. m.to \in Flows /\ Answer(m, s) /\ m.no \in Nat /\ m.no <= snk[m.to].latest
    BY <1>1, <1>4 DEF MsgOK, ReceivePull
  <2>2. SrcOK(t) /\ t.pull = src[m.to].pull
    BY <2>1, OfFlow, StopOK
  <2> HIDE DEF t
  <2>3. SrcOK(s) /\ s.pull >= t.pull /\ (s.pull = t.pull \/ s.pull = m.no)
    BY <2>1, <2>2, PullOK
  <2> HIDE DEF s
  <2>4. s.pull >= src[m.to].pull /\ s.pull <= snk[m.to].latest
    BY <2>1, <2>2, <2>3, OfFlow
  <2> QED
    BY <2>1, <2>3, <2>4, AnswerKeeps
<1> QED
  BY <1>2, <1>3, <1>4

\* A packet or an RTS that arrives keeps the invariant (processData, processRts).
LEMMA ReceiveDataKeeps ==
    ASSUME CreditInv, NEW m \in net, ReceiveData(m)
    PROVE  CreditInv'
<1> DEFINE f == m.from
           kp == HandlePullTarget(f, [k |-> snk[f], p |-> pacer], m.target)
           kq == IF m.t = "rts" THEN RequestPull(f, kp) ELSE kp
           k == [kq.k EXCEPT !.got = @ \cup {m.p}]
           R == {g \in Flows : snk[g].inPull}
<1>1. /\ m.t \in {"data", "rts"} /\ snk' = [snk EXCEPT ![f] = k] /\ pacer' = kq.p /\ src' = src
      /\ \A n \in net' : n \in net \/ n = Ack(f, k.got)
  BY DEF ReceiveData
<1>2. /\ f \in Flows /\ m.p \in Packets /\ m.target \in Int
      /\ m.target <= src[f].pull + Demand
  BY <1>1 DEF CreditInv, MsgOK
<1> HIDE DEF f
<1>3. Held(R, f, snk[f], pacer)
  BY <1>2, HeldNow
<1> HIDE DEF R
<1>4. /\ kp = [k |-> kp.k, p |-> kp.p] /\ kp.k \in SnkSet /\ Held(R, f, kp.k, kp.p)
      /\ kp.k.latest = snk[f].latest /\ kp.k.got = snk[f].got
      /\ kp.k.highest = snk[f].highest \/ kp.k.highest = m.target
  BY <1>2, <1>3, OfFlow, TargetOK
<1> HIDE DEF kp
<1>5. /\ kq.k \in SnkSet /\ Held(R, f, kq.k, kq.p)
      /\ kq.k.latest = kp.k.latest /\ kq.k.highest = kp.k.highest
  <2> DEFINE r == RequestPull(f, [k |-> kp.k, p |-> kp.p])
  <2>1. /\ r.k \in SnkSet /\ Held(R, f, r.k, r.p)
        /\ r.k.latest = kp.k.latest /\ r.k.highest = kp.k.highest
    BY ZenonT(60), <1>2, <1>4, RequestOK
  <2>2. RequestPull(f, kp) = r
    BY <1>4, ZenonT(60)
  <2> HIDE DEF r
  <2> QED
    BY <1>4, <2>1, <2>2
<1> HIDE DEF kq
<1>6. /\ k \in SnkSet /\ k.latest = kq.k.latest /\ k.highest = kq.k.highest
      /\ k.inPull = kq.k.inPull
  BY <1>2, <1>5 DEF SnkSet
<1> HIDE DEF k
<1>7. Held(R, f, k, pacer')
  BY <1>1, <1>5, <1>6 DEF Held
<1>8. k.latest >= snk[f].latest /\ k.highest <= src[f].pull + Demand
  BY <1>2, <1>4, <1>5, <1>6, OfFlow
<1>9. MsgOK(Ack(f, k.got), src, snk')
  BY <1>2, <1>6 DEF MsgOK, Ack, SnkSet
<1>10. \A n \in net' : n \in net \/ MsgOK(n, src, snk')
  BY <1>1, <1>9
<1> QED
  BY <1>1, <1>2, <1>6, <1>7, <1>8, <1>10, ReceiverStep DEF R

\* A trimmed packet that arrives keeps the invariant (processTrimmed).
LEMMA ReceiveTrimmedKeeps ==
    ASSUME CreditInv, NEW m \in net, ReceiveTrimmed(m)
    PROVE  CreditInv'
<1> DEFINE f == m.from
           kh == HandlePullTarget(f, [k |-> snk[f], p |-> pacer], m.target)
           kp == RequestPull(f, kh)
           R == {g \in Flows : snk[g].inPull}
           nack == [to |-> f, t |-> "nack", p |-> m.p]
<1>1. m.t = "trim" /\ src' = src
  BY DEF ReceiveTrimmed
<1>2. /\ f \in Flows /\ m.p \in Packets /\ m.target \in Int
      /\ m.target <= src[f].pull + Demand
  BY <1>1 DEF CreditInv, MsgOK
<1>3. CASE m.p \in snk[f].got
  <2>1. UNCHANGED <<snk, pacer>> /\ \A n \in net' : n \in net \/ n = Ack(f, snk[f].got)
    BY <1>3 DEF ReceiveTrimmed
  <2>2. MsgOK(Ack(f, snk[f].got), src, snk)
    BY <1>2, OfFlow DEF MsgOK, Ack
  <2>3. \A n \in net' : n \in net \/ MsgOK(n, src, snk')
    BY <2>1, <2>2
  <2>4. snk' = [snk EXCEPT ![f] = snk[f]]
    BY <1>2, <2>1, OfFlow
  <2>5. Held(R, f, snk[f], pacer')
    BY <1>2, <2>1, HeldNow
  <2>6. snk[f].latest >= snk[f].latest /\ snk[f].highest <= src[f].pull + Demand /\ snk[f] \in SnkSet
    BY <1>2, OfFlow
  <2> QED
    BY <1>1, <1>2, <2>3, <2>4, <2>5, <2>6, ReceiverStep
<1>4. CASE m.p \notin snk[f].got
  <2>1. /\ snk' = [snk EXCEPT ![f] = kp.k] /\ pacer' = kp.p
        /\ \A n \in net' : n \in net \/ n = nack
    BY <1>4 DEF ReceiveTrimmed
  <2> HIDE DEF f
  <2>2. Held(R, f, snk[f], pacer)
    BY <1>2, HeldNow
  <2> HIDE DEF R
  <2>3. /\ kh = [k |-> kh.k, p |-> kh.p] /\ kh.k \in SnkSet /\ Held(R, f, kh.k, kh.p)
        /\ kh.k.latest = snk[f].latest /\ kh.k.got = snk[f].got
        /\ kh.k.highest = snk[f].highest \/ kh.k.highest = m.target
    BY <1>2, <2>2, OfFlow, TargetOK
  <2> HIDE DEF kh
  <2>4. /\ kp.k \in SnkSet /\ Held(R, f, kp.k, kp.p)
        /\ kp.k.latest = kh.k.latest /\ kp.k.highest = kh.k.highest
    <3> DEFINE r == RequestPull(f, [k |-> kh.k, p |-> kh.p])
    <3>1. /\ r.k \in SnkSet /\ Held(R, f, r.k, r.p)
          /\ r.k.latest = kh.k.latest /\ r.k.highest = kh.k.highest
      BY <1>2, <2>3, RequestOK
    <3>2. kp = r
      BY <2>3, ZenonT(60)
    <3> HIDE DEF r, kp
    <3> QED
      BY <3>1, <3>2
  <2> HIDE DEF kp
  <2>5. kp.k.latest >= snk[f].latest /\ kp.k.highest <= src[f].pull + Demand
    BY <1>2, <2>3, <2>4, OfFlow
  <2>6. MsgOK(nack, src, snk')
    BY <1>2 DEF MsgOK
  <2> HIDE DEF nack
  <2>7. \A n \in net' : n \in net \/ MsgOK(n, src, snk')
    BY <2>1, <2>6
  <2>8. Held(R, f, kp.k, pacer')
    BY <2>1, <2>4
  <2> QED
    BY <1>1, <1>2, <2>1, <2>4, <2>5, <2>7, <2>8, ReceiverStep DEF R
<1> QED
  BY <1>3, <1>4

\* A turn of a sink: what it has is granted, and the pacer has it where it should.
LEMMA ServeActiveKeeps ==
    ASSUME CreditInv, pacer.on, pacer.active # <<>>, ServeActive, src' = src
    PROVE  CreditInv'
<1> DEFINE f == Head(pacer.active)
           c == Max({snk[f].latest, Min({snk[f].latest + CreditPerPull, snk[f].highest})})
           k == [snk[f] EXCEPT !.latest = c]
           more == SinkBacklog(k) > 0
           j == IF more THEN k ELSE [k EXCEPT !.inPull = FALSE, !.inSlow = TRUE]
           rest == Tail(pacer.active)
           act == IF more THEN Append(rest, f) ELSE rest
           idl == IF more THEN pacer.idle ELSE Append(pacer.idle, f)
           R == {g \in Flows : snk[g].inPull}
           pull == [to |-> f, t |-> "pull", no |-> k.latest]
<1>1. pacer \in PacerSet /\ pacer.active \in Seq(Flows) /\ IsInjective(pacer.active)
  BY DEF CreditInv, Functions, Listed, PacerSet
<1>2. /\ f \in Flows /\ f \in ToSet(pacer.active) /\ rest \in Seq(Flows) /\ IsInjective(rest)
      /\ ToSet(rest) = ToSet(pacer.active) \ {f}
  BY <1>1, ServedList
<1>k. k = Pull(snk[f])
  BY SMTT(30) DEF Pull
<1>3. /\ snk' = [snk EXCEPT ![f] = j]
      /\ pacer' = [pacer EXCEPT !.active = act, !.idle = idl]
      /\ net' = net \cup {pull}
  BY <1>k DEF ServeActive
<1> HIDE DEF f, rest
<1>4. snk[f] \in SnkSet /\ snk[f].latest \in Nat /\ snk[f].highest \in Int /\ snk[f].inPull = TRUE
  BY <1>2, OfFlow DEF CreditInv, Listed, SnkSet
<1>5. c \in Nat /\ c >= snk[f].latest
  <2> DEFINE d == Min({snk[f].latest + CreditPerPull, snk[f].highest})
  <2>1. d \in Int
    BY <1>4, MinInts, Constants
  <2> HIDE DEF d
  <2>2. Max({snk[f].latest, d}) = IF snk[f].latest >= d THEN snk[f].latest ELSE d
    BY <1>4, <2>1, MaxInts
  <2> QED
    BY <1>4, <2>1, <2>2 DEF d
<1> HIDE DEF c
<1>6. k \in SnkSet /\ k.latest = c /\ k.highest = snk[f].highest /\ k.inPull = TRUE
  BY <1>4, <1>5 DEF SnkSet
<1> HIDE DEF k
<1>7. /\ j \in SnkSet /\ j.latest = c /\ j.highest = snk[f].highest
      /\ j.inPull <=> more
  BY <1>6 DEF SnkSet
<1>8. f \notin ToSet(rest)
  BY <1>2
<1>9. /\ act \in Seq(Flows) /\ IsInjective(act)
      /\ ToSet(act) = IF more THEN ToSet(rest) \cup {f} ELSE ToSet(rest)
  BY <1>2, <1>8, AppendedList
<1>10. idl \in Seq(Flows)
  BY <1>1, <1>2 DEF PacerSet
<1> HIDE DEF act, idl
<1>11. pacer' \in PacerSet /\ pacer'.active = act /\ pacer'.on = pacer.on
  BY <1>1, <1>3, <1>9, <1>10 DEF PacerSet
<1>12. Held(R, f, j, pacer')
  <2>1. Awake(pacer')
    BY <1>11 DEF Awake
  <2>2. f \in ToSet(pacer'.active) <=> j.inPull
    BY <1>7, <1>8, <1>9, <1>11
  <2>3. ASSUME NEW g \in Flows \ {f} PROVE g \in ToSet(pacer'.active) <=> g \in R
    <3>1. g \in ToSet(pacer.active) <=> g \in R
      BY DEF CreditInv, Listed
    <3>2. g \in ToSet(act) <=> g \in ToSet(pacer.active)
      BY <1>2, <1>9
    <3> QED
      BY <1>11, <3>1, <3>2
  <2> QED
    BY <1>9, <1>11, <2>1, <2>2, <2>3 DEF Held
<1> HIDE DEF j, R
<1>13. j.latest >= snk[f].latest /\ j.highest <= src[f].pull + Demand
  BY <1>2, <1>5, <1>7, OfFlow
<1>14. snk'[f] = j
  BY <1>2, <1>3, OfFlow
<1>15. MsgOK(pull, src, snk')
  BY <1>2, <1>5, <1>6, <1>7, <1>14 DEF MsgOK
<1>16. \A n \in net' : n \in net \/ MsgOK(n, src, snk')
  BY <1>3, <1>15
<1> QED
  BY <1>2, <1>3, <1>7, <1>12, <1>13, <1>16, ReceiverStep DEF R

\* A slow pull for an idle sink keeps the invariant (doNextEvent of the pacer).
LEMMA ServeIdleKeeps ==
    ASSUME CreditInv, pacer.on, pacer.active = <<>>, pacer.idle # <<>>, ServeIdle, src' = src
    PROVE  CreditInv'
<1> DEFINE f == Head(pacer.idle)
           c == snk[f].latest + CreditPerPull
           k == [snk[f] EXCEPT !.latest = c]
           more == SinkBacklog(k) = 0 /\ SlowCredit(k) < QuantizeFloor(MaxWnd)
           j == [k EXCEPT !.inPull = k.inPull /\ more /\ k.inSlow, !.inSlow = more]
           idl == IF more THEN Append(Tail(pacer.idle), f) ELSE Tail(pacer.idle)
           R == {g \in Flows : snk[g].inPull}
           pull == [to |-> f, t |-> "pull", no |-> k.latest]
<1>1. pacer \in PacerSet /\ pacer.active \in Seq(Flows) /\ pacer.idle \in Seq(Flows)
  BY DEF CreditInv, Functions, PacerSet
<1>2. f \in Flows /\ Tail(pacer.idle) \in Seq(Flows)
  BY <1>1
<1>k. k = SlowPull(snk[f])
  BY DEF SlowPull
<1>3. /\ snk' = [snk EXCEPT ![f] = j]
      /\ pacer' = [pacer EXCEPT !.idle = idl]
      /\ net' = net \cup {pull}
  BY <1>k DEF ServeIdle
<1>4. ToSet(pacer.active) = {}
  BY DEF ToSet
<1>5. \A g \in Flows : ~snk[g].inPull
  BY <1>4 DEF CreditInv, Listed
<1> HIDE DEF f
<1>6. snk[f] \in SnkSet /\ snk[f].latest \in Nat /\ c \in Nat /\ c >= snk[f].latest
  BY <1>2, OfFlow, Constants
<1> HIDE DEF c
<1>7. k \in SnkSet /\ k.latest = c /\ k.highest = snk[f].highest /\ ~k.inPull
  BY <1>2, <1>5, <1>6 DEF SnkSet
<1> HIDE DEF k
<1>8. more \in BOOLEAN
  OBVIOUS
<1>i. idl \in Seq(Flows)
  BY <1>2
<1> HIDE DEF more
<1>9. j \in SnkSet /\ j.latest = c /\ j.highest = snk[f].highest /\ ~j.inPull
  BY <1>7, <1>8 DEF SnkSet
<1> HIDE DEF j, idl
<1>10. /\ pacer' \in PacerSet /\ pacer'.active = pacer.active /\ pacer'.on = pacer.on
       /\ ToSet(pacer'.active) = {} /\ IsInjective(pacer'.active)
  <2>1. pacer' \in PacerSet /\ pacer'.active = pacer.active /\ pacer'.on = pacer.on
    BY <1>1, <1>3, <1>i DEF PacerSet
  <2> QED
    BY <1>4, <2>1 DEF CreditInv, Listed
<1>11. Held(R, f, j, pacer')
  BY <1>5, <1>9, <1>10 DEF Held, Awake
<1> HIDE DEF R
<1>12. j.latest >= snk[f].latest /\ j.highest <= src[f].pull + Demand
  BY <1>2, <1>6, <1>9, OfFlow
<1>13. snk'[f] = j
  BY <1>2, <1>3, OfFlow
<1>14. MsgOK(pull, src, snk')
  BY <1>2, <1>6, <1>7, <1>9, <1>13 DEF MsgOK
<1>15. \A n \in net' : n \in net \/ MsgOK(n, src, snk')
  BY <1>3, <1>14
<1> QED
  BY <1>2, <1>3, <1>9, <1>11, <1>12, <1>15, ReceiverStep DEF R

\* A turn of the pacer keeps the invariant.
LEMMA PacerTurnKeeps ==
    ASSUME CreditInv, PacerTurn
    PROVE  CreditInv'
<1>1. src' = src /\ pacer.on
  BY DEF PacerTurn
<1>2. CASE pacer.active # <<>> /\ ServeActive
  BY <1>1, <1>2, ServeActiveKeeps
<1>3. CASE pacer.active = <<>> /\ pacer.idle # <<>> /\ ServeIdle
  BY <1>1, <1>3, ServeIdleKeeps
<1>4. CASE /\ pacer.active = <<>> /\ pacer.idle = <<>>
           /\ pacer' = [pacer EXCEPT !.on = FALSE] /\ UNCHANGED <<snk, net>>
  <2>1. pacer' \in PacerSet /\ pacer'.active = pacer.active /\ pacer'.idle = pacer.idle
    BY <1>4 DEF CreditInv, Functions, PacerSet
  <2>2. Functions' /\ Listed(snk, pacer)' /\ Awake(pacer)'
    BY <1>1, <1>4, <2>1 DEF CreditInv, Functions, Listed, Awake
  <2> QED
    BY <1>1, <1>4, <2>2 DEF CreditInv
<1> QED
  BY <1>2, <1>3, <1>4 DEF PacerTurn

\* A message lost or trimmed keeps the invariant.
LEMMA LoseKeeps ==
    ASSUME CreditInv, NEW m \in net, Lose(m)
    PROVE  CreditInv'
<1> DEFINE trim == [from |-> m.from, t |-> "trim", p |-> m.p, target |-> m.target]
<1>1. UNCHANGED <<src, snk, pacer>> /\ MsgOK(m, src, snk)
  BY DEF Lose, CreditInv
<1>2. m.t = "data" => MsgOK(trim, src, snk)
  BY <1>1 DEF MsgOK
<1>3. \A n \in net' : n \in net \/ (m.t = "data" /\ n = trim)
  BY DEF Lose
<1> HIDE DEF trim
<1>4. \A n \in net' : MsgOK(n, src, snk)
  BY <1>2, <1>3 DEF CreditInv
<1> QED
  BY <1>1, <1>4 DEF CreditInv, Functions

-----------------------------------------------------------------------------
(* The specification *)

\* The invariant holds before the flows start.
LEMMA InitInv == Init => CreditInv
<1> SUFFICES ASSUME Init PROVE CreditInv
  OBVIOUS
<1>1. /\ InitSrc \in SrcSet /\ InitSrc.out = {} /\ InitSrc.rtx = {} /\ InitSrc.credit = MaxWnd
      /\ InitSrc.pull = 0 /\ InitSrc.target = 0 /\ InitSrc.bytes = 0
  BY Constants DEF InitSrc, SrcSet
<1>2. InitSnk \in SnkSet /\ InitSnk.latest = 0 /\ InitSnk.highest = 0 /\ InitSnk.inPull = FALSE
  BY DEF InitSnk, SnkSet
<1>3. /\ InitPacer \in PacerSet /\ InitPacer.active = <<>> /\ InitPacer.idle = <<>>
  BY DEF InitPacer, PacerSet
<1>4. Demand >= 0 /\ Unquantize(0) = 0
  <2>1. MaxWnd + Mtu \in Int /\ 0 <= MaxWnd + Mtu
    BY Constants
  <2>2. QuantizeCeil(0) = 0 /\ Unquantize(0) = 0
    BY Constants DEF QuantizeCeil, Unquantize
  <2> QED
    BY <2>1, <2>2, CeilMonotone DEF Demand
<1>5. SrcOK(InitSrc)
  <2>1. Sorted(InitSrc)
    BY <1>1 DEF Sorted
  <2>2. Books(InitSrc)
    BY <1>1, <1>4, Constants, DemandType DEF Books
  <2> QED
    BY <1>1, <2>1, <2>2 DEF SrcOK
<1>6. Between(InitSrc, InitSnk)
  BY <1>1, <1>2, <1>4, DemandType DEF Between
<1>7. Listed(snk, pacer) /\ Awake(pacer)
  <2>1. pacer.active = <<>> /\ pacer.idle = <<>> /\ \A f \in Flows : snk[f].inPull = FALSE
    BY <1>2, <1>3 DEF Init
  <2>2. IsInjective(pacer.active) /\ ToSet(pacer.active) = {}
    BY <2>1 DEF IsInjective, ToSet
  <2> QED
    BY <2>1, <2>2 DEF Listed, Awake
<1>8. Functions
  BY <1>1, <1>2, <1>3 DEF Init, Functions
<1>9. \A f \in Flows : src[f] = InitSrc /\ snk[f] = InitSnk
  BY DEF Init
<1> QED
  BY <1>5, <1>6, <1>7, <1>8, <1>9 DEF CreditInv, Init

\* Every step keeps the invariant.
LEMMA NextInv == CreditInv /\ [Next]_vars => CreditInv'
<1> SUFFICES ASSUME CreditInv, [Next]_vars PROVE CreditInv'
  OBVIOUS
<1>1. CASE \E f \in Flows : Send(f) \/ Timeout(f)
  BY <1>1, SendKeeps, TimeoutKeeps
<1>2. CASE \E m \in net : Receive(m) \/ Lose(m)
  BY <1>2, ReceiveDataKeeps, ReceiveTrimmedKeeps, AnswersKeep, LoseKeeps DEF Receive
<1>3. CASE PacerTurn
  BY <1>3, PacerTurnKeeps
<1>4. CASE UNCHANGED vars
  BY <1>4 DEF vars, CreditInv, Functions
<1> QED
  BY <1>1, <1>2, <1>3, <1>4 DEF Next

\* In every reachable state the books of every sender balance, and everything on the way is
\* within what its receiver has granted or its sender may ask for.
THEOREM CreditInvariant == Spec => []CreditInv
<1> QED
  BY InitInv, NextInv, PTL DEF Spec

\* The state of receiver credit has its type; no packet waits for an answer and for its
\* retransmission at once.
THEOREM CreditTyped == Spec => []TypeOK
<1>1. CreditInv => TypeOK
  <2> SUFFICES ASSUME CreditInv PROVE TypeOK
    OBVIOUS
  <2>1. src \in [Flows -> SrcSet] /\ snk \in [Flows -> SnkSet] /\ pacer \in PacerSet
    BY DEF CreditInv, Functions
  <2>2. \A f \in Flows : src[f].out \cap src[f].rtx = {}
    BY DEF CreditInv, SrcOK, Sorted
  <2> QED
    BY <2>1, <2>2 DEF TypeOK, SrcSet, SnkSet, PacerSet
<1> QED
  BY <1>1, CreditInvariant, PTL

\* requestPull of the pacer never aborts on a sink it has, and doNextEvent never serves one
\* that left: the active list holds the sinks that believe they are in it, each once.
THEOREM CreditListAgrees == Spec => []ActiveListAgrees
<1>1. CreditInv => ActiveListAgrees
  BY DEF CreditInv, Listed, ActiveListAgrees
<1> QED
  BY <1>1, CreditInvariant, PTL

\* The pacer never sleeps on a sink that waits for its turn.
THEOREM CreditPacerAwake == Spec => []PacerAwake
<1>1. CreditInv => PacerAwake
  BY DEF CreditInv, Awake, PacerAwake
<1> QED
  BY <1>1, CreditInvariant, PTL

\* Whatever is lost, overtaken or repeated, a sender never spends more than its first window
\* and what its receiver has granted, and overdraws by less than a packet.
THEOREM CreditBank == Spec => []Bank
<1>1. CreditInv => Bank
  BY DEF CreditInv, SrcOK, Books, Between, Bank
<1> QED
  BY <1>1, CreditInvariant, PTL

\* However many senders share a NIC and however late their requests arrive, no receiver is
\* asked for more than a window and a packet beyond what its sender has been granted.
THEOREM CreditDemandBounded == Spec => []DemandBounded
<1>1. CreditInv => DemandBounded
  BY DEF CreditInv, Between, Demand, DemandBounded
<1> QED
  BY <1>1, CreditInvariant, PTL
=============================================================================
