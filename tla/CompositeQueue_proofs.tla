------------------------ MODULE CompositeQueue_proofs ------------------------
(***************************************************************************)
(* Proofs about CompositeQueue.  The inductive invariant, QueueInv, says   *)
(* where each packet that came is, what the counters have to do with that, *)
(* that the turn counter bounds how often the low list is passed over, and *)
(* that no data packet in full lies beyond the size of the queue.          *)
(***************************************************************************)
EXTENDS CompositeQueue, NatFacts_proofs, SequenceTheorems

-----------------------------------------------------------------------------
(* The bytes of a list.  Its running sum is a function, of which Bytes is the last value. *)

Packet == [id : Nat, type : {"data", "probe", "ctrl"}, size : 1 .. MaxSize,
           form : {"full", "low", "header"}]

\* An element of a list of packets.
LEMMA PacketOf ==
    ASSUME NEW s \in Seq(Packet), NEW i \in 1 .. Len(s)
    PROVE  /\ s[i] \in Packet /\ s[i].size \in Nat /\ s[i].size > 0
<1>1. s[i] \in Packet
  BY ElementOfSeq
<1> QED
  BY <1>1 DEF Packet

IsSum(s, f) ==
    /\ f \in [0 .. Len(s) -> Int] /\ f[0] = 0
    /\ \A i \in 1 .. Len(s) : f[i] = f[i - 1] + s[i].size

\* Such a sum of the first m elements.
PartSum(s, m, f) ==
    /\ f \in [0 .. m -> Nat] /\ f[0] = 0
    /\ \A i \in 1 .. m : f[i] = f[i - 1] + s[i].size

\* The recursion of Bytes goes on from the sequences of m packets to those of one more.
LEMMA PartSumNext ==
    ASSUME NEW s \in Seq(Packet), NEW m \in 1 .. Len(s), NEW f, PartSum(s, m - 1, f)
    PROVE  \E g : PartSum(s, m, g)
<1> DEFINE g == [i \in 0 .. m |-> IF i = m THEN f[m - 1] + s[m].size ELSE f[i]]
<1>1. s[m].size \in Nat
  BY PacketOf
<1>2. g \in [0 .. m -> Nat] /\ g[0] = 0
  BY <1>1 DEF PartSum
<1>3. ASSUME NEW i \in 1 .. m
      PROVE  g[i] = g[i - 1] + s[i].size
  <2>1. CASE i = m
    BY <2>1
  <2>2. CASE i # m
    <3>1. i \in 1 .. m - 1 /\ i - 1 \in 0 .. m - 1
      BY <2>2
    <3>2. g[i] = f[i] /\ g[i - 1] = f[i - 1]
      BY <2>2, <3>1
    <3> QED
      BY <3>1, <3>2 DEF PartSum
  <2> QED
    BY <2>1, <2>2
<1> HIDE DEF g
<1> QED
  BY <1>2, <1>3 DEF PartSum

\* Every list has a running sum, of naturals.
LEMMA SumExists ==
    ASSUME NEW s \in Seq(Packet)
    PROVE  \E f \in [0 .. Len(s) -> Nat] : IsSum(s, f)
<1> DEFINE n == Len(s)
           Bad == {m \in 0 .. n : ~ \E f : PartSum(s, m, f)}
<1>1. n \in Nat
  OBVIOUS
<1>2. Bad = {}
  <2> SUFFICES ASSUME Bad # {}
               PROVE  FALSE
    OBVIOUS
  <2>1. Bad \in SUBSET Nat
    OBVIOUS
  <2>2. PICK m \in Bad : \A k \in Bad : m <= k
    <3> HIDE DEF Bad
    <3> QED
      BY <2>1, LeastNat
  <2>3. m \in 0 .. n /\ ~ \E f : PartSum(s, m, f)
    OBVIOUS
  <2>4. m # 0
    <3> DEFINE f == [i \in 0 .. 0 |-> 0]
    <3>1. PartSum(s, 0, f)
      BY DEF PartSum
    <3> QED
      BY <2>3, <3>1
  <2>5. m \in 1 .. n /\ m - 1 \in 0 .. n /\ ~ (m <= m - 1)
    BY <1>1, <2>3, <2>4
  <2>6. m - 1 \notin Bad
    <3> HIDE DEF Bad
    <3> QED
      BY <2>2, <2>5
  <2>7. PICK f : PartSum(s, m - 1, f)
    BY <2>5, <2>6
  <2> QED
    BY <2>3, <2>5, <2>7, PartSumNext
<1>3. PICK f : PartSum(s, n, f)
  BY <1>1, <1>2
<1> QED
  BY <1>3 DEF IsSum, PartSum

\* It has only one, and its last value is what Bytes computes.
LEMMA BytesSum ==
    ASSUME NEW s \in Seq(Packet), NEW f, IsSum(s, f)
    PROVE  Bytes(s) = f[Len(s)]
<1> DEFINE n == Len(s)
           Eq(u) == u = [i \in 0 .. n |-> IF i = 0 THEN 0 ELSE u[i - 1] + s[i].size]
           upTo == CHOOSE u : Eq(u)
<1>1. n \in Nat /\ f \in [0 .. n -> Int] /\ f[0] = 0
      /\ \A i \in 1 .. n : f[i] = f[i - 1] + s[i].size
  BY DEF IsSum
<1>2. Eq(f)
  BY <1>1
<1>3. Eq(upTo)
  BY <1>2
<1>4. Bytes(s) = upTo[n]
  BY DEF Bytes
<1> HIDE DEF upTo
<1> DEFINE Bad == {i \in 0 .. n : upTo[i] # f[i]}
<1>5. Bad = {}
  <2> SUFFICES ASSUME Bad # {}
               PROVE  FALSE
    OBVIOUS
  <2>1. PICK m \in Bad : \A k \in Bad : m <= k
    <3>1. Bad \in SUBSET Nat
      OBVIOUS
    <3> HIDE DEF Bad
    <3> QED
      BY <3>1, LeastNat
  <2>2. \A i \in 0 .. n : upTo[i] = IF i = 0 THEN 0 ELSE upTo[i - 1] + s[i].size
    BY <1>3
  <2>3. CASE m = 0
    BY <1>1, <2>1, <2>2, <2>3
  <2>4. CASE m # 0
    <3>1. m \in 1 .. n /\ m - 1 \in 0 .. n /\ ~ (m <= m - 1)
      BY <1>1, <2>4
    <3>2. upTo[m - 1] = f[m - 1]
      BY <2>1, <3>1
    <3>3. upTo[m] = upTo[m - 1] + s[m].size /\ f[m] = f[m - 1] + s[m].size
      BY <1>1, <2>2, <3>1
    <3> QED
      BY <2>1, <3>2, <3>3
  <2> QED
    BY <2>3, <2>4
<1> QED
  BY <1>1, <1>4, <1>5

\* No packets take no bytes.
LEMMA BytesEmpty == Bytes(<<>>) = 0
<1> DEFINE f == [i \in 0 .. 0 |-> 0]
<1>1. << >> \in Seq(Packet) /\ Len(<< >>) = 0
  OBVIOUS
<1>2. IsSum(<< >>, f)
  BY <1>1 DEF IsSum
<1> QED
  BY <1>1, <1>2, BytesSum

\* The sum of a list is that of its beginnings, too.
LEMMA BytesPrefix ==
    ASSUME NEW s \in Seq(Packet), NEW f, IsSum(s, f), NEW i \in 0 .. Len(s)
    PROVE  SubSeq(s, 1, i) \in Seq(Packet) /\ Bytes(SubSeq(s, 1, i)) = f[i]
<1> DEFINE t == SubSeq(s, 1, i)
           g == [j \in 0 .. i |-> f[j]]
<1>1. /\ t \in Seq(Packet) /\ Len(t) = i
      /\ \A j \in 1 .. i : t[j] = s[j]
  <2>1. \A j \in 1 .. i : s[j] \in Packet
    BY PacketOf
  <2> QED
    BY <2>1, SubSeqProperties
<1> HIDE DEF t
<1>2. g \in [0 .. i -> Int] /\ g[0] = 0 /\ g[i] = f[i]
  BY DEF IsSum
<1>3. ASSUME NEW j \in 1 .. i
      PROVE  g[j] = g[j - 1] + t[j].size
  <2>1. j \in 1 .. Len(s) /\ j - 1 \in 0 .. i
    OBVIOUS
  <2>2. g[j] = f[j] /\ g[j - 1] = f[j - 1]
    BY <2>1
  <2> QED
    BY <1>1, <2>1, <2>2 DEF IsSum
<1> HIDE DEF g
<1>4. IsSum(t, g)
  BY <1>1, <1>2, <1>3 DEF IsSum
<1> QED
  BY <1>1, <1>2, <1>4, BytesSum DEF t

\* Packets take a number of bytes.
LEMMA BytesNat ==
    ASSUME NEW s \in Seq(Packet)
    PROVE  Bytes(s) \in Nat
<1>1. PICK f \in [0 .. Len(s) -> Nat] : IsSum(s, f)
  BY SumExists
<1> QED
  BY <1>1, BytesSum

\* A packet more takes its size.
LEMMA BytesAppend ==
    ASSUME NEW s \in Seq(Packet), NEW p \in Packet
    PROVE  /\ Bytes(Append(s, p)) = Bytes(s) + p.size
           /\ \A i \in 1 .. Len(s) : SubSeq(Append(s, p), 1, i) = SubSeq(s, 1, i)
           /\ SubSeq(Append(s, p), 1, Len(s) + 1) = Append(s, p)
<1> DEFINE n == Len(s)
           t == Append(s, p)
<1>1. PICK f \in [0 .. n -> Nat] : IsSum(s, f)
  BY SumExists
<1> DEFINE g == [i \in 0 .. n + 1 |-> IF i = n + 1 THEN f[n] + p.size ELSE f[i]]
<1>2. /\ n \in Nat /\ p.size \in Nat /\ t \in Seq(Packet) /\ Len(t) = n + 1
      /\ t[n + 1] = p /\ \A i \in 1 .. n : t[i] = s[i]
  BY AppendProperties DEF Packet
<1>3. g \in [0 .. n + 1 -> Int] /\ g[0] = 0 /\ g[n + 1] = f[n] + p.size
  BY <1>1, <1>2 DEF IsSum
<1>4. ASSUME NEW i \in 1 .. n + 1
      PROVE  g[i] = g[i - 1] + t[i].size
  <2>1. CASE i = n + 1
    BY <1>2, <2>1
  <2>2. CASE i # n + 1
    <3>1. i \in 1 .. n /\ i - 1 \in 0 .. n
      BY <1>2, <2>2
    <3>2. g[i] = f[i] /\ g[i - 1] = f[i - 1]
      BY <1>2, <3>1
    <3> QED
      BY <1>1, <1>2, <3>1, <3>2 DEF IsSum
  <2> QED
    BY <2>1, <2>2
<1>5. IsSum(t, g)
  <2> HIDE DEF g, t
  <2> QED
    BY <1>2, <1>3, <1>4 DEF IsSum
<1>6. Bytes(t) = Bytes(s) + p.size
  <2>1. Bytes(s) = f[n]
    BY <1>1, BytesSum
  <2> HIDE DEF g, t
  <2> QED
    BY <1>2, <1>3, <1>5, <2>1, BytesSum
<1>7. \A i \in 1 .. n : SubSeq(t, 1, i) = SubSeq(s, 1, i)
  <2> SUFFICES ASSUME NEW i \in 1 .. n
               PROVE  SubSeq(t, 1, i) = SubSeq(s, 1, i)
    OBVIOUS
  <2>1. \A j \in 1 .. i : s[j] \in Packet /\ t[j] = s[j]
    BY <1>2, PacketOf
  <2>2. /\ SubSeq(s, 1, i) \in Seq(Packet) /\ Len(SubSeq(s, 1, i)) = i
        /\ \A j \in 1 .. i : SubSeq(s, 1, i)[j] = s[j]
    BY <1>2, <2>1, SubSeqProperties
  <2> HIDE DEF t
  <2>3. /\ SubSeq(t, 1, i) \in Seq(Packet) /\ Len(SubSeq(t, 1, i)) = i
        /\ \A j \in 1 .. i : SubSeq(t, 1, i)[j] = t[j]
    BY <1>2, <2>1, SubSeqProperties
  <2> QED
    BY <2>1, <2>2, <2>3, SeqEqual
<1>8. SubSeq(t, 1, n + 1) = t
  <2> HIDE DEF t
  <2>1. \A j \in 1 .. n + 1 : t[j] \in Packet
    BY <1>2, PacketOf
  <2>2. /\ SubSeq(t, 1, n + 1) \in Seq(Packet) /\ Len(SubSeq(t, 1, n + 1)) = n + 1
        /\ \A j \in 1 .. n + 1 : SubSeq(t, 1, n + 1)[j] = t[j]
    BY <1>2, <2>1, SubSeqProperties
  <2> QED
    BY <1>2, <2>2, SeqEqual
<1> QED
  BY <1>6, <1>7, <1>8

\* Without its head a list, and each of its beginnings, is smaller by that packet.
LEMMA BytesTail ==
    ASSUME NEW s \in Seq(Packet), s # <<>>
    PROVE  /\ Bytes(Tail(s)) = Bytes(s) - Head(s).size
           /\ \A i \in 0 .. Len(s) - 1 :
                 Bytes(SubSeq(Tail(s), 1, i)) = Bytes(SubSeq(s, 1, i + 1)) - Head(s).size
<1> DEFINE n == Len(s)
           t == Tail(s)
<1>1. PICK f \in [0 .. n -> Nat] : IsSum(s, f)
  BY SumExists
<1> DEFINE g == [i \in 0 .. n - 1 |-> f[i + 1] - f[1]]
<1>2. /\ n \in Nat \ {0} /\ t \in Seq(Packet) /\ Len(t) = n - 1 /\ Head(s) = s[1]
      /\ \A i \in 1 .. n - 1 : t[i] = s[i + 1]
  BY EmptySeq, HeadTailProperties
<1>3. f[1] = Head(s).size
  BY <1>1, <1>2, PacketOf DEF IsSum
<1>4. g \in [0 .. n - 1 -> Int] /\ g[0] = 0
  BY <1>1, <1>2
<1>5. ASSUME NEW i \in 1 .. n - 1
      PROVE  g[i] = g[i - 1] + t[i].size
  <2>1. i + 1 \in 1 .. n /\ i \in 0 .. n /\ i - 1 \in 0 .. n - 1
    BY <1>2
  <2>2. f[i + 1] = f[i] + s[i + 1].size /\ s[i + 1].size \in Nat
    BY <1>1, <2>1, PacketOf DEF IsSum
  <2>3. g[i] = f[i + 1] - f[1] /\ g[i - 1] = f[i] - f[1] /\ f[1] \in Int /\ f[i] \in Int
    BY <1>1, <1>2, <2>1
  <2> HIDE DEF g
  <2> QED
    BY <1>2, <2>2, <2>3
<1>6. IsSum(t, g)
  <2> HIDE DEF g, t
  <2> QED
    BY <1>2, <1>4, <1>5 DEF IsSum
<1>7. ASSUME NEW i \in 0 .. n - 1
      PROVE  Bytes(SubSeq(t, 1, i)) = Bytes(SubSeq(s, 1, i + 1)) - Head(s).size
  <2>1. i + 1 \in 0 .. n
    BY <1>2
  <2>2. Bytes(SubSeq(s, 1, i + 1)) = f[i + 1]
    BY <1>1, <2>1, BytesPrefix
  <2>3. g[i] = f[i + 1] - f[1]
    OBVIOUS
  <2>4. Bytes(SubSeq(t, 1, i)) = g[i]
    <3> HIDE DEF g, t
    <3> QED
      BY <1>2, <1>6, BytesPrefix
  <2> QED
    BY <1>3, <2>2, <2>3, <2>4
<1>8. Bytes(t) = Bytes(s) - Head(s).size
  <2>1. Bytes(s) = f[n]
    BY <1>1, BytesSum
  <2>2. g[n - 1] = f[n] - f[1]
    BY <1>2
  <2>3. Bytes(t) = g[n - 1]
    <3> HIDE DEF g, t
    <3> QED
      BY <1>2, <1>6, BytesSum
  <2> QED
    BY <1>3, <2>1, <2>2, <2>3
<1> QED
  BY <1>7, <1>8

-----------------------------------------------------------------------------
(* The fates of the packets. *)

Fate == [type : {"data", "probe", "ctrl"}, form : {"full", "low", "header"}, end : Ends]
EndedIn(f, what) == {i \in 1 .. Len(f) : f[i].end = what}
SentIn(f, k) == [f EXCEPT ![k].end = "sent"]

\* An element of the list of fates.
LEMMA FateOf ==
    ASSUME NEW f \in Seq(Fate), NEW i \in 1 .. Len(f)
    PROVE  f[i] \in Fate
  BY ElementOfSeq

\* Finitely many packets have met an end.
LEMMA EndedFinite ==
    ASSUME NEW f \in Seq(Fate), NEW what
    PROVE  /\ IsFiniteSet(EndedIn(f, what)) /\ Cardinality(EndedIn(f, what)) \in Nat
           /\ EndedIn(f, what) \subseteq 1 .. Len(f)
           /\ Cardinality(EndedIn(f, what)) <= Len(f)
<1>1. EndedIn(f, what) \subseteq 1 .. Len(f)
  BY DEF EndedIn
<1>2. IsFiniteSet(1 .. Len(f)) /\ Cardinality(1 .. Len(f)) = Len(f)
  <2>1. Len(f) \in Nat /\ Len(f) \in Int /\ 1 \in Int
    OBVIOUS
  <2>2. Cardinality(1 .. Len(f)) = IF 1 > Len(f) THEN 0 ELSE Len(f) - 1 + 1
    BY <2>1, FS_Interval
  <2> QED
    BY <2>1, <2>2, FS_Interval
<1>3. IsFiniteSet(EndedIn(f, what)) /\ Cardinality(EndedIn(f, what)) <= Cardinality(1 .. Len(f))
  BY <1>1, <1>2, FS_Subset
<1> QED
  BY <1>1, <1>2, <1>3, FS_CardinalityType

\* A new fate adds one to the packets of its end.
LEMMA EndedAppend ==
    ASSUME NEW f \in Seq(Fate), NEW r \in Fate
    PROVE  /\ Append(f, r) \in Seq(Fate) /\ Len(Append(f, r)) = Len(f) + 1
           /\ Append(f, r)[Len(f) + 1] = r
           /\ \A i \in 1 .. Len(f) : Append(f, r)[i] = f[i]
           /\ \A what : EndedIn(Append(f, r), what) =
                 IF r.end = what THEN EndedIn(f, what) \cup {Len(f) + 1} ELSE EndedIn(f, what)
           /\ \A what : Cardinality(EndedIn(Append(f, r), what)) =
                 Cardinality(EndedIn(f, what)) + (IF r.end = what THEN 1 ELSE 0)
<1> DEFINE n == Len(f)
           g == Append(f, r)
<1>1. /\ n \in Nat /\ g \in Seq(Fate) /\ Len(g) = n + 1 /\ g[n + 1] = r
      /\ \A i \in 1 .. n : g[i] = f[i]
  BY AppendProperties
<1> HIDE DEF g
<1>2. \A what : EndedIn(g, what) =
                 IF r.end = what THEN EndedIn(f, what) \cup {n + 1} ELSE EndedIn(f, what)
  BY <1>1 DEF EndedIn
<1>3. ASSUME NEW what
      PROVE  Cardinality(EndedIn(g, what)) =
                 Cardinality(EndedIn(f, what)) + (IF r.end = what THEN 1 ELSE 0)
  <2>1. n + 1 \notin EndedIn(f, what) /\ IsFiniteSet(EndedIn(f, what))
        /\ Cardinality(EndedIn(f, what)) \in Nat
    BY <1>1, EndedFinite
  <2>2. CASE r.end = what
    BY <1>2, <2>1, <2>2, FS_AddElement
  <2>3. CASE r.end # what
    BY <1>2, <2>1, <2>3
  <2> QED
    BY <2>2, <2>3
<1> QED
  BY <1>1, <1>2, <1>3 DEF g

\* A queued packet that is sent leaves those queued for those sent.
LEMMA EndedSent ==
    ASSUME NEW f \in Seq(Fate), NEW k \in EndedIn(f, "queued")
    PROVE  /\ SentIn(f, k) \in Seq(Fate) /\ Len(SentIn(f, k)) = Len(f)
           /\ \A i \in 1 .. Len(f) : SentIn(f, k)[i].form = f[i].form
           /\ \A i \in 1 .. Len(f) : i # k => SentIn(f, k)[i] = f[i]
           /\ EndedIn(SentIn(f, k), "queued") = EndedIn(f, "queued") \ {k}
           /\ Cardinality(EndedIn(SentIn(f, k), "queued")) = Cardinality(EndedIn(f, "queued")) - 1
           /\ Cardinality(EndedIn(SentIn(f, k), "sent")) = Cardinality(EndedIn(f, "sent")) + 1
           /\ \A what : what \notin {"queued", "sent"} =>
                 EndedIn(SentIn(f, k), what) = EndedIn(f, what)
<1> DEFINE g == SentIn(f, k)
           r == [f[k] EXCEPT !.end = "sent"]
<1>1. k \in 1 .. Len(f) /\ f[k] \in Fate /\ f[k].end = "queued"
  BY FateOf DEF EndedIn
<1>2. r \in Fate /\ r.form = f[k].form /\ r.end = "sent"
  BY <1>1 DEF Fate, Ends
<1> HIDE DEF r
<1>3. g = [f EXCEPT ![k] = r]
  BY DEF SentIn, r
<1>4. /\ g \in Seq(Fate) /\ Len(g) = Len(f)
      /\ \A i \in 1 .. Len(f) : g[i] = IF i = k THEN r ELSE f[i]
  BY <1>1, <1>2, <1>3, ExceptSeq
<1> HIDE DEF g
<1>5. /\ EndedIn(g, "queued") = EndedIn(f, "queued") \ {k}
      /\ EndedIn(g, "sent") = EndedIn(f, "sent") \cup {k}
      /\ \A what : what \notin {"queued", "sent"} => EndedIn(g, what) = EndedIn(f, what)
  BY <1>1, <1>2, <1>4 DEF EndedIn
<1>6. k \notin EndedIn(f, "sent")
  BY <1>1 DEF EndedIn
<1>7. Cardinality(EndedIn(g, "queued")) = Cardinality(EndedIn(f, "queued")) - 1
  BY <1>5, EndedFinite, FS_RemoveElement
<1>8. Cardinality(EndedIn(g, "sent")) = Cardinality(EndedIn(f, "sent")) + 1
  BY <1>5, <1>6, EndedFinite, FS_AddElement
<1> QED
  BY <1>1, <1>2, <1>4, <1>5, <1>7, <1>8 DEF g

-----------------------------------------------------------------------------
(* The lists and the fates of the packets in them. *)

\* A list holds packets that are queued, in the order in which they came.
Holds(s, f) ==
    /\ s \in Seq(Packet)
    /\ \A i \in 1 .. Len(s) :
          s[i].id \in EndedIn(f, "queued") /\ f[s[i].id].form = s[i].form
    /\ \A i, j \in 1 .. Len(s) : i < j => s[i].id < s[j].id

Placed(h, l, f) ==
    /\ Holds(h, f) /\ Holds(l, f) /\ f \in Seq(Fate)
    /\ \A i \in 1 .. Len(h) : h[i].form = "header"
    /\ \A i \in 1 .. Len(h), j \in 1 .. Len(l) : h[i].id # l[j].id
    /\ \A k \in EndedIn(f, "queued") :
          (\E i \in 1 .. Len(h) : h[i].id = k) \/ (\E j \in 1 .. Len(l) : l[j].id = k)
    /\ Len(h) + Len(l) = Cardinality(EndedIn(f, "queued"))

\* A list holds the packets it did when one more has come.
LEMMA HoldsMore ==
    ASSUME NEW f \in Seq(Fate), NEW r \in Fate, NEW s, Holds(s, f)
    PROVE  Holds(s, Append(f, r))
<1> DEFINE g == Append(f, r)
<1>1. \A i \in 1 .. Len(f) : g[i] = f[i]
  BY EndedAppend
<1>2. \A k \in EndedIn(f, "queued") : k \in 1 .. Len(f) /\ k \in EndedIn(g, "queued")
  BY EndedAppend DEF EndedIn
<1> HIDE DEF g
<1> QED
  BY <1>1, <1>2 DEF Holds, g

\* A list that the packet that came joins holds it.
LEMMA HoldsPut ==
    ASSUME NEW f \in Seq(Fate), NEW r \in Fate, NEW s, Holds(s, f),
           NEW p \in Packet, p.id = Len(f) + 1, r.end = "queued", r.form = p.form
    PROVE  Holds(Append(s, p), Append(f, r))
<1> DEFINE g == Append(f, r)
           t == Append(s, p)
           n == Len(s)
<1>1. g[Len(f) + 1] = r /\ Len(f) + 1 \in EndedIn(g, "queued")
  BY EndedAppend
<1>2. Holds(s, g)
  BY HoldsMore
<1>3. /\ n \in Nat /\ t \in Seq(Packet) /\ Len(t) = n + 1 /\ t[n + 1] = p
      /\ \A i \in 1 .. n : t[i] = s[i]
  BY AppendProperties DEF Holds
<1>4. \A i \in 1 .. n : s[i].id \in 1 .. Len(f)
  BY DEF Holds, EndedIn
<1> HIDE DEF g, t
<1>5. ASSUME NEW i \in 1 .. n + 1
      PROVE  t[i].id \in EndedIn(g, "queued") /\ g[t[i].id].form = t[i].form
  <2>1. CASE i = n + 1
    BY <1>1, <1>3, <2>1
  <2>2. CASE i # n + 1
    <3>1. i \in 1 .. n
      BY <1>3, <2>2
    <3> QED
      BY <1>2, <1>3, <3>1 DEF Holds
  <2> QED
    BY <2>1, <2>2
<1>6. ASSUME NEW i \in 1 .. n + 1, NEW j \in 1 .. n + 1, i < j
      PROVE  t[i].id < t[j].id
  <2>1. i \in 1 .. n
    BY <1>3, <1>6
  <2>2. CASE j = n + 1
    BY <1>3, <1>4, <2>1, <2>2
  <2>3. CASE j # n + 1
    <3>1. j \in 1 .. n
      BY <1>3, <2>3
    <3> QED
      BY <1>2, <1>3, <1>6, <2>1, <3>1 DEF Holds
  <2> QED
    BY <2>2, <2>3
<1>7. Holds(t, g)
  BY <1>3, <1>5, <1>6 DEF Holds
<1> QED
  BY <1>7 DEF t, g

\* A list loses nothing when a packet of the other one is sent.
LEMMA HoldsOther ==
    ASSUME NEW f \in Seq(Fate), NEW s, Holds(s, f), NEW k \in EndedIn(f, "queued"),
           \A i \in 1 .. Len(s) : s[i].id # k
    PROVE  Holds(s, SentIn(f, k))
<1> DEFINE g == SentIn(f, k)
<1>1. /\ EndedIn(g, "queued") = EndedIn(f, "queued") \ {k}
      /\ \A i \in 1 .. Len(f) : g[i].form = f[i].form
  BY EndedSent
<1> HIDE DEF g
<1>2. Holds(s, g)
  BY <1>1 DEF Holds, EndedIn
<1> QED
  BY <1>2 DEF g

\* A list whose oldest packet is sent holds the others, all of which came later.
LEMMA HoldsServed ==
    ASSUME NEW f \in Seq(Fate), NEW s, Holds(s, f), s # <<>>
    PROVE  /\ Head(s) = s[1] /\ Head(s).id \in EndedIn(f, "queued") /\ Len(s) \in Nat \ {0}
           /\ Len(Tail(s)) = Len(s) - 1
           /\ \A i \in 1 .. Len(s) - 1 : Tail(s)[i] = s[i + 1]
           /\ Holds(Tail(s), SentIn(f, Head(s).id))
           /\ \A i \in 1 .. Len(Tail(s)) : Tail(s)[i].id > Head(s).id
<1> DEFINE t == Tail(s)
           n == Len(s)
           k == Head(s).id
<1>1. /\ s \in Seq(Packet) /\ n \in Nat \ {0} /\ t \in Seq(Packet) /\ Len(t) = n - 1
      /\ Head(s) = s[1] /\ \A i \in 1 .. n - 1 : t[i] = s[i + 1]
  BY EmptySeq, HeadTailProperties DEF Holds
<1>2. k \in EndedIn(f, "queued")
  BY <1>1 DEF Holds
<1>3. \A i \in 1 .. n - 1 : i + 1 \in 1 .. n /\ s[i + 1].id > s[1].id
  <2>1. ASSUME NEW i \in 1 .. n - 1
        PROVE  i + 1 \in 1 .. n /\ 1 \in 1 .. n /\ 1 < i + 1
    BY <1>1
  <2>2. ASSUME NEW i \in 1 .. n
        PROVE  s[i].id \in Nat
    BY <1>1, PacketOf DEF Packet
  <2> QED
    BY <1>1, <2>1, <2>2 DEF Holds
<1> HIDE DEF t, n
<1>4. Holds(t, f)
  <2>1. \A i \in 1 .. Len(t) :
          t[i].id \in EndedIn(f, "queued") /\ f[t[i].id].form = t[i].form
    BY <1>1, <1>3 DEF Holds, n
  <2>2. ASSUME NEW i \in 1 .. Len(t), NEW j \in 1 .. Len(t), i < j
        PROVE  t[i].id < t[j].id
    <3>1. i + 1 \in 1 .. n /\ j + 1 \in 1 .. n /\ i + 1 < j + 1
      BY <1>1, <2>2
    <3>2. s[i + 1].id < s[j + 1].id
      BY <3>1 DEF Holds, n
    <3> QED
      BY <1>1, <3>2
  <2> QED
    BY <1>1, <2>1, <2>2 DEF Holds
<1>5. \A i \in 1 .. Len(t) : t[i].id > k
  BY <1>1, <1>3
<1>6. \A i \in 1 .. Len(t) : t[i].id # k
  <2>1. \A i \in 1 .. Len(t) : t[i].id \in Nat /\ k \in Nat
    BY <1>1, <1>2, <1>4 DEF Holds, EndedIn
  <2> QED
    BY <1>5, <2>1
<1>7. Holds(t, SentIn(f, k))
  BY <1>2, <1>4, <1>6, HoldsOther
<1> QED
  BY <1>1, <1>2, <1>5, <1>7 DEF t, n

\* An arrival that is put in the low list, in the high list, or nowhere.
LEMMA PlacedLow ==
    ASSUME NEW f \in Seq(Fate), NEW r \in Fate, NEW h, NEW l, Placed(h, l, f),
           NEW p \in Packet, p.id = Len(f) + 1, r.end = "queued", r.form = p.form
    PROVE  Placed(h, Append(l, p), Append(f, r))
<1> DEFINE g == Append(f, r)
           t == Append(l, p)
           n == Len(l)
<1>1. /\ g \in Seq(Fate) /\ EndedIn(g, "queued") = EndedIn(f, "queued") \cup {Len(f) + 1}
      /\ Cardinality(EndedIn(g, "queued")) = Cardinality(EndedIn(f, "queued")) + 1
  BY EndedAppend
<1>2. Holds(h, g) /\ Holds(t, g)
  BY HoldsMore, HoldsPut DEF Placed
<1>3. /\ n \in Nat /\ Len(t) = n + 1 /\ t[n + 1] = p
      /\ \A i \in 1 .. n : t[i] = l[i]
  BY AppendProperties DEF Placed, Holds
<1>4. \A i \in 1 .. Len(h) : h[i].id \in 1 .. Len(f)
  BY DEF Placed, Holds, EndedIn
<1> HIDE DEF g, t
<1>5. ASSUME NEW i \in 1 .. Len(h), NEW j \in 1 .. Len(t)
      PROVE  h[i].id # t[j].id
  <2>1. CASE j = n + 1
    BY <1>3, <1>4, <2>1
  <2>2. CASE j # n + 1
    <3>1. j \in 1 .. n
      BY <1>3, <2>2
    <3> QED
      BY <1>3, <3>1 DEF Placed
  <2> QED
    BY <2>1, <2>2
<1>6. ASSUME NEW k \in EndedIn(g, "queued")
      PROVE  (\E i \in 1 .. Len(h) : h[i].id = k) \/ (\E j \in 1 .. Len(t) : t[j].id = k)
  <2>1. CASE k = Len(f) + 1
    <3>1. n + 1 \in 1 .. Len(t)
      BY <1>3
    <3> QED
      BY <1>3, <2>1, <3>1
  <2>2. CASE k # Len(f) + 1
    <3>1. k \in EndedIn(f, "queued")
      BY <1>1, <2>2
    <3>2. \A j \in 1 .. n : j \in 1 .. Len(t) /\ t[j] = l[j]
      BY <1>3
    <3> QED
      BY <3>1, <3>2 DEF Placed
  <2> QED
    BY <2>1, <2>2
<1>7. Len(h) + Len(t) = Cardinality(EndedIn(g, "queued"))
  <2>1. Len(h) \in Nat /\ Len(h) + n = Cardinality(EndedIn(f, "queued"))
    BY DEF Placed, Holds
  <2> QED
    BY <1>1, <1>3, <2>1
<1>8. Placed(h, t, g)
  BY <1>1, <1>2, <1>5, <1>6, <1>7 DEF Placed
<1> QED
  BY <1>8 DEF g, t

\* The packet that came is put in the high list.
LEMMA PlacedHigh ==
    ASSUME NEW f \in Seq(Fate), NEW r \in Fate, NEW h, NEW l, Placed(h, l, f),
           NEW p \in Packet, p.id = Len(f) + 1, r.end = "queued", r.form = p.form,
           p.form = "header"
    PROVE  Placed(Append(h, p), l, Append(f, r))
<1> DEFINE g == Append(f, r)
           t == Append(h, p)
           n == Len(h)
<1>1. /\ g \in Seq(Fate) /\ EndedIn(g, "queued") = EndedIn(f, "queued") \cup {Len(f) + 1}
      /\ Cardinality(EndedIn(g, "queued")) = Cardinality(EndedIn(f, "queued")) + 1
  BY EndedAppend
<1>2. Holds(t, g) /\ Holds(l, g)
  BY HoldsMore, HoldsPut DEF Placed
<1>3. /\ n \in Nat /\ Len(t) = n + 1 /\ t[n + 1] = p
      /\ \A i \in 1 .. n : t[i] = h[i]
  BY AppendProperties DEF Placed, Holds
<1>4. \A i \in 1 .. Len(l) : l[i].id \in 1 .. Len(f)
  BY DEF Placed, Holds, EndedIn
<1> HIDE DEF g, t
<1>5. ASSUME NEW i \in 1 .. Len(t)
      PROVE  t[i].form = "header" /\ \A j \in 1 .. Len(l) : t[i].id # l[j].id
  <2>1. CASE i = n + 1
    BY <1>3, <1>4, <2>1
  <2>2. CASE i # n + 1
    <3>1. i \in 1 .. n
      BY <1>3, <2>2
    <3> QED
      BY <1>3, <3>1 DEF Placed
  <2> QED
    BY <2>1, <2>2
<1>6. ASSUME NEW k \in EndedIn(g, "queued")
      PROVE  (\E i \in 1 .. Len(t) : t[i].id = k) \/ (\E j \in 1 .. Len(l) : l[j].id = k)
  <2>1. CASE k = Len(f) + 1
    <3>1. n + 1 \in 1 .. Len(t)
      BY <1>3
    <3> QED
      BY <1>3, <2>1, <3>1
  <2>2. CASE k # Len(f) + 1
    <3>1. k \in EndedIn(f, "queued")
      BY <1>1, <2>2
    <3>2. \A i \in 1 .. n : i \in 1 .. Len(t) /\ t[i] = h[i]
      BY <1>3
    <3> QED
      BY <3>1, <3>2 DEF Placed
  <2> QED
    BY <2>1, <2>2
<1>7. Len(t) + Len(l) = Cardinality(EndedIn(g, "queued"))
  <2>1. Len(l) \in Nat /\ n + Len(l) = Cardinality(EndedIn(f, "queued"))
    BY DEF Placed, Holds
  <2> QED
    BY <1>1, <1>3, <2>1
<1>8. Placed(t, l, g)
  BY <1>1, <1>2, <1>5, <1>6, <1>7 DEF Placed
<1> QED
  BY <1>8 DEF g, t

\* The packet that came is in no list: it is dropped or returned.
LEMMA PlacedNowhere ==
    ASSUME NEW f \in Seq(Fate), NEW r \in Fate, NEW h, NEW l, Placed(h, l, f), r.end # "queued"
    PROVE  Placed(h, l, Append(f, r))
<1> DEFINE g == Append(f, r)
<1>1. /\ g \in Seq(Fate) /\ EndedIn(g, "queued") = EndedIn(f, "queued")
      /\ Cardinality(EndedIn(g, "queued")) = Cardinality(EndedIn(f, "queued"))
  BY EndedAppend
<1>2. Holds(h, g) /\ Holds(l, g)
  BY HoldsMore DEF Placed
<1> HIDE DEF g
<1>3. Placed(h, l, g)
  BY <1>1, <1>2 DEF Placed
<1> QED
  BY <1>3 DEF g

\* The head of a list is sent.
LEMMA PlacedLowServed ==
    ASSUME NEW f \in Seq(Fate), NEW h, NEW l, Placed(h, l, f), l # <<>>
    PROVE  Placed(h, Tail(l), SentIn(f, Head(l).id))
<1> DEFINE k == Head(l).id
           g == SentIn(f, k)
           t == Tail(l)
           n == Len(l)
<1>1. /\ k = l[1].id /\ k \in EndedIn(f, "queued") /\ n \in Nat \ {0} /\ Len(t) = n - 1
      /\ \A i \in 1 .. n - 1 : t[i] = l[i + 1]
      /\ Holds(t, g)
  BY HoldsServed DEF Placed
<1> HIDE DEF k, t
<1>2. /\ g \in Seq(Fate) /\ EndedIn(g, "queued") = EndedIn(f, "queued") \ {k}
      /\ Cardinality(EndedIn(g, "queued")) = Cardinality(EndedIn(f, "queued")) - 1
  BY <1>1, EndedSent
<1>3. \A i \in 1 .. Len(h) : h[i].id # k
  BY <1>1 DEF Placed
<1>4. Holds(h, g)
  BY <1>1, <1>3, HoldsOther DEF Placed
<1> HIDE DEF g
<1>5. \A i \in 1 .. Len(h), j \in 1 .. Len(t) : h[i].id # t[j].id
  <2>1. ASSUME NEW j \in 1 .. Len(t)
        PROVE  j + 1 \in 1 .. n /\ t[j] = l[j + 1]
    BY <1>1
  <2> QED
    BY <2>1 DEF Placed
<1>6. ASSUME NEW m \in EndedIn(g, "queued")
      PROVE  (\E i \in 1 .. Len(h) : h[i].id = m) \/ (\E j \in 1 .. Len(t) : t[j].id = m)
  <2>1. m \in EndedIn(f, "queued") /\ m # k
    BY <1>2
  <2>2. ASSUME NEW j \in 1 .. n, l[j].id = m
        PROVE  \E i \in 1 .. Len(t) : t[i].id = m
    <3>1. j # 1
      BY <1>1, <2>1, <2>2
    <3>2. j - 1 \in 1 .. Len(t) /\ t[j - 1] = l[j]
      BY <1>1, <3>1
    <3> QED
      BY <2>2, <3>2
  <2> QED
    BY <2>1, <2>2 DEF Placed
<1>7. Len(h) + Len(t) = Cardinality(EndedIn(g, "queued"))
  <2>1. Len(h) \in Nat /\ Len(h) + n = Cardinality(EndedIn(f, "queued"))
    BY DEF Placed, Holds
  <2> QED
    BY <1>1, <1>2, <2>1
<1>8. Placed(h, t, g)
  BY <1>1, <1>2, <1>4, <1>5, <1>6, <1>7 DEF Placed
<1> QED
  BY <1>8 DEF g, t, k

\* The oldest packet of the high list is sent.
LEMMA PlacedHighServed ==
    ASSUME NEW f \in Seq(Fate), NEW h, NEW l, Placed(h, l, f), h # <<>>
    PROVE  Placed(Tail(h), l, SentIn(f, Head(h).id))
<1> DEFINE k == Head(h).id
           g == SentIn(f, k)
           t == Tail(h)
           n == Len(h)
<1>1. /\ k = h[1].id /\ k \in EndedIn(f, "queued") /\ n \in Nat \ {0} /\ Len(t) = n - 1
      /\ \A i \in 1 .. n - 1 : t[i] = h[i + 1]
      /\ Holds(t, g)
  BY HoldsServed DEF Placed
<1> HIDE DEF k, t
<1>2. /\ g \in Seq(Fate) /\ EndedIn(g, "queued") = EndedIn(f, "queued") \ {k}
      /\ Cardinality(EndedIn(g, "queued")) = Cardinality(EndedIn(f, "queued")) - 1
  BY <1>1, EndedSent
<1>3. 1 \in 1 .. n /\ \A j \in 1 .. Len(l) : l[j].id # k
  BY <1>1 DEF Placed
<1>4. Holds(l, g)
  BY <1>1, <1>3, HoldsOther DEF Placed
<1> HIDE DEF g
<1>5. ASSUME NEW i \in 1 .. Len(t)
      PROVE  t[i].form = "header" /\ \A j \in 1 .. Len(l) : t[i].id # l[j].id
  <2>1. i + 1 \in 1 .. n /\ t[i] = h[i + 1]
    BY <1>1
  <2> QED
    BY <2>1 DEF Placed
<1>6. ASSUME NEW m \in EndedIn(g, "queued")
      PROVE  (\E i \in 1 .. Len(t) : t[i].id = m) \/ (\E j \in 1 .. Len(l) : l[j].id = m)
  <2>1. m \in EndedIn(f, "queued") /\ m # k
    BY <1>2
  <2>2. ASSUME NEW j \in 1 .. n, h[j].id = m
        PROVE  \E i \in 1 .. Len(t) : t[i].id = m
    <3>1. j # 1
      BY <1>1, <2>1, <2>2
    <3>2. j - 1 \in 1 .. Len(t) /\ t[j - 1] = h[j]
      BY <1>1, <3>1
    <3> QED
      BY <2>2, <3>2
  <2> QED
    BY <2>1, <2>2 DEF Placed
<1>7. Len(t) + Len(l) = Cardinality(EndedIn(g, "queued"))
  <2>1. Len(l) \in Nat /\ n + Len(l) = Cardinality(EndedIn(f, "queued"))
    BY DEF Placed, Holds
  <2> QED
    BY <1>1, <1>2, <2>1
<1>8. Placed(t, l, g)
  BY <1>1, <1>2, <1>4, <1>5, <1>6, <1>7 DEF Placed
<1> QED
  BY <1>8 DEF g, t, k

-----------------------------------------------------------------------------
(* The inductive invariant. *)

\* The counters agree with the fates.
Books(c, f) ==
    /\ c \in [packets : Nat, headers : Nat, drops : Nat, stripped : Nat, bounced : Nat]
    /\ c.packets + c.headers = Cardinality(EndedIn(f, "sent"))
    /\ c.drops = Cardinality(EndedIn(f, "dropped")) + Cardinality(EndedIn(f, "lost"))
    /\ c.bounced = Cardinality(EndedIn(f, "bounced"))
    /\ c.stripped <= Len(f)

Busy(sv, h, l) ==
    /\ sv \in {"none", "hi", "lo"}
    /\ sv = "none" <=> h = <<>> /\ l = <<>>
    /\ sv = "hi" => h # <<>>
    /\ sv = "lo" => l # <<>>

\* While the low list waits the turn counter counts how often it was passed over.
Turns(c, b) ==
    /\ c \in 0 .. RatioHigh /\ b \in Nat
    /\ b > 0 => b <= c + 1 /\ c < RatioHigh

Near(l) ==
    \A i \in 1 .. Len(l) :
       l[i].type = "data" /\ l[i].form = "full" => Bytes(SubSeq(l, 1, i)) <= MaxSize

Told(m, f) ==
    m.lowTrim /\ m.keepLow => \A i \in EndedIn(f, "dropped") : f[i].form = "header"

\* What is in the low list came after what was sent from it.
Fifo(last, l, f) ==
    /\ last \in 0 .. Len(f)
    /\ \A i \in 1 .. Len(l) : l[i].id > last

QueueInv ==
    /\ mode \in Mode /\ marked \in BOOLEAN
    /\ Placed(hi, lo, fate) /\ Len(fate) <= MaxPackets
    /\ bytesHi = Bytes(hi) /\ bytesHi <= 2 * MaxSize
    /\ bytesLo = Bytes(lo) /\ Near(lo)
    /\ Books(counts, fate)
    /\ Busy(serv, hi, lo)
    /\ Turns(crt, bypass)
    /\ Told(mode, fate)
    /\ Fifo(sentLo, lo, fate)

Assumptions == ModeAssumption /\ SizeAssumption /\ BoundAssumption

\* The next service is of a list that holds a packet, and of the low list in time.
LEMMA ServiceBegins ==
    ASSUME BoundAssumption, Turns(crt, bypass), NEW h, NEW l, ~(h = <<>> /\ l = <<>>),
           BeginService(h, l)
    PROVE  Busy(serv', h, l) /\ Turns(crt', bypass')
<1> DEFINE both == h # <<>> /\ l # <<>>
           c == IF both THEN Turn(crt) ELSE crt
           low == h = <<>> \/ (both /\ c >= RatioHigh)
<1>1. crt' = c /\ serv' = (IF low THEN "lo" ELSE "hi")
      /\ bypass' = (IF l = <<>> \/ low THEN 0 ELSE bypass + 1)
  BY DEF BeginService
<1>2. RatioHigh \in Nat \ {0} /\ crt \in 0 .. RatioHigh /\ bypass \in Nat
      /\ (bypass > 0 => bypass <= crt + 1 /\ crt < RatioHigh)
  BY DEF Turns, BoundAssumption
<1>3. Turn(crt) = IF crt = RatioHigh THEN 0 ELSE crt + 1
  <2>1. CASE crt = RatioHigh
    <3>1. (RatioHigh + 1) % (RatioHigh + 1) = 0
      BY <1>2
    <3> QED
      BY <2>1, <3>1 DEF Turn
  <2>2. CASE crt # RatioHigh
    <3>1. crt + 1 \in Nat /\ RatioHigh + 1 \in Nat /\ crt + 1 < RatioHigh + 1
      BY <1>2, <2>2
    <3> QED
      BY <2>2, <3>1, ModSmall DEF Turn
  <2> QED
    BY <2>1, <2>2
<1>4. Busy(serv', h, l)
  BY <1>1 DEF Busy
<1>5. Turns(crt', bypass')
  <2>1. CASE both
    <3>1. c = Turn(crt)
      BY <2>1
    <3> HIDE DEF c
    <3> QED
      BY <1>1, <1>2, <1>3, <2>1, <3>1 DEF Turns
  <2>2. CASE ~both
    <3>1. c = crt /\ (l = <<>> \/ low)
      BY <2>2
    <3> HIDE DEF c, low
    <3> QED
      BY <1>1, <1>2, <3>1 DEF Turns
  <2> QED
    BY <2>1, <2>2
<1> QED
  BY <1>4, <1>5

\* After a service the queue begins the next one, if it holds a packet, and the turns are kept.
LEMMA ServiceContinues ==
    ASSUME BoundAssumption, Turns(crt, bypass), NEW h \in Seq(Packet), NEW l \in Seq(Packet),
           Continue(h, l)
    PROVE  Busy(serv', h, l) /\ Turns(crt', bypass')
<1>1. h \o l = <<>> <=> h = <<>> /\ l = <<>>
  <2>1. Len(h) \in Nat /\ Len(l) \in Nat /\ h \o l \in Seq(Packet)
        /\ Len(h \o l) = Len(h) + Len(l)
    BY ConcatProperties
  <2>2. /\ h \o l = <<>> <=> Len(h \o l) = 0
        /\ h = <<>> <=> Len(h) = 0
        /\ l = <<>> <=> Len(l) = 0
    BY <2>1, EmptySeq
  <2> QED
    BY <2>1, <2>2
<1>2. CASE h \o l # <<>>
  BY <1>1, <1>2, ServiceBegins DEF Continue
<1>3. CASE h \o l = <<>>
  BY <1>1, <1>3 DEF Continue, Busy
<1> QED
  BY <1>2, <1>3

\* A queue at rest begins with what arrives; one that is busy goes on.
LEMMA ServiceBegun ==
    ASSUME BoundAssumption, Turns(crt, bypass), Busy(serv, hi, lo), NEW h, NEW l,
           ~(h = <<>> /\ l = <<>>), hi # <<>> => h # <<>>, lo # <<>> => l # <<>>,
           Begun(h, l)
    PROVE  Busy(serv', h, l) /\ Turns(crt', bypass')
<1>1. CASE serv = "none"
  BY <1>1, ServiceBegins DEF Begun
<1>2. CASE serv # "none"
  BY <1>2 DEF Begun, Busy
<1> QED
  BY <1>1, <1>2

-----------------------------------------------------------------------------
(* Arrivals. *)

\* What the packet that comes is.
LEMMA Arriving ==
    ASSUME Assumptions, QueueInv, NEW a \in Arrivals
    PROVE  /\ a \in Packet /\ a.id = Len(fate) + 1
           /\ a.form = "header" => a.size = TrimSize
           /\ a.form = "low" => mode.lowTrim
<1>1. fate \in Seq(Fate) /\ Len(fate) + 1 \in Nat
  BY DEF QueueInv, Placed
<1>2. TrimSize \in 1 .. MaxSize /\ DataSizes \subseteq 1 .. MaxSize /\ ProbeSizes \subseteq 1 .. MaxSize
  BY DEF Assumptions, SizeAssumption
<1> QED
  BY <1>1, <1>2 DEF Arrivals, Arrival, Packet

\* What low priority trimming and the making of a header leave of a packet.
LEMMA Trimming ==
    ASSUME Assumptions, QueueInv, NEW a \in Packet
    PROVE  /\ LowTrimmed(a) \in Packet /\ LowTrimmed(a).id = a.id /\ LowTrimmed(a).type = a.type
           /\ a.form = "header" => LowTrimmed(a) = a
           /\ LowTrimmed(a).form = "header" => a.form = "header"
           /\ mode.lowTrim /\ LowTrimmed(a).form = "full" => Fits(LowTrimmed(a))
           /\ Header(a) \in Packet /\ Header(a).id = a.id /\ Header(a).type = a.type
           /\ Header(a).form = "header" /\ Header(a).size = TrimSize
<1>1. TrimSize \in 1 .. MaxSize
  BY DEF Assumptions, SizeAssumption
<1> QED
  BY <1>1 DEF LowTrimmed, Header, Packet

\* The books after an arrival.
LEMMA BooksArrival ==
    ASSUME NEW f \in Seq(Fate), NEW c, Books(c, f), NEW r \in Fate, NEW strip \in {0, 1},
           NEW drop \in {0, 1}, NEW bounce \in {0, 1}, r.end # "sent",
           drop = 1 <=> r.end \in {"dropped", "lost"}, bounce = 1 <=> r.end = "bounced"
    PROVE  Books([c EXCEPT !.stripped = @ + strip, !.drops = @ + drop, !.bounced = @ + bounce],
                 Append(f, r))
<1> DEFINE d == [c EXCEPT !.stripped = @ + strip, !.drops = @ + drop, !.bounced = @ + bounce]
           g == Append(f, r)
<1>1. /\ Len(g) = Len(f) + 1 /\ Len(f) \in Nat
      /\ \A what : Cardinality(EndedIn(g, what)) =
            Cardinality(EndedIn(f, what)) + (IF r.end = what THEN 1 ELSE 0)
      /\ \A what : Cardinality(EndedIn(f, what)) \in Nat
  BY EndedAppend, EndedFinite
<1>2. /\ d \in [packets : Nat, headers : Nat, drops : Nat, stripped : Nat, bounced : Nat]
      /\ d.packets = c.packets /\ d.headers = c.headers /\ d.drops = c.drops + drop
      /\ d.bounced = c.bounced + bounce /\ d.stripped = c.stripped + strip
  <2> DEFINE x == c.stripped + strip
             y == c.drops + drop
             z == c.bounced + bounce
  <2>1. c \in [packets : Nat, headers : Nat, drops : Nat, stripped : Nat, bounced : Nat]
    BY DEF Books
  <2>2. x \in Nat /\ y \in Nat /\ z \in Nat
    BY <2>1
  <2>3. d = [c EXCEPT !.stripped = x, !.drops = y, !.bounced = z]
    OBVIOUS
  <2> HIDE DEF d, x, y, z
  <2>4. /\ d \in [packets : Nat, headers : Nat, drops : Nat, stripped : Nat, bounced : Nat]
        /\ d.packets = c.packets /\ d.headers = c.headers /\ d.drops = y
        /\ d.bounced = z /\ d.stripped = x
    BY <2>1, <2>2, <2>3
  <2> QED
    BY <2>4 DEF x, y, z
<1> HIDE DEF d, g
<1>3. /\ Cardinality(EndedIn(g, "sent")) = Cardinality(EndedIn(f, "sent"))
      /\ Cardinality(EndedIn(g, "bounced")) = Cardinality(EndedIn(f, "bounced")) + bounce
      /\ Cardinality(EndedIn(g, "dropped")) + Cardinality(EndedIn(g, "lost")) =
            Cardinality(EndedIn(f, "dropped")) + Cardinality(EndedIn(f, "lost")) + drop
  <2>1. Cardinality(EndedIn(g, "sent")) = Cardinality(EndedIn(f, "sent"))
    BY <1>1
  <2>2. Cardinality(EndedIn(g, "bounced")) = Cardinality(EndedIn(f, "bounced")) + bounce
    BY <1>1
  <2>3. Cardinality(EndedIn(g, "dropped")) + Cardinality(EndedIn(g, "lost")) =
            Cardinality(EndedIn(f, "dropped")) + Cardinality(EndedIn(f, "lost")) + drop
    BY <1>1
  <2> QED
    BY <2>1, <2>2, <2>3
<1>4. Books(d, g)
  <2>1. d.stripped <= Len(g)
    <3>1. c.stripped \in Nat /\ c.stripped <= Len(f)
      BY DEF Books
    <3> QED
      BY <1>1, <1>2, <3>1
  <2>2. /\ d.packets + d.headers = Cardinality(EndedIn(g, "sent"))
        /\ d.drops = Cardinality(EndedIn(g, "dropped")) + Cardinality(EndedIn(g, "lost"))
        /\ d.bounced = Cardinality(EndedIn(g, "bounced"))
    BY <1>2, <1>3 DEF Books
  <2> QED
    BY <1>2, <2>1, <2>2 DEF Books
<1> QED
  BY <1>4 DEF d, g

\* What End does to the fates and the counters, whatever becomes of the packet.
LEMMA Ending ==
    ASSUME QueueInv, Len(fate) < MaxPackets, MaxPackets \in Nat,
           NEW a \in Packet, NEW p \in Packet, NEW what \in Ends, what # "sent",
           NEW drop \in {0, 1}, NEW bounce \in {0, 1},
           drop = 1 <=> what \in {"dropped", "lost"}, bounce = 1 <=> what = "bounced",
           what = "dropped" /\ mode.lowTrim /\ mode.keepLow => p.form = "header",
           End(a, p, what, drop, bounce),
           NEW r, r = [type |-> a.type, form |-> p.form, end |-> what]
    PROVE  /\ r \in Fate /\ r.end = what /\ r.form = p.form /\ fate' = Append(fate, r)
           /\ Len(fate') = Len(fate) + 1 /\ Len(fate') <= MaxPackets
           /\ Books(counts', fate')
           /\ Told(mode, fate')
<1>1. r \in Fate /\ r.end = what /\ r.form = p.form
  BY DEF Fate, Packet
<1>2. fate' = Append(fate, r) /\ fate \in Seq(Fate) /\ Len(fate) \in Nat
  BY DEF End, QueueInv, Placed
<1>3. /\ Len(fate') = Len(fate) + 1 /\ fate'[Len(fate) + 1] = r
      /\ \A i \in 1 .. Len(fate) : fate'[i] = fate[i]
  BY <1>1, <1>2, EndedAppend
<1>4. Books(counts', fate')
  <2> DEFINE strip == IF p.form = a.form THEN 0 ELSE 1
  <2>1. counts' = [counts EXCEPT !.stripped = @ + strip, !.drops = @ + drop,
                                 !.bounced = @ + bounce]
    BY DEF End
  <2>2. strip \in {0, 1} /\ Books(counts, fate)
    BY DEF QueueInv
  <2> HIDE DEF strip
  <2>3. drop = 1 <=> r.end \in {"dropped", "lost"}
    BY <1>1
  <2>4. bounce = 1 <=> r.end = "bounced"
    BY <1>1
  <2> QED
    BY <1>1, <1>2, <2>1, <2>2, <2>3, <2>4, BooksArrival
<1>5. Told(mode, fate')
  <2> SUFFICES ASSUME mode.lowTrim, mode.keepLow, NEW i \in EndedIn(fate', "dropped")
               PROVE  fate'[i].form = "header"
    BY DEF Told
  <2>1. i \in 1 .. Len(fate) + 1 /\ fate'[i].end = "dropped"
    BY <1>3 DEF EndedIn
  <2>2. CASE i \in 1 .. Len(fate)
    <3>1. i \in EndedIn(fate, "dropped")
      BY <1>3, <2>1, <2>2 DEF EndedIn
    <3> QED
      BY <1>3, <2>2, <3>1 DEF QueueInv, Told
  <2>3. CASE i \notin 1 .. Len(fate)
    <3>1. i = Len(fate) + 1
      BY <1>2, <2>1, <2>3
    <3> QED
      BY <1>1, <1>3, <2>1, <3>1
  <2> QED
    BY <2>2, <2>3
<1> QED
  BY <1>1, <1>2, <1>3, <1>4, <1>5

\* An arrival that ends here, dropped or bounced, leaves the lists and the service alone.
LEMMA EndsHere ==
    ASSUME Assumptions, QueueInv, Len(fate) < MaxPackets,
           NEW a \in Packet, NEW p \in Packet, NEW what \in {"dropped", "lost", "bounced"},
           NEW drop \in {0, 1}, NEW bounce \in {0, 1},
           drop = 1 <=> what \in {"dropped", "lost"}, bounce = 1 <=> what = "bounced",
           what = "dropped" /\ mode.lowTrim /\ mode.keepLow => p.form = "header",
           End(a, p, what, drop, bounce),
           UNCHANGED <<hi, lo, bytesHi, bytesLo, serv, crt, bypass, mode, marked, sentLo>>
    PROVE  QueueInv'
<1> DEFINE r == [type |-> a.type, form |-> p.form, end |-> what]
<1>1. MaxPackets \in Nat /\ what \in Ends /\ what # "sent" /\ what # "queued"
  BY DEF Assumptions, BoundAssumption, Ends
<1> HIDE DEF r
<1>2. /\ r \in Fate /\ r.end = what /\ fate' = Append(fate, r)
      /\ Len(fate') = Len(fate) + 1 /\ Len(fate') <= MaxPackets
      /\ Books(counts', fate') /\ Told(mode, fate')
  BY <1>1, Ending DEF r
<1>3. fate \in Seq(Fate) /\ Placed(hi, lo, fate) /\ Fifo(sentLo, lo, fate)
  BY DEF QueueInv, Placed
<1>4. Placed(hi, lo, fate')
  BY <1>1, <1>2, <1>3, PlacedNowhere
<1>5. Fifo(sentLo, lo, fate')
  <2>1. Len(fate) \in Nat
    BY <1>3
  <2> QED
    BY <1>2, <1>3, <2>1 DEF Fifo
<1> QED
  BY <1>2, <1>4, <1>5 DEF QueueInv

\* An arrival into the low list.  Only a data packet in full has to fit.
LEMMA PutLowKeeps ==
    ASSUME Assumptions, QueueInv, Len(fate) < MaxPackets,
           NEW a \in Packet, NEW p \in Packet, p.id = Len(fate) + 1,
           p.type = "data" /\ p.form = "full" => Fits(p),
           PutLow(a, p), UNCHANGED <<mode, marked, sentLo>>
    PROVE  QueueInv'
<1> DEFINE r == [type |-> a.type, form |-> p.form, end |-> "queued"]
           n == Len(lo)
<1>1. MaxPackets \in Nat /\ "queued" \in Ends
  BY DEF Assumptions, BoundAssumption, Ends
<1>2. /\ lo' = Append(lo, p) /\ bytesLo' = bytesLo + p.size /\ UNCHANGED <<hi, bytesHi>>
      /\ End(a, p, "queued", 0, 0) /\ Begun(hi, lo')
  BY DEF PutLow
<1> HIDE DEF r
<1>3. /\ r \in Fate /\ r.end = "queued" /\ r.form = p.form /\ fate' = Append(fate, r)
      /\ Len(fate') = Len(fate) + 1 /\ Len(fate') <= MaxPackets
      /\ Books(counts', fate') /\ Told(mode, fate')
  BY <1>1, <1>2, Ending DEF r
<1>4. /\ fate \in Seq(Fate) /\ Placed(hi, lo, fate) /\ lo \in Seq(Packet)
      /\ bytesLo = Bytes(lo) /\ Near(lo)
      /\ Fifo(sentLo, lo, fate) /\ Busy(serv, hi, lo) /\ Turns(crt, bypass)
  BY DEF QueueInv, Placed, Holds
<1>5. Placed(hi, lo', fate')
  BY <1>2, <1>3, <1>4, PlacedLow
<1>6. /\ n \in Nat /\ Len(lo') = n + 1 /\ lo'[n + 1] = p /\ lo' # <<>>
      /\ \A i \in 1 .. n : lo'[i] = lo[i]
  BY <1>2, <1>4, AppendProperties
<1>7. bytesLo' = Bytes(lo')
  BY <1>2, <1>4, BytesAppend
<1>8. Near(lo')
  <2> SUFFICES ASSUME NEW i \in 1 .. n + 1, lo'[i].type = "data", lo'[i].form = "full"
               PROVE  Bytes(SubSeq(lo', 1, i)) <= MaxSize
    BY <1>6 DEF Near
  <2>1. CASE i = n + 1
    <3>1. SubSeq(lo', 1, i) = lo'
      BY <1>2, <1>4, <2>1, BytesAppend
    <3>2. Fits(p)
      BY <1>6, <2>1
    <3> QED
      BY <1>2, <1>7, <3>1, <3>2 DEF Fits
  <2>2. CASE i # n + 1
    <3>1. i \in 1 .. n
      BY <1>6, <2>2
    <3>2. SubSeq(lo', 1, i) = SubSeq(lo, 1, i) /\ lo'[i] = lo[i]
      BY <1>2, <1>4, <1>6, <3>1, BytesAppend
    <3> QED
      BY <1>4, <3>1, <3>2 DEF Near
  <2> QED
    BY <2>1, <2>2
<1>9. Fifo(sentLo, lo', fate')
  <2>1. Len(fate) \in Nat /\ sentLo \in 0 .. Len(fate)
    BY <1>4 DEF Fifo
  <2>2. ASSUME NEW i \in 1 .. n + 1
        PROVE  lo'[i].id > sentLo
    <3>1. CASE i = n + 1
      BY <1>6, <2>1, <3>1
    <3>2. CASE i # n + 1
      <4>1. i \in 1 .. n
        BY <1>6, <3>2
      <4> QED
        BY <1>4, <1>6, <4>1 DEF Fifo
    <3> QED
      BY <3>1, <3>2
  <2> QED
    BY <1>3, <1>6, <2>1, <2>2 DEF Fifo
<1>10. Busy(serv', hi, lo') /\ Turns(crt', bypass')
  <2>1. BoundAssumption
    BY DEF Assumptions
  <2> QED
    BY <1>2, <1>4, <1>6, <2>1, ServiceBegun
<1> QED
  BY <1>2, <1>3, <1>5, <1>7, <1>8, <1>9, <1>10 DEF QueueInv

\* A header into the high list, which has room for it.
LEMMA PutHighKeeps ==
    ASSUME Assumptions, QueueInv, Len(fate) < MaxPackets,
           NEW a \in Packet, NEW p \in Packet, p.id = Len(fate) + 1, p.form = "header",
           bytesHi + p.size <= 2 * MaxSize,
           PutHigh(a, p), UNCHANGED <<mode, marked, sentLo>>
    PROVE  QueueInv'
<1> DEFINE r == [type |-> a.type, form |-> p.form, end |-> "queued"]
           n == Len(hi)
<1>1. MaxPackets \in Nat /\ "queued" \in Ends
  BY DEF Assumptions, BoundAssumption, Ends
<1>2. /\ hi' = Append(hi, p) /\ bytesHi' = bytesHi + p.size /\ UNCHANGED <<lo, bytesLo>>
      /\ End(a, p, "queued", 0, 0) /\ Begun(hi', lo)
  BY DEF PutHigh
<1> HIDE DEF r
<1>3. /\ r \in Fate /\ r.end = "queued" /\ r.form = p.form /\ fate' = Append(fate, r)
      /\ Len(fate') = Len(fate) + 1 /\ Len(fate') <= MaxPackets
      /\ Books(counts', fate') /\ Told(mode, fate')
  BY <1>1, <1>2, Ending DEF r
<1>4. /\ fate \in Seq(Fate) /\ Placed(hi, lo, fate) /\ hi \in Seq(Packet)
      /\ bytesHi = Bytes(hi)
      /\ Fifo(sentLo, lo, fate) /\ Busy(serv, hi, lo) /\ Turns(crt, bypass)
  BY DEF QueueInv, Placed, Holds
<1>5. Placed(hi', lo, fate')
  BY <1>2, <1>3, <1>4, PlacedHigh
<1>6. hi' # <<>>
  BY <1>2, <1>4, AppendProperties
<1>7. bytesHi' = Bytes(hi')
  BY <1>2, <1>4, BytesAppend
<1>8. Fifo(sentLo, lo, fate')
  <2>1. Len(fate) \in Nat
    BY <1>4
  <2> QED
    BY <1>3, <1>4, <2>1 DEF Fifo
<1>9. Busy(serv', hi', lo) /\ Turns(crt', bypass')
  <2>1. BoundAssumption
    BY DEF Assumptions
  <2> QED
    BY <1>2, <1>4, <1>6, <2>1, ServiceBegun
<1> QED
  BY <1>2, <1>3, <1>5, <1>7, <1>8, <1>9 DEF QueueInv

\* A header is put into the high list, sent back, or dropped.
LEMMA PutHeaderKeeps ==
    ASSUME Assumptions, QueueInv, Len(fate) < MaxPackets,
           NEW a \in Packet, NEW p \in Packet, p.id = Len(fate) + 1, p.form = "header",
           PutHeader(a, p), UNCHANGED <<mode, marked, sentLo>>
    PROVE  QueueInv'
<1>1. CASE bytesHi + p.size <= HighLimit /\ PutHigh(a, p)
  BY <1>1, PutHighKeeps DEF HighLimit
<1>2. CASE Bounce(a, p)
  BY <1>2, EndsHere DEF Bounce
<1>3. CASE Drop(a, p, "dropped")
  BY <1>3, EndsHere DEF Drop
<1> QED
  BY <1>1, <1>2, <1>3 DEF PutHeader

\* An arrival keeps the invariant.
LEMMA ReceiveKeeps ==
    ASSUME Assumptions, QueueInv, NEW a \in Arrivals, ReceivePacket(a)
    PROVE  QueueInv'
<1> DEFINE p == LowTrimmed(a)
<1>1. /\ a \in Packet /\ a.id = Len(fate) + 1
      /\ a.form = "header" => a.size = TrimSize
      /\ a.form = "low" => mode.lowTrim
  BY Arriving
<1>2. /\ p \in Packet /\ p.id = Len(fate) + 1
      /\ mode.lowTrim /\ p.form = "full" => Fits(p)
      /\ Header(p) \in Packet /\ Header(p).id = Len(fate) + 1 /\ Header(p).form = "header"
  BY <1>1, Trimming
<1>3. p.form = "low" => mode.lowTrim
  BY <1>1 DEF LowTrimmed
<1>4. Len(fate) < MaxPackets /\ UNCHANGED <<mode, marked, sentLo>>
  BY DEF ReceivePacket
<1>5. CASE RandomDrop(a)
  <2>1. Drop(a, a, "lost")
    BY <1>5 DEF RandomDrop
  <2> QED
    BY <1>1, <1>4, <2>1, EndsHere DEF Drop
<1>6. CASE Fits(p) /\ PutLow(a, p)
  BY <1>1, <1>2, <1>4, <1>6, PutLowKeeps
<1>7. CASE LetIn(p) /\ ~Fits(p) /\ PutLow(a, p)
  <2>1. ~(p.type = "data" /\ p.form = "full")
    BY <1>7 DEF LetIn
  <2> HIDE DEF p
  <2> QED
    BY <1>1, <1>2, <1>4, <1>7, <2>1, PutLowKeeps
<1>8. CASE p.form # "header" /\ ~Fits(p) /\ ~LetIn(p) /\ Drop(a, p, "dropped")
  <2>1. ~(mode.lowTrim /\ mode.keepLow)
    <3>1. p.form \in {"full", "low"}
      BY <1>2, <1>8 DEF Packet
    <3> HIDE DEF p
    <3> QED
      BY <1>2, <1>8, <3>1 DEF LetIn
  <2> HIDE DEF p
  <2> QED
    BY <1>1, <1>2, <1>4, <1>8, <2>1, EndsHere DEF Drop
<1>9. CASE PutHeader(a, Header(p))
  <2> HIDE DEF p
  <2> QED
    BY <1>1, <1>2, <1>4, <1>9, PutHeaderKeeps
<1>10. CASE p.form = "header" /\ PutHeader(a, p)
  <2> HIDE DEF p
  <2> QED
    BY <1>1, <1>2, <1>4, <1>10, PutHeaderKeeps
<1> QED
  BY <1>5, <1>6, <1>7, <1>8, <1>9, <1>10 DEF ReceivePacket

-----------------------------------------------------------------------------
(* Services. *)

\* The books after a service, of either list.
LEMMA BooksService ==
    ASSUME NEW f \in Seq(Fate), NEW c, Books(c, f), NEW k \in EndedIn(f, "queued"), NEW d,
           d = [c EXCEPT !.packets = @ + 1] \/ d = [c EXCEPT !.headers = @ + 1]
    PROVE  Books(d, SentIn(f, k))
<1> DEFINE g == SentIn(f, k)
<1>1. /\ Len(g) = Len(f)
      /\ Cardinality(EndedIn(g, "sent")) = Cardinality(EndedIn(f, "sent")) + 1
      /\ EndedIn(g, "dropped") = EndedIn(f, "dropped") /\ EndedIn(g, "lost") = EndedIn(f, "lost")
      /\ EndedIn(g, "bounced") = EndedIn(f, "bounced")
  BY EndedSent
<1>2. /\ c \in [packets : Nat, headers : Nat, drops : Nat, stripped : Nat, bounced : Nat]
      /\ c.packets + c.headers = Cardinality(EndedIn(f, "sent"))
  BY DEF Books
<1>3. /\ d \in [packets : Nat, headers : Nat, drops : Nat, stripped : Nat, bounced : Nat]
      /\ d.drops = c.drops /\ d.stripped = c.stripped /\ d.bounced = c.bounced
      /\ d.packets + d.headers = c.packets + c.headers + 1
  <2> DEFINE x == c.packets + 1
             y == c.headers + 1
  <2>1. x \in Nat /\ y \in Nat /\ c.packets \in Nat /\ c.headers \in Nat
    BY <1>2
  <2>2. CASE d = [c EXCEPT !.packets = x]
    <3>1. d.packets = x /\ d.headers = c.headers
      BY <1>2, <2>2
    <3>2. d.packets + d.headers = c.packets + c.headers + 1
      BY <2>1, <3>1
    <3> HIDE DEF x
    <3> QED
      BY <1>2, <2>1, <2>2, <3>2
  <2>3. CASE d = [c EXCEPT !.headers = y]
    <3>1. d.packets = c.packets /\ d.headers = y
      BY <1>2, <2>3
    <3>2. d.packets + d.headers = c.packets + c.headers + 1
      BY <2>1, <3>1
    <3> HIDE DEF y
    <3> QED
      BY <1>2, <2>1, <2>3, <3>2
  <2> QED
    BY <2>2, <2>3
<1> HIDE DEF g
<1>4. Books(d, g)
  BY <1>1, <1>2, <1>3 DEF Books
<1> QED
  BY <1>4 DEF g

\* What was told of remains told of.
LEMMA ToldService ==
    ASSUME NEW f \in Seq(Fate), NEW k \in EndedIn(f, "queued"), NEW m, Told(m, f)
    PROVE  Told(m, SentIn(f, k))
<1>1. /\ \A i \in 1 .. Len(f) : SentIn(f, k)[i].form = f[i].form
      /\ EndedIn(SentIn(f, k), "dropped") = EndedIn(f, "dropped")
  BY EndedSent
<1>2. EndedIn(f, "dropped") \subseteq 1 .. Len(f)
  BY DEF EndedIn
<1> QED
  BY <1>1, <1>2 DEF Told

\* The end of a service of the low list keeps the invariant.
LEMMA CompleteLowKeeps ==
    ASSUME Assumptions, QueueInv, CompleteLow
    PROVE  QueueInv'
<1> DEFINE p == Head(lo)
           k == p.id
           n == Len(lo)
<1>1. /\ mode \in Mode /\ marked \in BOOLEAN
      /\ Placed(hi, lo, fate) /\ Len(fate) <= MaxPackets
      /\ hi \in Seq(Packet) /\ lo \in Seq(Packet) /\ fate \in Seq(Fate)
      /\ bytesHi = Bytes(hi) /\ bytesHi <= 2 * MaxSize /\ bytesLo = Bytes(lo) /\ Near(lo)
      /\ Books(counts, fate) /\ Turns(crt, bypass) /\ Told(mode, fate) /\ Fifo(sentLo, lo, fate)
  BY DEF QueueInv, Placed, Holds
<1>2. lo # <<>>
  BY DEF CompleteLow, QueueInv, Busy
<1>3. /\ lo' = Tail(lo) /\ bytesLo' = bytesLo - p.size
      /\ counts' = [counts EXCEPT !.packets = @ + 1]
      /\ fate' = SentIn(fate, k) /\ sentLo' = k
      /\ Continue(hi, lo') /\ UNCHANGED <<mode, hi, bytesHi>>
  BY DEF CompleteLow, SentIn
<1>4. marked' \in BOOLEAN
  BY <1>1 DEF CompleteLow, decideEcn
<1>5. /\ n \in Nat \ {0} /\ lo' \in Seq(Packet) /\ Len(lo') = n - 1 /\ p = lo[1]
      /\ \A i \in 1 .. n - 1 : lo'[i] = lo[i + 1] /\ i + 1 \in 1 .. n
  BY <1>1, <1>2, <1>3, EmptySeq, HeadTailProperties
<1>6. k \in EndedIn(fate, "queued") /\ k \in 1 .. Len(fate)
  <2>1. 1 \in 1 .. n
    BY <1>5
  <2> QED
    BY <1>1, <1>5, <2>1 DEF Placed, Holds, EndedIn
<1>7. /\ Placed(hi, lo', fate') /\ Len(fate') = Len(fate)
      /\ Books(counts', fate') /\ Told(mode, fate')
  <2>1. Placed(hi, lo', fate')
    BY <1>1, <1>2, <1>3, PlacedLowServed
  <2> HIDE DEF k
  <2> QED
    BY <1>1, <1>3, <1>6, <2>1, EndedSent, BooksService, ToldService
<1>8. bytesLo' = Bytes(lo')
  BY <1>1, <1>2, <1>3, BytesTail
<1>9. Near(lo')
  <2> SUFFICES ASSUME NEW i \in 1 .. n - 1, lo'[i].type = "data", lo'[i].form = "full"
               PROVE  Bytes(SubSeq(lo', 1, i)) <= MaxSize
    BY <1>5 DEF Near
  <2>1. i \in 0 .. n - 1 /\ i + 1 \in 1 .. n /\ lo'[i] = lo[i + 1] /\ 1 \in 1 .. n
    BY <1>5
  <2>2. Bytes(SubSeq(lo', 1, i)) = Bytes(SubSeq(lo, 1, i + 1)) - p.size
    BY <1>1, <1>2, <1>3, <2>1, BytesTail
  <2>3. Bytes(SubSeq(lo, 1, i + 1)) <= MaxSize
    BY <1>1, <2>1 DEF Near
  <2>4. p.size \in Nat
    BY <1>1, <1>5, <2>1, PacketOf
  <2>5. Bytes(SubSeq(lo, 1, i + 1)) \in Int
    <3>1. PICK f \in [0 .. n -> Nat] : IsSum(lo, f)
      BY <1>1, SumExists
    <3>2. i + 1 \in 0 .. n
      BY <1>5
    <3> QED
      BY <1>1, <3>1, <3>2, BytesPrefix
  <2>6. MaxSize \in Nat
    BY DEF Assumptions, SizeAssumption
  <2> QED
    BY <2>2, <2>3, <2>4, <2>5, <2>6
<1>10. Fifo(sentLo', lo', fate')
  <2>1. sentLo' \in 0 .. Len(fate')
    BY <1>3, <1>6, <1>7
  <2>2. ASSUME NEW i \in 1 .. n - 1
        PROVE  lo'[i].id > k
    <3>1. i + 1 \in 1 .. n /\ lo'[i] = lo[i + 1] /\ 1 \in 1 .. n /\ 1 < i + 1
      BY <1>5
    <3>2. lo[1].id < lo[i + 1].id
      BY <1>1, <3>1 DEF Placed, Holds
    <3>3. lo[1].id \in Nat /\ lo[i + 1].id \in Nat
      BY <1>1, <3>1, PacketOf DEF Packet
    <3> QED
      BY <1>5, <3>1, <3>2, <3>3
  <2> HIDE DEF k
  <2> QED
    BY <1>3, <1>5, <2>1, <2>2 DEF Fifo
<1>11. Busy(serv', hi, lo') /\ Turns(crt', bypass')
  <2>1. BoundAssumption
    BY DEF Assumptions
  <2> QED
    BY <1>1, <1>3, <1>5, <2>1, ServiceContinues
<1> QED
  BY <1>1, <1>3, <1>4, <1>7, <1>8, <1>9, <1>10, <1>11 DEF QueueInv

\* The end of a service of the high list keeps the invariant.
LEMMA CompleteHighKeeps ==
    ASSUME Assumptions, QueueInv, CompleteHigh
    PROVE  QueueInv'
<1> DEFINE p == Head(hi)
           k == p.id
           n == Len(hi)
<1>1. /\ Placed(hi, lo, fate) /\ Len(fate) <= MaxPackets
      /\ hi \in Seq(Packet) /\ lo \in Seq(Packet) /\ fate \in Seq(Fate)
      /\ bytesHi = Bytes(hi) /\ bytesHi <= 2 * MaxSize
      /\ Books(counts, fate) /\ Turns(crt, bypass) /\ Told(mode, fate) /\ Fifo(sentLo, lo, fate)
  BY DEF QueueInv, Placed, Holds
<1>2. hi # <<>>
  BY DEF CompleteHigh, QueueInv, Busy
<1>3. /\ hi' = Tail(hi) /\ bytesHi' = bytesHi - p.size
      /\ counts' = [counts EXCEPT !.headers = @ + 1]
      /\ fate' = SentIn(fate, k)
      /\ Continue(hi', lo) /\ UNCHANGED <<mode, lo, bytesLo, marked, sentLo>>
  BY DEF CompleteHigh, SentIn
<1>4. /\ n \in Nat \ {0} /\ hi' \in Seq(Packet) /\ p = hi[1] /\ 1 \in 1 .. n
  BY <1>1, <1>2, <1>3, EmptySeq, HeadTailProperties
<1>5. k \in EndedIn(fate, "queued") /\ p.size \in Nat
  BY <1>1, <1>4, PacketOf DEF Placed, Holds
<1>6. /\ Placed(hi', lo, fate') /\ Len(fate') = Len(fate)
      /\ Books(counts', fate') /\ Told(mode, fate')
  <2>1. Placed(hi', lo, fate')
    BY <1>1, <1>2, <1>3, PlacedHighServed
  <2> HIDE DEF k
  <2> QED
    BY <1>1, <1>3, <1>5, <2>1, EndedSent, BooksService, ToldService
<1>7. bytesHi' = Bytes(hi') /\ bytesHi' <= 2 * MaxSize
  <2>1. Bytes(hi') = Bytes(hi) - p.size
    BY <1>1, <1>2, <1>3, BytesTail
  <2>2. Bytes(hi) \in Nat /\ MaxSize \in Nat
    BY <1>1, BytesNat DEF Assumptions, SizeAssumption
  <2> QED
    BY <1>1, <1>3, <1>5, <2>1, <2>2
<1>8. Fifo(sentLo, lo, fate')
  BY <1>1, <1>6 DEF Fifo
<1>9. Busy(serv', hi', lo) /\ Turns(crt', bypass')
  <2>1. BoundAssumption
    BY DEF Assumptions
  <2> QED
    BY <1>1, <1>3, <1>4, <2>1, ServiceContinues
<1> QED
  BY <1>3, <1>6, <1>7, <1>8, <1>9 DEF QueueInv

-----------------------------------------------------------------------------
(* The invariant, and what follows from it. *)

\* The invariant holds of a new queue.
LEMMA InitInv ==
    ASSUME Assumptions, Init
    PROVE  QueueInv
<1>1. << >> \in Seq(Packet) /\ << >> \in Seq(Fate) /\ Len(<< >>) = 0 /\ 1 .. 0 = {}
  OBVIOUS
<1>2. /\ mode \in Mode /\ marked \in BOOLEAN
      /\ hi = <<>> /\ lo = <<>> /\ fate = <<>> /\ bytesHi = 0 /\ bytesLo = 0
      /\ serv = "none" /\ crt = 0 /\ bypass = 0 /\ sentLo = 0
      /\ counts = [packets |-> 0, headers |-> 0, drops |-> 0, stripped |-> 0, bounced |-> 0]
  BY DEF Init, Assumptions, ModeAssumption
<1>3. \A what : EndedIn(fate, what) = {} /\ Cardinality(EndedIn(fate, what)) = 0
  BY <1>1, <1>2, FS_EmptySet DEF EndedIn
<1>4. Placed(hi, lo, fate)
  <2>1. Holds(hi, fate) /\ Holds(lo, fate)
    BY <1>1, <1>2 DEF Holds
  <2> QED
    BY <1>1, <1>2, <1>3, <2>1 DEF Placed
<1>5. Books(counts, fate)
  <2>1. counts \in [packets : Nat, headers : Nat, drops : Nat, stripped : Nat, bounced : Nat]
    BY <1>2
  <2> QED
    BY <1>1, <1>2, <1>3, <2>1 DEF Books
<1>6. Near(lo) /\ Told(mode, fate) /\ Fifo(sentLo, lo, fate) /\ Busy(serv, hi, lo)
  BY <1>1, <1>2, <1>3 DEF Near, Told, Fifo, Busy
<1>7. /\ Turns(crt, bypass) /\ Len(fate) <= MaxPackets
      /\ bytesHi = Bytes(hi) /\ bytesHi <= 2 * MaxSize /\ bytesLo = Bytes(lo)
  <2>1. RatioHigh \in Nat \ {0} /\ MaxPackets \in Nat /\ MaxSize \in Nat
    BY DEF Assumptions, BoundAssumption, SizeAssumption
  <2> QED
    BY <1>1, <1>2, <2>1, BytesEmpty DEF Turns
<1> QED
  BY <1>2, <1>4, <1>5, <1>6, <1>7 DEF QueueInv

\* Every step keeps the invariant.
LEMMA NextInv ==
    ASSUME Assumptions, QueueInv, [Next]_vars
    PROVE  QueueInv'
<1>1. CASE \E a \in Arrivals : ReceivePacket(a)
  BY <1>1, ReceiveKeeps
<1>2. CASE CompleteLow
  BY <1>2, CompleteLowKeeps
<1>3. CASE CompleteHigh
  BY <1>3, CompleteHighKeeps
<1>4. CASE UNCHANGED vars
  BY <1>4 DEF vars, QueueInv
<1> QED
  BY <1>1, <1>2, <1>3, <1>4 DEF Next, Done

\* The two lists, the fates, the counters, the turns and what was sent, together.
THEOREM QueueInvariant == Assumptions => (Spec => []QueueInv)
<1> SUFFICES ASSUME Assumptions
             PROVE  Spec => []QueueInv
  OBVIOUS
<1>1. Init => QueueInv
  BY InitInv
<1>2. QueueInv /\ [Next]_vars => QueueInv'
  BY NextInv
<1> QED
  BY <1>1, <1>2, PTL DEF Spec

\* What the proofs below take from the invariant and the assumptions.
LEMMA Kept ==
    ASSUME Assumptions, QueueInv
    PROVE  /\ hi \in Seq(Packet) /\ lo \in Seq(Packet) /\ fate \in Seq(Fate)
           /\ Len(hi) \in Nat /\ Len(lo) \in Nat /\ Len(fate) \in Nat
           /\ RatioHigh \in Nat \ {0} /\ MaxSize \in Nat /\ MaxPackets \in Nat
           /\ TrimSize \in 1 .. MaxSize
           /\ \A what : Ended(what) = EndedIn(fate, what)
  BY DEF Assumptions, SizeAssumption, BoundAssumption, QueueInv, Placed, Holds, Ended, EndedIn

\* The dropped and the lost are two sets, of packets that came.
LEMMA DroppedOrLost ==
    ASSUME NEW f \in Seq(Fate)
    PROVE  /\ Cardinality(EndedIn(f, "dropped") \cup EndedIn(f, "lost")) =
                 Cardinality(EndedIn(f, "dropped")) + Cardinality(EndedIn(f, "lost"))
           /\ Cardinality(EndedIn(f, "dropped") \cup EndedIn(f, "lost")) <= Len(f)
<1> DEFINE A == EndedIn(f, "dropped")
           B == EndedIn(f, "lost")
<1>1. /\ IsFiniteSet(A) /\ IsFiniteSet(B) /\ A \subseteq 1 .. Len(f) /\ B \subseteq 1 .. Len(f)
      /\ Cardinality(A) \in Nat /\ Cardinality(B) \in Nat
  BY EndedFinite
<1>2. A \cap B = {}
  BY DEF EndedIn
<1> HIDE DEF A, B
<1>3. Cardinality(A \cup B) = Cardinality(A) + Cardinality(B)
  <2>1. Cardinality(A \cup B) = Cardinality(A) + Cardinality(B) - Cardinality(A \cap B)
    BY <1>1, FS_Union
  <2>2. Cardinality(A \cap B) = 0
    BY <1>2, FS_EmptySet
  <2> QED
    BY <1>1, <2>1, <2>2
<1>4. Cardinality(A \cup B) <= Len(f)
  <2>1. Len(f) \in Nat /\ Len(f) \in Int /\ 1 \in Int
    OBVIOUS
  <2>2. IsFiniteSet(1 .. Len(f)) /\ Cardinality(1 .. Len(f)) = Len(f)
    <3>1. Cardinality(1 .. Len(f)) = IF 1 > Len(f) THEN 0 ELSE Len(f) - 1 + 1
      BY <2>1, FS_Interval
    <3> QED
      BY <2>1, <3>1, FS_Interval
  <2>3. A \cup B \subseteq 1 .. Len(f)
    BY <1>1
  <2> QED
    BY <2>2, <2>3, FS_Subset
<1> QED
  BY <1>3, <1>4 DEF A, B

\* The state has its type: the headers never take more than twice the size of the queue.
THEOREM QueueTyped == Assumptions => (Spec => []TypeOK)
<1> SUFFICES ASSUME Assumptions
             PROVE  Spec => []TypeOK
  OBVIOUS
<1>1. ASSUME QueueInv
      PROVE  TypeOK
  <2>1. /\ fate \in Seq(Fate) /\ hi \in Seq(Packet) /\ lo \in Seq(Packet) /\ MaxPackets \in Nat
        /\ MaxSize \in Nat /\ Len(fate) \in Nat
    BY <1>1, Kept
  <2>2. bytesHi \in 0 .. 2 * MaxSize /\ bytesLo \in Nat
    <3>1. Bytes(hi) \in Nat /\ Bytes(lo) \in Nat
      BY <2>1, BytesNat
    <3> QED
      BY <1>1, <2>1, <3>1 DEF QueueInv
  <2>3. counts \in [DOMAIN counts -> 0 .. MaxPackets]
    <3>1. /\ counts \in [packets : Nat, headers : Nat, drops : Nat, stripped : Nat, bounced : Nat]
          /\ counts.packets + counts.headers = Cardinality(EndedIn(fate, "sent"))
          /\ counts.drops = Cardinality(EndedIn(fate, "dropped")) + Cardinality(EndedIn(fate, "lost"))
          /\ counts.bounced = Cardinality(EndedIn(fate, "bounced"))
          /\ counts.stripped <= Len(fate) /\ Len(fate) <= MaxPackets
      BY <1>1 DEF QueueInv, Books
    <3>2. /\ Cardinality(EndedIn(fate, "sent")) <= Len(fate)
          /\ Cardinality(EndedIn(fate, "bounced")) <= Len(fate)
          /\ Cardinality(EndedIn(fate, "dropped")) + Cardinality(EndedIn(fate, "lost")) <= Len(fate)
      BY <2>1, EndedFinite, DroppedOrLost
    <3>3. /\ counts.packets \in Nat /\ counts.headers \in Nat /\ counts.drops \in Nat
          /\ counts.stripped \in Nat /\ counts.bounced \in Nat
      BY <3>1
    <3>4. /\ counts.packets \in 0 .. MaxPackets /\ counts.headers \in 0 .. MaxPackets
          /\ counts.drops \in 0 .. MaxPackets /\ counts.stripped \in 0 .. MaxPackets
          /\ counts.bounced \in 0 .. MaxPackets
      <4>1. counts.packets <= MaxPackets /\ counts.headers <= MaxPackets
        BY <2>1, <3>1, <3>2, <3>3, EndedFinite
      <4>2. counts.drops <= MaxPackets /\ counts.stripped <= MaxPackets /\ counts.bounced <= MaxPackets
        BY <2>1, <3>1, <3>2, <3>3, EndedFinite
      <4> QED
        BY <2>1, <3>3, <4>1, <4>2
    <3>5. counts = [packets |-> counts.packets, headers |-> counts.headers, drops |-> counts.drops,
                    stripped |-> counts.stripped, bounced |-> counts.bounced]
      BY <3>1
    <3>6. DOMAIN counts = {"packets", "headers", "drops", "stripped", "bounced"}
      BY <3>1
    <3>7. \A x \in DOMAIN counts : counts[x] \in 0 .. MaxPackets
      BY <3>4, <3>6
    <3>8. counts = [x \in DOMAIN counts |-> counts[x]]
      BY <3>1
    <3> QED
      BY <3>7, <3>8
  <2>4. \A i \in 1 .. Len(fate) : fate[i].end \in Ends
    BY <2>1, FateOf DEF Fate
  <2>5. /\ mode \in Mode /\ marked \in BOOLEAN
        /\ serv \in {"none", "hi", "lo"} /\ crt \in 0 .. RatioHigh
    BY <1>1 DEF QueueInv, Busy, Turns
  <2> QED
    BY <2>2, <2>3, <2>4, <2>5 DEF TypeOK
<1>2. []QueueInv => []TypeOK
  BY <1>1, PTL
<1> QED
  BY <1>2, QueueInvariant, PTL

\* Sizes, places and counters agree, however packets change their size on the way in.
THEOREM QueueAccounts == Assumptions => (Spec => []Accounted)
<1> SUFFICES ASSUME Assumptions
             PROVE  Spec => []Accounted
  OBVIOUS
<1>1. ASSUME QueueInv
      PROVE  Accounted
  <2>1. /\ fate \in Seq(Fate) /\ hi \in Seq(Packet) /\ lo \in Seq(Packet)
        /\ Len(hi) \in Nat /\ Len(lo) \in Nat
        /\ \A what : Ended(what) = EndedIn(fate, what)
    BY <1>1, Kept
  <2>2. /\ bytesHi = Bytes(hi) /\ bytesLo = Bytes(lo) /\ Placed(hi, lo, fate) /\ Books(counts, fate)
    BY <1>1 DEF QueueInv
  <2>3. {s.id : s \in Range(hi \o lo)} = EndedIn(fate, "queued")
    <3> DEFINE q == hi \o lo
    <3>1. /\ q \in Seq(Packet) /\ Len(q) = Len(hi) + Len(lo)
          /\ \A i \in 1 .. Len(hi) + Len(lo) :
                q[i] = IF i <= Len(hi) THEN hi[i] ELSE lo[i - Len(hi)]
      BY <2>1, ConcatProperties
    <3>2. Range(q) = {q[i] : i \in 1 .. Len(q)}
      BY <3>1 DEF Range
    <3> HIDE DEF q
    <3>3. ASSUME NEW i \in 1 .. Len(q)
          PROVE  q[i].id \in EndedIn(fate, "queued")
      <4>1. CASE i <= Len(hi)
        <5>1. i \in 1 .. Len(hi) /\ q[i] = hi[i]
          BY <2>1, <3>1, <4>1
        <5> QED
          BY <2>2, <5>1 DEF Placed, Holds
      <4>2. CASE ~(i <= Len(hi))
        <5>1. i - Len(hi) \in 1 .. Len(lo) /\ q[i] = lo[i - Len(hi)]
          BY <2>1, <3>1, <4>2
        <5> QED
          BY <2>2, <5>1 DEF Placed, Holds
      <4> QED
        BY <4>1, <4>2
    <3>4. ASSUME NEW k \in EndedIn(fate, "queued")
          PROVE  \E i \in 1 .. Len(q) : q[i].id = k
      <4>1. CASE \E i \in 1 .. Len(hi) : hi[i].id = k
        <5>1. PICK i \in 1 .. Len(hi) : hi[i].id = k
          BY <4>1
        <5>2. i \in 1 .. Len(q) /\ q[i] = hi[i]
          BY <2>1, <3>1, <5>1
        <5> QED
          BY <5>1, <5>2
      <4>2. CASE \E j \in 1 .. Len(lo) : lo[j].id = k
        <5>1. PICK j \in 1 .. Len(lo) : lo[j].id = k
          BY <4>2
        <5>2. Len(hi) + j \in 1 .. Len(q) /\ ~(Len(hi) + j <= Len(hi)) /\ Len(hi) + j - Len(hi) = j
          BY <2>1, <3>1, <5>1
        <5>3. q[Len(hi) + j] = lo[j]
          BY <3>1, <5>2
        <5> QED
          BY <5>1, <5>2, <5>3
      <4> QED
        BY <2>2, <4>1, <4>2 DEF Placed
    <3>5. {s.id : s \in Range(q)} = EndedIn(fate, "queued")
      BY <3>2, <3>3, <3>4
    <3> QED
      BY <3>5 DEF q
  <2>4. Len(hi) + Len(lo) = Cardinality(Ended("queued"))
    BY <2>1, <2>2 DEF Placed
  <2>5. counts.drops = Cardinality(Ended("dropped") \cup Ended("lost"))
    BY <2>1, <2>2, DroppedOrLost DEF Books
  <2>6. /\ counts.packets + counts.headers = Cardinality(Ended("sent"))
        /\ counts.bounced = Cardinality(Ended("bounced"))
    BY <2>1, <2>2 DEF Books
  <2> QED
    BY <2>1, <2>2, <2>3, <2>4, <2>5, <2>6 DEF Accounted
<1>2. []QueueInv => []Accounted
  BY <1>1, PTL
<1> QED
  BY <1>2, QueueInvariant, PTL

\* The queue serves whenever it holds a packet, and from a list that holds one.
THEOREM QueueNeverIdle == Assumptions => (Spec => []NeverIdle)
<1> SUFFICES ASSUME Assumptions
             PROVE  Spec => []NeverIdle
  OBVIOUS
<1>1. ASSUME QueueInv
      PROVE  NeverIdle
  <2>1. hi \in Seq(Packet) /\ lo \in Seq(Packet)
    BY <1>1, Kept
  <2>2. hi \o lo = <<>> <=> hi = <<>> /\ lo = <<>>
    <3>1. Len(hi) \in Nat /\ Len(lo) \in Nat /\ hi \o lo \in Seq(Packet)
          /\ Len(hi \o lo) = Len(hi) + Len(lo)
      BY <2>1, ConcatProperties
    <3>2. /\ hi \o lo = <<>> <=> Len(hi \o lo) = 0
          /\ hi = <<>> <=> Len(hi) = 0
          /\ lo = <<>> <=> Len(lo) = 0
      BY <2>1, <3>1, EmptySeq
    <3> QED
      BY <3>1, <3>2
  <2>3. Busy(serv, hi, lo)
    BY <1>1 DEF QueueInv
  <2> QED
    BY <2>2, <2>3 DEF Busy, NeverIdle
<1>2. []QueueInv => []NeverIdle
  BY <1>1, PTL
<1> QED
  BY <1>2, QueueInvariant, PTL

\* The low list is passed over RatioHigh times in a row at most, however many headers come.
THEOREM QueueLowWaits == Assumptions => (Spec => []LowWaitBounded)
<1> SUFFICES ASSUME Assumptions
             PROVE  Spec => []LowWaitBounded
  OBVIOUS
<1>1. ASSUME QueueInv
      PROVE  LowWaitBounded
  <2>1. RatioHigh \in Nat \ {0}
    BY <1>1, Kept
  <2>2. Turns(crt, bypass)
    BY <1>1 DEF QueueInv
  <2> QED
    BY <2>1, <2>2 DEF Turns, LowWaitBounded
<1>2. []QueueInv => []LowWaitBounded
  BY <1>1, PTL
<1> QED
  BY <1>2, QueueInvariant, PTL

\* A packet with its payload waits behind no more than the queue may hold, though probes and small
\* packets are let in beyond that.
THEOREM QueueDataNear == Assumptions => (Spec => []DataNearFront)
<1> SUFFICES ASSUME Assumptions
             PROVE  Spec => []DataNearFront
  OBVIOUS
<1>1. ASSUME QueueInv
      PROVE  DataNearFront
  BY <1>1 DEF QueueInv, Near, DataNearFront
<1>2. []QueueInv => []DataNearFront
  BY <1>1, PTL
<1> QED
  BY <1>2, QueueInvariant, PTL

\* With low priority trimming and no dropping of the low headers every packet is told of.
THEOREM QueueTells == Assumptions => (Spec => []NoneUntold)
<1> SUFFICES ASSUME Assumptions
             PROVE  Spec => []NoneUntold
  OBVIOUS
<1>1. ASSUME QueueInv
      PROVE  NoneUntold
  BY <1>1, Kept DEF QueueInv, Told, NoneUntold
<1>2. []QueueInv => []NoneUntold
  BY <1>1, PTL
<1> QED
  BY <1>2, QueueInvariant, PTL

\* The low list leaves in the order in which it came, behind everything but headers.
THEOREM QueueLowInOrder == Assumptions => (Spec => [][LowInOrderStep]_vars)
<1> SUFFICES ASSUME Assumptions
             PROVE  Spec => [][LowInOrderStep]_vars
  OBVIOUS
<1>1. ASSUME QueueInv, [Next]_vars
      PROVE  LowInOrderStep
  <2> SUFFICES ASSUME sentLo' # sentLo
               PROVE  /\ sentLo' > sentLo
                      /\ \A i \in 1 .. sentLo' - 1 : fate[i].end = "queued" => fate[i].form = "header"
    BY DEF LowInOrderStep
  <2>1. CompleteLow
    BY <1>1 DEF Next, ReceivePacket, CompleteHigh, Done, vars
  <2>2. lo # <<>> /\ sentLo' = Head(lo).id
    BY <1>1, <2>1 DEF CompleteLow, QueueInv, Busy
  <2>3. /\ lo \in Seq(Packet) /\ fate \in Seq(Fate) /\ Len(fate) \in Nat
        /\ Placed(hi, lo, fate) /\ Fifo(sentLo, lo, fate)
    BY <1>1, Kept DEF QueueInv
  <2>4. sentLo' = lo[1].id /\ 1 \in 1 .. Len(lo) /\ lo[1].id \in Nat
    <3>1. Head(lo) = lo[1] /\ Len(lo) \in Nat /\ Len(lo) # 0
      BY <2>2, <2>3, EmptySeq, HeadTailProperties
    <3>2. 1 \in 1 .. Len(lo)
      BY <3>1
    <3> QED
      BY <2>2, <2>3, <3>1, <3>2, PacketOf DEF Packet
  <2>5. sentLo' > sentLo
    BY <2>3, <2>4 DEF Fifo
  <2>6. ASSUME NEW i \in 1 .. sentLo' - 1, fate[i].end = "queued"
        PROVE  fate[i].form = "header"
    <3>1. lo[1].id \in 1 .. Len(fate)
      BY <2>3, <2>4 DEF Placed, Holds, EndedIn
    <3>2. i \in EndedIn(fate, "queued") /\ i < lo[1].id
      BY <2>3, <2>4, <2>6, <3>1 DEF EndedIn
    <3>3. ASSUME NEW j \in 1 .. Len(lo)
          PROVE  lo[j].id # i
      <4>1. CASE j = 1
        BY <2>4, <3>2, <4>1
      <4>2. CASE j # 1
        <5>1. 1 < j /\ lo[j].id \in Nat
          <6>1. lo[j] \in Packet
            BY <2>3, PacketOf
          <6>2. 1 < j
            BY <2>3, <4>2
          <6> QED
            BY <6>1, <6>2 DEF Packet
        <5>2. lo[1].id < lo[j].id
          BY <2>3, <2>4, <5>1 DEF Placed, Holds
        <5> QED
          BY <2>4, <3>2, <5>1, <5>2
      <4> QED
        BY <4>1, <4>2
    <3>4. PICK j \in 1 .. Len(hi) : hi[j].id = i
      BY <2>3, <3>2, <3>3 DEF Placed
    <3> QED
      BY <2>3, <3>4 DEF Placed, Holds
  <2> QED
    BY <2>5, <2>6
<1>2. []QueueInv /\ [][Next]_vars => [][LowInOrderStep]_vars
  BY <1>1, PTL
<1> QED
  BY <1>2, QueueInvariant, PTL DEF Spec

\* With trimming, data is dropped only when the headers have no room for its own.
THEOREM QueueDropsLast == Assumptions => (Spec => [][DroppedForHeadersStep]_vars)
<1> SUFFICES ASSUME Assumptions
             PROVE  Spec => [][DroppedForHeadersStep]_vars
  OBVIOUS
<1>1. ASSUME QueueInv, [Next]_vars
      PROVE  DroppedForHeadersStep
  <2>1. /\ fate \in Seq(Fate) /\ MaxPackets \in Nat /\ MaxSize \in Nat /\ TrimSize \in 1 .. MaxSize
    BY <1>1, Kept
  <2>2. Ended("dropped") = EndedIn(fate, "dropped") /\ Ended("dropped")' = EndedIn(fate', "dropped")
    BY DEF Ended, EndedIn
  <2>3. Cardinality(EndedIn(fate, "dropped")) \in Nat
    BY <2>1, EndedFinite
  <2>4. ASSUME EndedIn(fate', "dropped") = EndedIn(fate, "dropped")
        PROVE  DroppedForHeadersStep
    BY <2>2, <2>3, <2>4 DEF DroppedForHeadersStep
  <2>5. ASSUME NEW a \in Packet, NEW p \in Packet, NEW what \in Ends, what # "dropped",
               NEW drop, NEW bounce, End(a, p, what, drop, bounce)
        PROVE  DroppedForHeadersStep
    <3> DEFINE r == [type |-> a.type, form |-> p.form, end |-> what]
    <3>1. r \in Fate /\ r.end = what
      BY DEF Fate, Packet
    <3>2. fate' = Append(fate, r)
      BY <2>5 DEF End
    <3> HIDE DEF r
    <3>3. EndedIn(fate', "dropped") = EndedIn(fate, "dropped")
      BY <2>1, <2>5, <3>1, <3>2, EndedAppend
    <3> QED
      BY <2>4, <3>3
  <2>6. {"queued", "lost", "bounced"} \subseteq Ends
    BY DEF Ends
  <2>7. ASSUME NEW a \in Packet, NEW p \in Packet, p.size = TrimSize, PutHeader(a, p)
        PROVE  DroppedForHeadersStep
    <3>1. CASE PutHigh(a, p)
      BY <2>5, <2>6, <2>7, <3>1 DEF PutHigh
    <3>2. CASE Bounce(a, p)
      BY <2>5, <2>6, <2>7, <3>2 DEF Bounce
    <3>3. CASE bytesHi + p.size > HighLimit
      BY <2>7, <3>3 DEF DroppedForHeadersStep, HighLimit
    <3> QED
      BY <2>7, <3>1, <3>2, <3>3 DEF PutHeader
  <2>8. ASSUME NEW a \in Arrivals, ReceivePacket(a)
        PROVE  DroppedForHeadersStep
    <3> DEFINE p == LowTrimmed(a)
    <3>1. a \in Packet /\ (a.form = "header" => a.size = TrimSize)
      BY <1>1, Arriving
    <3>2. /\ p \in Packet
          /\ a.form = "header" => p = a
          /\ p.form = "header" => a.form = "header"
          /\ Header(p) \in Packet /\ Header(p).size = TrimSize
      BY <1>1, <3>1, Trimming
    <3> HIDE DEF p
    <3>3. CASE RandomDrop(a)
      BY <2>5, <2>6, <3>1, <3>3 DEF RandomDrop, Drop
    <3>4. CASE PutLow(a, p)
      BY <2>5, <2>6, <3>1, <3>2, <3>4 DEF PutLow
    <3>5. CASE mode.disable
      BY <3>5 DEF DroppedForHeadersStep
    <3>6. CASE PutHeader(a, Header(p))
      BY <2>7, <3>1, <3>2, <3>6
    <3>7. CASE p.form = "header" /\ PutHeader(a, p)
      BY <2>7, <3>1, <3>2, <3>7
    <3> QED
      BY <2>8, <3>3, <3>4, <3>5, <3>6, <3>7 DEF ReceivePacket, p
  <2>9. ASSUME NEW k \in EndedIn(fate, "queued"), fate' = SentIn(fate, k)
        PROVE  DroppedForHeadersStep
    BY <2>1, <2>4, <2>9, EndedSent
  <2>10. CASE CompleteLow
    <3>1. lo # <<>> /\ Placed(hi, lo, fate) /\ lo \in Seq(Packet)
      BY <1>1, <2>10, Kept DEF CompleteLow, QueueInv, Busy
    <3>2. Head(lo).id \in EndedIn(fate, "queued")
      BY <2>1, <3>1, HoldsServed DEF Placed
    <3> QED
      BY <2>9, <2>10, <3>2 DEF CompleteLow, SentIn
  <2>11. CASE CompleteHigh
    <3>1. hi # <<>> /\ Placed(hi, lo, fate) /\ hi \in Seq(Packet)
      BY <1>1, <2>11, Kept DEF CompleteHigh, QueueInv, Busy
    <3>2. Head(hi).id \in EndedIn(fate, "queued")
      BY <2>1, <3>1, HoldsServed DEF Placed
    <3> QED
      BY <2>9, <2>11, <3>2 DEF CompleteHigh, SentIn
  <2>12. CASE UNCHANGED vars
    BY <2>4, <2>12 DEF vars
  <2> QED
    BY <1>1, <2>8, <2>10, <2>11, <2>12 DEF Next, Done
<1>2. []QueueInv /\ [][Next]_vars => [][DroppedForHeadersStep]_vars
  BY <1>1, PTL
<1> QED
  BY <1>2, QueueInvariant, PTL DEF Spec
=============================================================================
