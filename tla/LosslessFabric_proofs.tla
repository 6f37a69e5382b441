----------------------- MODULE LosslessFabric_proofs -----------------------
(***************************************************************************)
(* The invariants of the lossless fabric for any number of hosts and       *)
(* outputs, any thresholds and wires of any length.                        *)
(*                                                                         *)
(* The argument.  An input queue that has not paused its host holds no     *)
(* more than the threshold.  One that has holds, with what is on the wire, *)
(* no more than the threshold, a wire, and what the host has sent since:   *)
(* a wire more until the pause arrives, and the packet it was sending      *)
(* then (Room).  The last frame on the way, or the host's state when there *)
(* is none, says what the input queue wants (FramesAgree), so frames never *)
(* leave a host that is to be silent sending.  The counts need the packets *)
(* in the output queues to be finitely many, which is an invariant too.    *)
(***************************************************************************)
EXTENDS LosslessFabric, TLAPS, FiniteSetTheorems, FunctionTheorems, SequenceTheorems

FrameSet == [pause : BOOLEAN, age : 0 .. Delay]

Types ==
  /\ left \in [Hosts -> 0 .. Total] /\ sending \in [Hosts -> BOOLEAN]
  /\ send \in [Hosts -> States] /\ recv \in [Hosts -> {"READY", "PAUSED"}]
  /\ wire \in [Hosts -> 0 .. Delay] /\ size \in [Hosts -> Nat]
  /\ frames \in [Hosts -> Seq(FrameSet)]
  /\ queue \in [Outs -> Seq(Hosts)] /\ busy \in [Outs -> BOOLEAN] /\ out \in [Outs -> States]

\* An output queue serves only what it holds.
Serving == \A o \in Outs : busy[o] => queue[o] # <<>>

\* What the frames fs and the host's state st ask of the host in the end.
Wanted(fs, st) == IF fs = <<>> THEN st # "READY" ELSE fs[Len(fs)].pause

Alternates(fs) == \A i \in 1 .. Len(fs) - 1 : ~(fs[i].pause <=> fs[i + 1].pause)

\* Packets a host may have sent since its input queue asked it to pause.
Since(fs, st) == IF fs # <<>> THEN fs[Len(fs)].age ELSE IF st = "PAUSED" THEN Delay + 1 ELSE Delay

\* A host and its input queue: the host sends a packet it has, and not while it
\* is paused; the frames say what the input queue wants; there is room for what
\* the host may send before it is silent.
HostState(l, s, st) ==
  /\ s => l > 0 \/ Total = 0
  /\ st = "PAUSED" => ~s
  /\ st = "PAUSE_RECEIVED" => s
Agrees(fs, st, r) == (Wanted(fs, st) <=> r = "PAUSED") /\ Alternates(fs)
Room(fs, st, r, z, w) ==
  /\ r = "READY" => z <= High
  /\ r = "PAUSED" => z + w <= High + Delay + Since(fs, st)
Good(l, s, st, w, fs, z, r) == HostState(l, s, st) /\ Agrees(fs, st, r) /\ Room(fs, st, r, z, w)

\* The places of host h in the output queues q.
Places(q, h) == UNION {{<<o, i>> : i \in {j \in DOMAIN q[o] : q[o][j] = h}} : o \in Outs}

Counts(h) == IsFiniteSet(Places(queue, h)) /\ size[h] = Cardinality(Places(queue, h))

HostInv ==
  \A h \in Hosts : Good(left[h], sending[h], send[h], wire[h], frames[h], size[h], recv[h])

AllCount == \A h \in Hosts : Counts(h)

FabricInv == Types /\ Serving /\ HostInv /\ AllCount

-----------------------------------------------------------------------------
(* Frames *)

\* A frame that says the opposite of the last one keeps the frames alternating, and is the
\* last now.
LEMMA FrameAppended ==
  ASSUME NEW fs \in Seq(FrameSet), NEW st, NEW p \in BOOLEAN, Alternates(fs), Wanted(fs, st) <=> ~p
  PROVE  LET gs == Append(fs, [pause |-> p, age |-> 0])
         IN  /\ gs \in Seq(FrameSet) /\ Alternates(gs) /\ gs # <<>>
             /\ \A s : Wanted(gs, s) <=> p
             /\ \A s : Since(gs, s) = 0
<1> DEFINE x == [pause |-> p, age |-> 0]
           gs == Append(fs, x)
<1>1. x \in FrameSet /\ x.pause = p /\ x.age = 0
  BY SizeAssumption DEF FrameSet
<1> HIDE DEF x
<1>2. /\ gs \in Seq(FrameSet) /\ gs # <<>> /\ Len(gs) = Len(fs) + 1 /\ Len(fs) \in Nat
      /\ gs[Len(fs) + 1] = x /\ \A i \in 1 .. Len(fs) : gs[i] = fs[i]
  BY <1>1
<1> HIDE DEF gs
<1>3. ASSUME NEW i \in 1 .. Len(gs) - 1 PROVE ~(gs[i].pause <=> gs[i + 1].pause)
  <2>1. CASE i < Len(fs)
    <3>1. i \in 1 .. Len(fs) - 1 /\ gs[i] = fs[i] /\ gs[i + 1] = fs[i + 1]
      BY <2>1, <1>2
    <3> QED
      BY ONLY <3>1, Alternates(fs) DEF Alternates
  <2>2. CASE i = Len(fs)
    <3>1. fs # <<>> /\ gs[i] = fs[Len(fs)] /\ gs[i + 1] = x
      BY <2>2, <1>2
    <3>2. fs[Len(fs)].pause <=> ~p
      BY ONLY <3>1, Wanted(fs, st) <=> ~p DEF Wanted
    <3> QED
      BY ONLY <3>1, <3>2, <1>1, ZenonT(60)
  <2> QED
    BY <2>1, <2>2, <1>2
<1>4. Alternates(gs)
  BY <1>3 DEF Alternates
<1>5. \A s : Wanted(gs, s) <=> p
  <2>1. gs # <<>> /\ gs[Len(gs)].pause = p
    BY <1>1, <1>2
  <2> QED
    BY ONLY <2>1, ZenonT(60) DEF Wanted
<1>6. \A s : Since(gs, s) = 0
  BY <1>1, <1>2 DEF Since
<1> QED
  BY <1>2, <1>4, <1>5, <1>6 DEF gs, x

\* The first frame arrives: the others alternate still, and the last one is the same unless it
\* was the only one.
LEMMA FrameHeard ==
  ASSUME NEW fs \in Seq(FrameSet), fs # <<>>, Alternates(fs)
  PROVE  LET gs == Tail(fs)
         IN  /\ gs \in Seq(FrameSet) /\ Alternates(gs)
             /\ gs = <<>> => \A s : (Wanted(fs, s) <=> Head(fs).pause) /\ Since(fs, s) = Head(fs).age
             /\ gs # <<>> => \A s, t : (Wanted(gs, s) <=> Wanted(fs, t)) /\ Since(gs, s) = Since(fs, t)
<1> DEFINE gs == Tail(fs)
<1>a. gs \in Seq(FrameSet) /\ Len(gs) = Len(fs) - 1 /\ Head(fs) = fs[1]
  OBVIOUS
<1>b. Len(fs) \in Nat \ {0} /\ (gs = <<>> <=> Len(gs) = 0)
  BY <1>a, EmptySeq
<1>1. /\ gs \in Seq(FrameSet) /\ Len(gs) = Len(fs) - 1 /\ Len(fs) \in Nat \ {0}
      /\ Head(fs) = fs[1]
      /\ gs = <<>> <=> Len(gs) = 0
  BY <1>a, <1>b
<1>0. ASSUME NEW i \in 1 .. Len(gs) PROVE gs[i] = fs[i + 1]
  BY <1>1
<1> HIDE DEF gs
<1>2. Alternates(gs)
  <2> SUFFICES ASSUME NEW i \in 1 .. Len(gs) - 1 PROVE ~(gs[i].pause <=> gs[i + 1].pause)
    BY DEF Alternates
  <2>1. /\ i \in 1 .. Len(gs) /\ i + 1 \in 1 .. Len(gs) /\ i + 1 \in 1 .. Len(fs) - 1
    BY <1>1
  <2>2. gs[i] = fs[i + 1] /\ gs[i + 1] = fs[i + 1 + 1]
    BY <2>1, <1>0
  <2> QED
    BY ONLY <2>1, <2>2, Alternates(fs), ZenonT(60) DEF Alternates
<1>3. ASSUME gs = <<>> PROVE \A s : (Wanted(fs, s) <=> Head(fs).pause) /\ Since(fs, s) = Head(fs).age
  <2>0. Len(gs) = 0
    BY <1>1, <1>3, ZenonT(60)
  <2>1. Len(fs) = 1
    BY <1>1, <2>0
  <2>2. Head(fs) = fs[Len(fs)]
    BY <1>1, <2>1, ZenonT(60)
  <2> QED
    BY ONLY <2>2, fs # <<>>, ZenonT(60) DEF Wanted, Since
<1>4. ASSUME gs # <<>> PROVE \A s, t : (Wanted(gs, s) <=> Wanted(fs, t)) /\ Since(gs, s) = Since(fs, t)
  <2>1. gs[Len(gs)] = fs[Len(fs)]
    BY <1>1, <1>0, <1>4
  <2> QED
    BY ONLY <2>1, fs # <<>>, <1>4, ZenonT(60) DEF Wanted, Since
<1> QED
  BY <1>1, <1>2, <1>3, <1>4 DEF gs

\* The host sends a packet: every frame on the way is one packet older and says what it said.
LEMMA FrameAged ==
  ASSUME NEW fs \in Seq(FrameSet), Alternates(fs), \A i \in DOMAIN fs : fs[i].age < Delay
  PROVE  LET gs == Aged(fs)
         IN  /\ gs \in Seq(FrameSet) /\ Alternates(gs)
             /\ gs = <<>> <=> fs = <<>>
             /\ \A s, t : fs # <<>> => (Wanted(gs, s) <=> Wanted(fs, t)) /\ Since(gs, s) = Since(fs, t) + 1
<1> DEFINE gs == Aged(fs)
<1>1. DOMAIN fs = 1 .. Len(fs) /\ Len(fs) \in Nat
  OBVIOUS
<1>2. ASSUME NEW i \in 1 .. Len(fs)
      PROVE  gs[i] \in FrameSet /\ gs[i].pause = fs[i].pause /\ gs[i].age = fs[i].age + 1
  <2>1. fs[i] \in FrameSet
    BY <1>1
  <2> QED
    BY <1>1, <2>1, SizeAssumption DEF FrameSet, Aged
<1>3. DOMAIN gs = 1 .. Len(fs)
  BY <1>1 DEF Aged
<1>4. gs \in [1 .. Len(fs) -> FrameSet]
  BY <1>1, <1>2 DEF Aged
<1> HIDE DEF gs
<1>5. gs \in Seq(FrameSet) /\ Len(gs) = Len(fs)
  BY <1>1, <1>4
<1>6. gs = <<>> <=> fs = <<>>
  BY <1>5, EmptySeq
<1>7. Alternates(gs)
  <2> SUFFICES ASSUME NEW i \in 1 .. Len(gs) - 1 PROVE ~(gs[i].pause <=> gs[i + 1].pause)
    BY DEF Alternates
  <2>1. i \in 1 .. Len(fs) - 1 /\ i \in 1 .. Len(fs) /\ i + 1 \in 1 .. Len(fs)
    BY <1>1, <1>5
  <2>2. gs[i].pause = fs[i].pause /\ gs[i + 1].pause = fs[i + 1].pause
    BY <2>1, <1>2
  <2> QED
    BY ONLY <2>1, <2>2, Alternates(fs), ZenonT(60) DEF Alternates
<1>8. ASSUME NEW s, NEW t, fs # <<>>
      PROVE  (Wanted(gs, s) <=> Wanted(fs, t)) /\ Since(gs, s) = Since(fs, t) + 1
  <2>1. Len(fs) \in 1 .. Len(fs)
    BY <1>8, <1>1, EmptySeq
  <2>2. gs[Len(gs)].pause = fs[Len(fs)].pause /\ gs[Len(gs)].age = fs[Len(fs)].age + 1
    BY <2>1, <1>2, <1>5
  <2>3. gs # <<>>
    BY <1>6, <1>8
  <2> QED
    BY ONLY <2>2, <2>3, <1>8, ZenonT(60) DEF Wanted, Since
<1> QED
  BY <1>5, <1>6, <1>7, <1>8 DEF gs
-----------------------------------------------------------------------------
(* One host and its input queue *)

Values(l, s, st, w, fs, z, r) ==
  /\ l \in 0 .. Total /\ s \in BOOLEAN /\ st \in States /\ w \in 0 .. Delay
  /\ fs \in Seq(FrameSet) /\ z \in Nat /\ r \in {"READY", "PAUSED"}

\* The age of the last frame is of the type.
LEMMA SinceType ==
  ASSUME NEW fs \in Seq(FrameSet), NEW st \in States
  PROVE  Since(fs, st) \in 0 .. Delay + 1 /\ (fs # <<>> => Since(fs, st) <= Delay)
<1>1. CASE fs = <<>>
  BY <1>1, SizeAssumption DEF Since
<1>2. CASE fs # <<>>
  <2>1. Len(fs) \in 1 .. Len(fs)
    BY <1>2, EmptySeq
  <2>2. fs[Len(fs)] \in FrameSet
    BY <2>1
  <2> QED
    BY <1>2, <2>2, SizeAssumption DEF Since, FrameSet
<1> QED
  BY <1>1, <1>2

\* A host that may send starts a packet (beginService).
LEMMA GoodStart ==
  ASSUME NEW l, NEW w, NEW fs, NEW z, NEW r,
         Good(l, FALSE, "READY", w, fs, z, r), l > 0 \/ Total = 0
  PROVE  Good(l, TRUE, "READY", w, fs, z, r)
BY DEF Good, HostState

\* A host ends a packet (completeService), and is paused now if a frame came meanwhile.
LEMMA GoodFinish ==
  ASSUME NEW l, NEW st, NEW w, NEW fs, NEW z, NEW r, Values(l, TRUE, st, w, fs, z, r),
         Good(l, TRUE, st, w, fs, z, r), w < Delay, \A i \in DOMAIN fs : fs[i].age < Delay
  PROVE  LET m == IF Total = 0 THEN 0 ELSE l - 1
             su == IF st = "PAUSE_RECEIVED" THEN "PAUSED" ELSE st
             gs == Aged(fs)
         IN  Values(m, FALSE, su, w + 1, gs, z, r) /\ Good(m, FALSE, su, w + 1, gs, z, r)
<1> DEFINE m == IF Total = 0 THEN 0 ELSE l - 1
           su == IF st = "PAUSE_RECEIVED" THEN "PAUSED" ELSE st
           gs == Aged(fs)
<1>1. /\ gs \in Seq(FrameSet) /\ Alternates(gs) /\ (gs = <<>> <=> fs = <<>>)
      /\ fs # <<>> => (Wanted(gs, su) <=> Wanted(fs, st)) /\ Since(gs, su) = Since(fs, st) + 1
  BY FrameAged DEF Values, Good, Agrees
<1> HIDE DEF gs
<1>2. Since(fs, st) \in 0 .. Delay + 1
  BY SinceType DEF Values
<1>3. l > 0 \/ Total = 0
  BY DEF Good, HostState
<1>4. Values(m, FALSE, su, w + 1, gs, z, r)
  BY <1>1, <1>3, SizeAssumption DEF Values, States
<1>5. HostState(m, FALSE, su)
  BY DEF HostState, Good, Values, States
<1>6. su = "READY" <=> st = "READY"
  OBVIOUS
<1>7. Agrees(gs, su, r)
  <2>1. CASE fs = <<>>
    BY <1>1, <2>1, <1>6, ZenonT(60) DEF Agrees, Wanted, Good
  <2>2. CASE fs # <<>>
    BY <1>1, <2>2, ZenonT(60) DEF Agrees, Good
  <2> QED
    BY <2>1, <2>2
<1>8. Room(gs, su, r, z, w + 1)
  <2>1. CASE fs # <<>>
    <3>1. Since(gs, su) = Since(fs, st) + 1
      BY <1>1, <2>1
    <3> QED
      BY <3>1, <1>2, ThresholdAssumption, SizeAssumption DEF Room, Good, Values
  <2>2. CASE fs = <<>> /\ r = "PAUSED"
    <3>1. st # "READY"
      BY <2>2, ZenonT(60) DEF Good, Agrees, Wanted
    <3>2. st = "PAUSE_RECEIVED"
      BY <3>1 DEF Good, HostState, Values, States
    <3>3. Since(fs, st) = Delay /\ Since(gs, su) = Delay + 1
      BY <1>1, <2>2, <3>2, ZenonT(60) DEF Since
    <3> QED
      BY <2>2, <3>3, ThresholdAssumption, SizeAssumption DEF Room, Good, Values
  <2>3. CASE r = "READY"
    BY <2>3 DEF Room, Good
  <2> QED
    BY <2>1, <2>2, <2>3 DEF Values
<1> QED
  BY <1>4, <1>5, <1>7, <1>8 DEF Good, gs

\* A host hears a frame (receivePacket): it is paused or resumed as the frame says.
LEMMA GoodHear ==
  ASSUME NEW l, NEW s, NEW st, NEW w, NEW fs, NEW z, NEW r, Values(l, s, st, w, fs, z, r),
         Good(l, s, st, w, fs, z, r), fs # <<>>
  PROVE  LET su == IF ~Head(fs).pause THEN "READY" ELSE IF s THEN "PAUSE_RECEIVED" ELSE "PAUSED"
         IN  Values(l, s, su, w, Tail(fs), z, r) /\ Good(l, s, su, w, Tail(fs), z, r)
<1> DEFINE su == IF ~Head(fs).pause THEN "READY" ELSE IF s THEN "PAUSE_RECEIVED" ELSE "PAUSED"
           gs == Tail(fs)
<1>1. /\ gs \in Seq(FrameSet) /\ Alternates(gs)
      /\ gs = <<>> => (Wanted(fs, st) <=> Head(fs).pause) /\ Since(fs, st) = Head(fs).age
      /\ gs # <<>> => (Wanted(gs, su) <=> Wanted(fs, st)) /\ Since(gs, su) = Since(fs, st)
  BY FrameHeard DEF Values, Good, Agrees
<1>2. su \in States /\ (su = "PAUSED" => ~s) /\ (su = "PAUSE_RECEIVED" => s)
  BY DEF States
<1>3. su # "READY" <=> Head(fs).pause
  BY ZenonT(60)
<1> HIDE DEF gs, su
<1>4. Since(fs, st) \in 0 .. Delay
  BY SinceType, SizeAssumption DEF Values
<1>5. Values(l, s, su, w, gs, z, r)
  BY <1>1, <1>2 DEF Values
<1>6. HostState(l, s, su)
  BY <1>2 DEF HostState, Good
<1>7. Agrees(gs, su, r)
  <2>1. CASE gs = <<>>
    BY <1>1, <1>3, <2>1, ZenonT(60) DEF Agrees, Wanted, Good
  <2>2. CASE gs # <<>>
    BY <1>1, <2>2, ZenonT(60) DEF Agrees, Good
  <2> QED
    BY <2>1, <2>2
<1>8. Since(gs, su) \in Nat /\ Since(gs, su) >= Since(fs, st)
  <2>1. CASE gs = <<>>
    <3>1. Since(gs, su) = IF su = "PAUSED" THEN Delay + 1 ELSE Delay
      BY <2>1, ZenonT(60) DEF Since
    <3> QED
      BY <3>1, <1>4, SizeAssumption
  <2>2. CASE gs # <<>>
    BY <1>1, <1>4, <2>2
  <2> QED
    BY <2>1, <2>2
<1>9. Room(gs, su, r, z, w)
  BY <1>4, <1>8, ThresholdAssumption, SizeAssumption DEF Room, Good, Values
<1> QED
  BY <1>5, <1>6, <1>7, <1>9 DEF Good, gs, su

\* A packet is counted, and the host paused when it is one too many.
LEMMA GoodCounted ==
  ASSUME NEW l, NEW s, NEW st, NEW w, NEW fs, NEW z, NEW r, Values(l, s, st, w, fs, z, r),
         Good(l, s, st, w, fs, z, r), w > 0
  PROVE  LET full == z + 1 > High /\ r # "PAUSED"
             q == IF full THEN "PAUSED" ELSE r
             gs == IF full THEN Append(fs, [pause |-> TRUE, age |-> 0]) ELSE fs
         IN  Values(l, s, st, w - 1, gs, z + 1, q) /\ Good(l, s, st, w - 1, gs, z + 1, q)
<1>1. CASE z + 1 > High /\ r # "PAUSED"
  <2> DEFINE gs == Append(fs, [pause |-> TRUE, age |-> 0])
  <2>1. r = "READY" /\ ~Wanted(fs, st) /\ Alternates(fs)
    BY <1>1 DEF Values, Good, Agrees
  <2>2. /\ gs \in Seq(FrameSet) /\ Alternates(gs) /\ gs # <<>>
        /\ Wanted(gs, st) /\ Since(gs, st) = 0
    BY <2>1, FrameAppended DEF Values
  <2> HIDE DEF gs
  <2>3. Values(l, s, st, w - 1, gs, z + 1, "PAUSED")
    BY <2>2, SizeAssumption DEF Values
  <2>4. Agrees(gs, st, "PAUSED")
    BY <2>2 DEF Agrees
  <2>5. Room(gs, st, "PAUSED", z + 1, w - 1)
    BY <2>1, <2>2, ThresholdAssumption, SizeAssumption DEF Room, Good, Values
  <2>6. HostState(l, s, st)
    BY DEF Good
  <2> QED
    BY <1>1, <2>3, <2>4, <2>5, <2>6 DEF Good, gs
<1>2. CASE ~(z + 1 > High /\ r # "PAUSED")
  <2>1. Values(l, s, st, w - 1, fs, z + 1, r)
    BY SizeAssumption DEF Values
  <2>2. Since(fs, st) \in Nat
    BY SinceType, SizeAssumption DEF Values
  <2>3. Room(fs, st, r, z + 1, w - 1)
    BY <1>2, <2>2, ThresholdAssumption, SizeAssumption DEF Room, Good, Values
  <2> QED
    BY <1>2, <2>1, <2>3 DEF Good
<1> QED
  BY <1>1, <1>2

\* A packet has left, and the host is resumed when few are left.
LEMMA GoodReleased ==
  ASSUME NEW l, NEW s, NEW st, NEW w, NEW fs, NEW z, NEW r, Values(l, s, st, w, fs, z, r),
         Good(l, s, st, w, fs, z, r), z > 0
  PROVE  LET empty == z - 1 < Low /\ r = "PAUSED"
             q == IF empty THEN "READY" ELSE r
             gs == IF empty THEN Append(fs, [pause |-> FALSE, age |-> 0]) ELSE fs
         IN  Values(l, s, st, w, gs, z - 1, q) /\ Good(l, s, st, w, gs, z - 1, q)
<1>1. CASE z - 1 < Low /\ r = "PAUSED"
  <2> DEFINE gs == Append(fs, [pause |-> FALSE, age |-> 0])
  <2>1. Wanted(fs, st) /\ Alternates(fs)
    BY <1>1 DEF Values, Good, Agrees
  <2>2. /\ gs \in Seq(FrameSet) /\ Alternates(gs) /\ gs # <<>> /\ ~Wanted(gs, st)
    BY <2>1, FrameAppended DEF Values
  <2> HIDE DEF gs
  <2>3. Values(l, s, st, w, gs, z - 1, "READY")
    BY <2>2 DEF Values
  <2>4. Agrees(gs, st, "READY")
    BY <2>2 DEF Agrees
  <2>5. Room(gs, st, "READY", z - 1, w)
    BY <1>1, ThresholdAssumption DEF Room, Values
  <2>6. HostState(l, s, st)
    BY DEF Good
  <2> QED
    BY <1>1, <2>3, <2>4, <2>5, <2>6 DEF Good, gs
<1>2. CASE ~(z - 1 < Low /\ r = "PAUSED")
  <2>1. Values(l, s, st, w, fs, z - 1, r)
    BY DEF Values
  <2>2. Since(fs, st) \in Nat
    BY SinceType, SizeAssumption DEF Values
  <2>3. Room(fs, st, r, z - 1, w)
    BY <2>2, ThresholdAssumption, SizeAssumption DEF Room, Good, Values
  <2> QED
    BY <1>2, <2>1, <2>3 DEF Good
<1> QED
  BY <1>1, <1>2

-----------------------------------------------------------------------------
(* Places in the output queues *)

\* The places of a host's packets are the positions that hold one.
LEMMA PlaceMember ==
  ASSUME NEW q \in [Outs -> Seq(Hosts)], NEW h, NEW x
  PROVE  x \in Places(q, h) <=> \E o \in Outs : \E i \in 1 .. Len(q[o]) : x = <<o, i>> /\ q[o][i] = h
<1> DEFINE At(o) == {j \in DOMAIN q[o] : q[o][j] = h}
<1>1. \A o \in Outs : DOMAIN q[o] = 1 .. Len(q[o])
  OBVIOUS
<1>2. ASSUME x \in Places(q, h)
      PROVE  \E o \in Outs : \E i \in 1 .. Len(q[o]) : x = <<o, i>> /\ q[o][i] = h
  <2>1. PICK o \in Outs : x \in {<<o, i>> : i \in At(o)}
    BY <1>2, ZenonT(60) DEF Places
  <2>2. PICK i \in At(o) : x = <<o, i>>
    BY <2>1, ZenonT(60)
  <2>3. i \in 1 .. Len(q[o]) /\ q[o][i] = h
    BY <1>1, <2>2, ZenonT(60)
  <2> QED
    BY <2>2, <2>3, ZenonT(60)
<1>3. ASSUME NEW o \in Outs, NEW i \in 1 .. Len(q[o]), x = <<o, i>>, q[o][i] = h
      PROVE  x \in Places(q, h)
  <2>1. i \in At(o)
    BY <1>1, <1>3, ZenonT(60)
  <2>2. x \in {<<o, k>> : k \in At(o)}
    BY <1>3, <2>1, ZenonT(60)
  <2> QED
    BY <2>2, ZenonT(60) DEF Places
<1> QED
  BY <1>2, <1>3, ZenonT(60)

\* A packet of host h joins output o: h has one place more, the others have as many.
LEMMA PlacesAdded ==
  ASSUME NEW q \in [Outs -> Seq(Hosts)], NEW h \in Hosts, NEW o \in Outs, NEW g \in Hosts,
         IsFiniteSet(Places(q, g))
  PROVE  LET p == [q EXCEPT ![o] = Append(@, h)]
         IN  /\ IsFiniteSet(Places(p, g))
             /\ Cardinality(Places(p, g)) = Cardinality(Places(q, g)) + (IF g = h THEN 1 ELSE 0)
<1> DEFINE p == [q EXCEPT ![o] = Append(@, h)]
           n == Len(q[o]) + 1
<1>1. p \in [Outs -> Seq(Hosts)] /\ p[o] = Append(q[o], h) /\ \A u \in Outs \ {o} : p[u] = q[u]
  OBVIOUS
<1> HIDE DEF p
<1>2. /\ Len(p[o]) = n /\ p[o][n] = h /\ Len(q[o]) \in Nat /\ n \in 1 .. n
      /\ \A i \in 1 .. Len(q[o]) : p[o][i] = q[o][i] /\ i \in 1 .. n
      /\ \A i \in 1 .. n : i = n \/ i \in 1 .. Len(q[o])
      /\ n \notin 1 .. Len(q[o])
  BY <1>1
<1> HIDE DEF n
<1>3. ASSUME NEW x PROVE x \in Places(p, g) <=> x \in Places(q, g) \/ (g = h /\ x = <<o, n>>)
  <2>1. ASSUME x \in Places(p, g) PROVE x \in Places(q, g) \/ (g = h /\ x = <<o, n>>)
    <3>1. PICK u \in Outs : \E i \in 1 .. Len(p[u]) : x = <<u, i>> /\ p[u][i] = g
      BY <1>1, <2>1, PlaceMember
    <3>2. PICK i \in 1 .. Len(p[u]) : x = <<u, i>> /\ p[u][i] = g
      BY <3>1
    <3>3. CASE u = o
      <4>1. CASE i = n
        BY <1>2, <3>2, <3>3, <4>1, ZenonT(60)
      <4>2. CASE i \in 1 .. Len(q[o])
        <5>1. q[o][i] = g
          BY <1>2, <3>2, <3>3, <4>2, ZenonT(60)
        <5> QED
          BY <3>2, <3>3, <4>2, <5>1, PlaceMember, ZenonT(60)
      <4> QED
        BY <1>2, <3>2, <3>3, <4>1, <4>2, ZenonT(60)
    <3>4. CASE u # o
      <4>1. p[u] = q[u]
        BY <1>1, <3>4
      <4> QED
        BY <3>2, <4>1, PlaceMember, ZenonT(60)
    <3> QED
      BY <3>3, <3>4
  <2>2. ASSUME x \in Places(q, g) PROVE x \in Places(p, g)
    <3>1. PICK u \in Outs : \E i \in 1 .. Len(q[u]) : x = <<u, i>> /\ q[u][i] = g
      BY <2>2, PlaceMember
    <3>2. PICK i \in 1 .. Len(q[u]) : x = <<u, i>> /\ q[u][i] = g
      BY <3>1
    <3>3. i \in 1 .. Len(p[u]) /\ p[u][i] = g
      BY <1>1, <1>2, <3>2, ZenonT(60)
    <3> QED
      BY <1>1, <3>2, <3>3, PlaceMember, ZenonT(60)
  <2>3. ASSUME g = h, x = <<o, n>> PROVE x \in Places(p, g)
    BY <1>1, <1>2, <2>3, PlaceMember, ZenonT(60)
  <2> QED
    BY <2>1, <2>2, <2>3
<1>4. <<o, n>> \notin Places(q, g)
  <2> SUFFICES ASSUME <<o, n>> \in Places(q, g) PROVE FALSE
    OBVIOUS
  <2>1. PICK u \in Outs : \E i \in 1 .. Len(q[u]) : <<o, n>> = <<u, i>> /\ q[u][i] = g
    BY PlaceMember
  <2> QED
    BY <1>2, <2>1
<1>5. CASE g = h
  <2>1. Places(p, g) = Places(q, g) \cup {<<o, n>>}
    BY <1>3, <1>5
  <2>2. Cardinality(Places(q, g)) \in Nat
    BY FS_CardinalityType
  <2>3. /\ IsFiniteSet(Places(q, g) \cup {<<o, n>>})
        /\ Cardinality(Places(q, g) \cup {<<o, n>>}) = Cardinality(Places(q, g)) + 1
    BY <1>4, FS_AddElement
  <2> QED
    BY <1>5, <2>1, <2>3, ZenonT(60) DEF p
<1>6. CASE g # h
  <2>1. Places(p, g) = Places(q, g)
    BY <1>3, <1>6
  <2>2. Cardinality(Places(q, g)) \in Nat
    BY FS_CardinalityType
  <2>3. Cardinality(Places(p, g)) = Cardinality(Places(q, g)) + 0
    BY <2>1, <2>2
  <2> QED
    BY <1>6, <2>1, <2>3, ZenonT(60) DEF p
<1> QED
  BY <1>5, <1>6

\* The first packet of output o leaves; the places of the others move up.
LEMMA PlacesRemoved ==
  ASSUME NEW q \in [Outs -> Seq(Hosts)], NEW o \in Outs, q[o] # <<>>, NEW g \in Hosts,
         IsFiniteSet(Places(q, g))
  PROVE  LET p == [q EXCEPT ![o] = Tail(@)]
         IN  /\ IsFiniteSet(Places(p, g))
             /\ Cardinality(Places(q, g)) \in Nat
             /\ Cardinality(Places(p, g)) =
                  IF g = Head(q[o]) THEN Cardinality(Places(q, g)) - 1 ELSE Cardinality(Places(q, g))
             /\ g = Head(q[o]) => Cardinality(Places(q, g)) > 0
<1> DEFINE p == [q EXCEPT ![o] = Tail(@)]
           S == Places(q, g) \ {<<o, 1>>}
           T == Places(p, g)
           f == [x \in S |-> IF x[1] = o THEN <<o, x[2] - 1>> ELSE x]
<1>1. p \in [Outs -> Seq(Hosts)] /\ p[o] = Tail(q[o]) /\ \A u \in Outs \ {o} : p[u] = q[u]
  OBVIOUS
<1>2. Len(q[o]) \in Nat \ {0} /\ Head(q[o]) = q[o][1]
  BY EmptySeq
<1>3. Len(p[o]) = Len(q[o]) - 1 /\ \A i \in 1 .. Len(p[o]) : p[o][i] = q[o][i + 1]
  BY <1>1
<1>4. \A u \in Outs : Len(q[u]) \in Nat
  OBVIOUS
<1> HIDE DEF p
<1>5. <<o, 1>> \in Places(q, g) <=> g = Head(q[o])
  <2>1. ASSUME <<o, 1>> \in Places(q, g) PROVE g = Head(q[o])
    <3>1. PICK u \in Outs : \E i \in 1 .. Len(q[u]) : <<o, 1>> = <<u, i>> /\ q[u][i] = g
      BY <2>1, PlaceMember
    <3> QED
      BY <1>2, <3>1
  <2>2. ASSUME g = Head(q[o]) PROVE <<o, 1>> \in Places(q, g)
    <3>1. 1 \in 1 .. Len(q[o]) /\ q[o][1] = g
      BY <1>2, <2>2
    <3> QED
      BY <3>1, PlaceMember, ZenonT(60)
  <2> QED
    BY <2>1, <2>2
\* What f does at the places of S.
<1>6. ASSUME NEW x \in S
      PROVE  \E u \in Outs : \E i \in 1 .. Len(q[u]) :
               /\ x = <<u, i>> /\ q[u][i] = g
               /\ u = o => i - 1 \in 1 .. Len(p[o]) /\ f[x] = <<o, i - 1>> /\ p[o][i - 1] = g
               /\ u # o => f[x] = x
  <2>1. PICK u \in Outs : \E i \in 1 .. Len(q[u]) : x = <<u, i>> /\ q[u][i] = g
    BY PlaceMember
  <2>2. PICK i \in 1 .. Len(q[u]) : x = <<u, i>> /\ q[u][i] = g
    BY <2>1
  <2>3. ASSUME u = o PROVE i - 1 \in 1 .. Len(p[o]) /\ f[x] = <<o, i - 1>> /\ p[o][i - 1] = g
    <3>1. i # 1
      BY <2>2, <2>3
    <3>2. i - 1 \in 1 .. Len(p[o]) /\ (i - 1) + 1 = i
      BY <1>2, <1>3, <2>2, <2>3, <3>1
    <3>3. p[o][i - 1] = g
      BY <1>3, <2>2, <2>3, <3>2
    <3>4. f[x] = <<o, i - 1>>
      BY <2>2, <2>3
    <3> QED
      BY <3>2, <3>3, <3>4
  <2>4. ASSUME u # o PROVE f[x] = x
    BY <2>2, <2>4
  <2> QED
    BY <2>2, <2>3, <2>4
<1> HIDE DEF f
<1>7. ASSUME NEW x \in S PROVE f[x] \in T
  <2>0. PICK u \in Outs : \E i \in 1 .. Len(q[u]) :
               /\ x = <<u, i>> /\ q[u][i] = g
               /\ u = o => i - 1 \in 1 .. Len(p[o]) /\ f[x] = <<o, i - 1>> /\ p[o][i - 1] = g
               /\ u # o => f[x] = x
    BY <1>6
  <2>1. PICK i \in 1 .. Len(q[u]) :
               /\ x = <<u, i>> /\ q[u][i] = g
               /\ u = o => i - 1 \in 1 .. Len(p[o]) /\ f[x] = <<o, i - 1>> /\ p[o][i - 1] = g
               /\ u # o => f[x] = x
    BY <2>0
  <2>2. CASE u = o
    BY <1>1, <2>1, <2>2, PlaceMember, ZenonT(60)
  <2>3. CASE u # o
    <3>1. p[u] = q[u]
      BY <1>1, <2>3
    <3> QED
      BY <1>1, <2>1, <2>3, <3>1, PlaceMember, ZenonT(60)
  <2> QED
    BY <2>2, <2>3
<1>8. ASSUME NEW x \in S, NEW y \in S, f[x] = f[y] PROVE x = y
  <2>a. PICK u \in Outs : \E i \in 1 .. Len(q[u]) :
               x = <<u, i>> /\ (u = o => f[x] = <<o, i - 1>>) /\ (u # o => f[x] = x)
    BY <1>6
  <2>1. PICK i \in 1 .. Len(q[u]) :
               x = <<u, i>> /\ (u = o => f[x] = <<o, i - 1>>) /\ (u # o => f[x] = x)
    BY <2>a
  <2>b. PICK v \in Outs : \E j \in 1 .. Len(q[v]) :
               y = <<v, j>> /\ (v = o => f[y] = <<o, j - 1>>) /\ (v # o => f[y] = y)
    BY SMTT(30), <1>6
  <2>2. PICK j \in 1 .. Len(q[v]) :
               y = <<v, j>> /\ (v = o => f[y] = <<o, j - 1>>) /\ (v # o => f[y] = y)
    BY <2>b
  <2>3. CASE u = o /\ v = o
    <3>1. i - 1 = j - 1 /\ i \in Int /\ j \in Int
      BY <1>4, <1>8, <2>1, <2>2, <2>3
    <3> QED
      BY <2>1, <2>2, <2>3, <3>1
  <2>4. CASE u = o /\ v # o
    <3>1. <<o, i - 1>> = <<v, j>>
      BY <1>8, <2>1, <2>2, <2>4, ZenonT(60)
    <3>2. o = v
      BY ONLY <3>1
    <3> QED
      BY <2>4, <3>2
  <2>5. CASE u # o /\ v = o
    <3>1. <<u, i>> = <<o, j - 1>>
      BY <1>8, <2>1, <2>2, <2>5, ZenonT(60)
    <3>2. u = o
      BY ONLY <3>1
    <3> QED
      BY <2>5, <3>2
  <2>6. CASE u # o /\ v # o
    BY <1>8, <2>1, <2>2, <2>6
  <2> QED
    BY <2>3, <2>4, <2>5, <2>6
<1>9. ASSUME NEW t \in T PROVE \E x \in S : f[x] = t
  <2>1. PICK u \in Outs : \E i \in 1 .. Len(p[u]) : t = <<u, i>> /\ p[u][i] = g
    BY <1>1, PlaceMember
  <2>2. PICK i \in 1 .. Len(p[u]) : t = <<u, i>> /\ p[u][i] = g
    BY <2>1
  <2>3. CASE u = o
    <3>1. i + 1 \in 1 .. Len(q[o]) /\ q[o][i + 1] = g /\ i + 1 # 1 /\ (i + 1) - 1 = i
      BY <1>2, <1>3, <2>2, <2>3
    <3>2. <<o, i + 1>> \in Places(q, g)
      BY <3>1, PlaceMember, ZenonT(60)
    <3>3. <<o, i + 1>> \in S
      BY <3>1, <3>2
    <3>4. f[<<o, i + 1>>] = <<o, i>>
      BY <3>1, <3>3 DEF f
    <3> QED
      BY <2>2, <2>3, <3>3, <3>4
  <2>4. CASE u # o
    <3>1. p[u] = q[u]
      BY <1>1, <2>4
    <3>2. t \in Places(q, g)
      BY <2>2, <3>1, PlaceMember, ZenonT(60)
    <3>3. t \in S
      BY <2>2, <2>4, <3>2
    <3>4. f[t] = t
      BY <2>2, <2>4, <3>3 DEF f
    <3> QED
      BY <3>3, <3>4
  <2> QED
    BY <2>3, <2>4
<1>10. ExistsBijection(S, T)
  <2>1. f \in [S -> T]
    BY <1>7 DEF f
  <2>2. f \in Bijection(S, T)
    BY <2>1, <1>8, <1>9, Fun_IsBij
  <2> QED
    BY <2>2, Fun_ExistsBij
<1>11. /\ IsFiniteSet(S) /\ Cardinality(Places(q, g)) \in Nat
       /\ Cardinality(S) = IF <<o, 1>> \in Places(q, g) THEN Cardinality(Places(q, g)) - 1
                                                        ELSE Cardinality(Places(q, g))
  BY FS_RemoveElement, FS_CardinalityType
<1>12. IsFiniteSet(T) /\ Cardinality(T) = Cardinality(S)
  BY <1>10, <1>11, FS_Bijection
<1>13. g = Head(q[o]) => Cardinality(Places(q, g)) > 0
  BY <1>5, <1>11, FS_EmptySet
<1> QED
  BY <1>5, <1>11, <1>12, <1>13 DEF p

-----------------------------------------------------------------------------
(* The steps *)

Quiet(h) == Values(left[h], sending[h], send[h], wire[h], frames[h], size[h], recv[h])

\* The values of a host and its input queue are of the types the step lemmas ask for.
LEMMA QuietHost ==
  ASSUME Types, NEW h \in Hosts
  PROVE  Quiet(h)
BY DEF Types, Quiet, Values

\* A step that gives host h and its input queue good values, and leaves the others.
LEMMA HostStep ==
  ASSUME Types, HostInv, NEW h \in Hosts,
         NEW l, NEW s, NEW st, NEW w, NEW fs, NEW z, NEW r,
         Values(l, s, st, w, fs, z, r), Good(l, s, st, w, fs, z, r),
         left' = [left EXCEPT ![h] = l], sending' = [sending EXCEPT ![h] = s],
         send' = [send EXCEPT ![h] = st], wire' = [wire EXCEPT ![h] = w],
         frames' = [frames EXCEPT ![h] = fs], size' = [size EXCEPT ![h] = z],
         recv' = [recv EXCEPT ![h] = r]
  PROVE  /\ HostInv'
         /\ left' \in [Hosts -> 0 .. Total] /\ sending' \in [Hosts -> BOOLEAN]
         /\ send' \in [Hosts -> States] /\ recv' \in [Hosts -> {"READY", "PAUSED"}]
         /\ wire' \in [Hosts -> 0 .. Delay] /\ size' \in [Hosts -> Nat]
         /\ frames' \in [Hosts -> Seq(FrameSet)]
<1>1. /\ l \in 0 .. Total /\ s \in BOOLEAN /\ st \in States /\ w \in 0 .. Delay
      /\ fs \in Seq(FrameSet) /\ z \in Nat /\ r \in {"READY", "PAUSED"}
  BY DEF Values
<1>2. ASSUME NEW k \in Hosts
      PROVE  Good(left'[k], sending'[k], send'[k], wire'[k], frames'[k], size'[k], recv'[k])
  <2>1. CASE k = h
    <3>1. /\ left'[k] = l /\ sending'[k] = s /\ send'[k] = st /\ wire'[k] = w
          /\ frames'[k] = fs /\ size'[k] = z /\ recv'[k] = r
      BY <2>1, ZenonT(60) DEF Types
    <3> QED
      BY <3>1, ZenonT(60)
  <2>2. CASE k # h
    <3>1. /\ left'[k] = left[k] /\ sending'[k] = sending[k] /\ send'[k] = send[k]
          /\ wire'[k] = wire[k] /\ frames'[k] = frames[k] /\ size'[k] = size[k]
          /\ recv'[k] = recv[k]
      BY <2>2, ZenonT(60) DEF Types
    <3> QED
      BY <3>1, ZenonT(60) DEF HostInv
  <2> QED
    BY <2>1, <2>2
<1>3. HostInv'
  BY <1>2, ZenonT(60) DEF HostInv
<1>4. /\ left' \in [Hosts -> 0 .. Total] /\ sending' \in [Hosts -> BOOLEAN]
      /\ send' \in [Hosts -> States] /\ recv' \in [Hosts -> {"READY", "PAUSED"}]
  BY <1>1 DEF Types
<1>5. /\ wire' \in [Hosts -> 0 .. Delay] /\ size' \in [Hosts -> Nat]
      /\ frames' \in [Hosts -> Seq(FrameSet)]
  BY <1>1 DEF Types
<1> QED
  BY <1>3, <1>4, <1>5

\* A step that leaves the output queues and what is counted alone.
LEMMA CountsKept ==
  ASSUME AllCount, UNCHANGED <<queue, size>>
  PROVE  AllCount'
BY DEF AllCount, Counts

\* A host that starts a packet keeps the invariant.
LEMMA StartKeeps ==
  ASSUME FabricInv, NEW h \in Hosts, Start(h)
  PROVE  FabricInv'
<1>1. Types /\ HostInv /\ Serving /\ AllCount /\ Quiet(h)
  BY QuietHost DEF FabricInv
<1>2. /\ send[h] = "READY" /\ (left[h] > 0 \/ Total = 0)
      /\ sending[h] = FALSE
  BY <1>1 DEF Start, Types
<1>3. Good(left[h], FALSE, "READY", wire[h], frames[h], size[h], recv[h])
  BY <1>1, <1>2, ZenonT(60) DEF HostInv
<1>4. /\ Good(left[h], TRUE, "READY", wire[h], frames[h], size[h], recv[h])
      /\ Values(left[h], TRUE, "READY", wire[h], frames[h], size[h], recv[h])
  BY <1>1, <1>2, <1>3, GoodStart DEF Quiet, Values
<1>5. /\ left' = [left EXCEPT ![h] = left[h]] /\ sending' = [sending EXCEPT ![h] = TRUE]
      /\ send' = [send EXCEPT ![h] = "READY"] /\ wire' = [wire EXCEPT ![h] = wire[h]]
      /\ frames' = [frames EXCEPT ![h] = frames[h]] /\ size' = [size EXCEPT ![h] = size[h]]
      /\ recv' = [recv EXCEPT ![h] = recv[h]]
  BY <1>1, <1>2 DEF Start, Types
<1>6. UNCHANGED <<queue, busy, out, size>>
  BY DEF Start
<1>7. Types' /\ HostInv'
  BY ZenonT(60), <1>1, <1>4, <1>5, <1>6, HostStep DEF Types
<1> QED
  BY <1>1, <1>6, <1>7, CountsKept DEF FabricInv, Serving

\* A host that ends a packet keeps the invariant.
LEMMA FinishKeeps ==
  ASSUME FabricInv, NEW h \in Hosts, Finish(h)
  PROVE  FabricInv'
<1> DEFINE m == IF Total = 0 THEN 0 ELSE left[h] - 1
           su == IF send[h] = "PAUSE_RECEIVED" THEN "PAUSED" ELSE send[h]
           gs == Aged(frames[h])
<1>1. Types /\ HostInv /\ Serving /\ AllCount /\ Quiet(h)
  BY QuietHost DEF FabricInv
<1>2. /\ wire[h] < Delay /\ \A i \in DOMAIN frames[h] : frames[h][i].age < Delay
      /\ sending[h] = TRUE
  BY <1>1 DEF Finish, Types
<1>3. /\ Good(left[h], TRUE, send[h], wire[h], frames[h], size[h], recv[h])
      /\ Values(left[h], TRUE, send[h], wire[h], frames[h], size[h], recv[h])
  BY <1>1, <1>2, ZenonT(60) DEF HostInv, Quiet
<1>4. /\ Values(m, FALSE, su, wire[h] + 1, gs, size[h], recv[h])
      /\ Good(m, FALSE, su, wire[h] + 1, gs, size[h], recv[h])
  BY <1>2, <1>3, GoodFinish
<1>5. /\ left' = [left EXCEPT ![h] = m] /\ sending' = [sending EXCEPT ![h] = FALSE]
      /\ send' = [send EXCEPT ![h] = su] /\ wire' = [wire EXCEPT ![h] = wire[h] + 1]
      /\ frames' = [frames EXCEPT ![h] = gs] /\ size' = [size EXCEPT ![h] = size[h]]
      /\ recv' = [recv EXCEPT ![h] = recv[h]]
  <2>1. /\ left' = [left EXCEPT ![h] = m] /\ sending' = [sending EXCEPT ![h] = FALSE]
        /\ send' = [send EXCEPT ![h] = su] /\ wire' = [wire EXCEPT ![h] = wire[h] + 1]
    BY DEF Finish
  <2>3. frames' = [frames EXCEPT ![h] = gs]
    BY ZenonT(60) DEF Finish
  <2>2. /\ size' = [size EXCEPT ![h] = size[h]] /\ recv' = [recv EXCEPT ![h] = recv[h]]
    BY <1>1 DEF Finish, Types
  <2> QED
    BY <2>1, <2>2, <2>3
<1>6. UNCHANGED <<queue, busy, out, size>>
  BY DEF Finish
<1> HIDE DEF m, su, gs
<1>7. Types' /\ HostInv'
  BY <1>1, <1>4, <1>5, <1>6, HostStep DEF Types
<1> QED
  BY <1>1, <1>6, <1>7, CountsKept DEF FabricInv, Serving

\* A host that hears a frame keeps the invariant.
LEMMA HearFrameKeeps ==
  ASSUME FabricInv, NEW h \in Hosts, HearFrame(h)
  PROVE  FabricInv'
<1> DEFINE su == IF ~Head(frames[h]).pause THEN "READY"
                 ELSE IF sending[h] THEN "PAUSE_RECEIVED" ELSE "PAUSED"
           gs == Tail(frames[h])
<1>1. Types /\ HostInv /\ Serving /\ AllCount /\ Quiet(h)
  BY QuietHost DEF FabricInv
<1>2. Good(left[h], sending[h], send[h], wire[h], frames[h], size[h], recv[h]) /\ frames[h] # <<>>
  BY <1>1, ZenonT(60) DEF HostInv, HearFrame
<1>4. /\ Values(left[h], sending[h], su, wire[h], gs, size[h], recv[h])
      /\ Good(left[h], sending[h], su, wire[h], gs, size[h], recv[h])
  BY <1>1, <1>2, GoodHear DEF Quiet
<1>5. /\ left' = [left EXCEPT ![h] = left[h]] /\ sending' = [sending EXCEPT ![h] = sending[h]]
      /\ send' = [send EXCEPT ![h] = su] /\ wire' = [wire EXCEPT ![h] = wire[h]]
      /\ frames' = [frames EXCEPT ![h] = gs] /\ size' = [size EXCEPT ![h] = size[h]]
      /\ recv' = [recv EXCEPT ![h] = recv[h]]
  BY <1>1 DEF HearFrame, Types
<1>6. UNCHANGED <<queue, busy, out, size>>
  BY DEF HearFrame
<1> HIDE DEF su, gs
<1>7. Types' /\ HostInv'
  BY <1>1, <1>4, <1>5, <1>6, HostStep DEF Types
<1> QED
  BY <1>1, <1>6, <1>7, CountsKept DEF FabricInv, Serving

\* A packet that reaches its output queue is counted by its input queue, which keeps the
\* invariant (both queues' receivePacket).
LEMMA DeliverKeeps ==
  ASSUME FabricInv, NEW h \in Hosts, NEW o \in Outs, Deliver(h, o)
  PROVE  FabricInv'
<1> DEFINE full == size[h] + 1 > High /\ recv[h] # "PAUSED"
           r == IF full THEN "PAUSED" ELSE recv[h]
           gs == IF full THEN Append(frames[h], [pause |-> TRUE, age |-> 0]) ELSE frames[h]
<1>1. Types /\ HostInv /\ Serving /\ AllCount /\ Quiet(h)
  BY QuietHost DEF FabricInv
<1>2. Good(left[h], sending[h], send[h], wire[h], frames[h], size[h], recv[h]) /\ wire[h] > 0
  BY <1>1, ZenonT(60) DEF HostInv, Deliver
<1>4. /\ Values(left[h], sending[h], send[h], wire[h] - 1, gs, size[h] + 1, r)
      /\ Good(left[h], sending[h], send[h], wire[h] - 1, gs, size[h] + 1, r)
  BY <1>1, <1>2, GoodCounted DEF Quiet
<1>5. /\ left' = [left EXCEPT ![h] = left[h]] /\ sending' = [sending EXCEPT ![h] = sending[h]]
      /\ send' = [send EXCEPT ![h] = send[h]] /\ wire' = [wire EXCEPT ![h] = wire[h] - 1]
      /\ size' = [size EXCEPT ![h] = size[h] + 1] /\ recv' = [recv EXCEPT ![h] = r]
  BY <1>1 DEF Deliver, Counted, Types
<1>6. frames' = [frames EXCEPT ![h] = gs]
  <2>1. CASE full
    BY <2>1 DEF Deliver, Counted, Frame
  <2>2. CASE ~full
    BY <1>1, <2>2 DEF Deliver, Counted, Types
  <2> QED
    BY <2>1, <2>2
<1>7. /\ queue' = [queue EXCEPT ![o] = Append(@, h)]
      /\ busy' = [busy EXCEPT ![o] = @ \/ (queue[o] = <<>> /\ out[o] = "READY")]
      /\ out' = out
  BY DEF Deliver
<1> HIDE DEF r, gs
<1>8. /\ queue' \in [Outs -> Seq(Hosts)] /\ queue'[o] = Append(queue[o], h)
      /\ \A u \in Outs \ {o} : queue'[u] = queue[u]
  BY <1>1, <1>7 DEF Types
<1>9. busy' \in [Outs -> BOOLEAN] /\ \A u \in Outs \ {o} : busy'[u] = busy[u]
  BY <1>1, <1>7 DEF Types
<1>10. Types' /\ HostInv'
  BY <1>1, <1>4, <1>5, <1>6, <1>7, <1>8, <1>9, HostStep DEF Types
<1>11. Serving'
  <2>1. queue'[o] # <<>>
    <3>1. Len(queue'[o]) = Len(queue[o]) + 1 /\ Len(queue[o]) \in Nat
      BY <1>1, <1>8 DEF Types
    <3> QED
      BY <3>1, EmptySeq
  <2> QED
    BY <1>1, <1>8, <1>9, <2>1, ZenonT(60) DEF Serving
<1>12. AllCount'
  <2> SUFFICES ASSUME NEW g \in Hosts PROVE Counts(g)'
    BY DEF AllCount
  <2>1. queue \in [Outs -> Seq(Hosts)] /\ Counts(g)
    BY <1>1 DEF Types, AllCount
  <2>2. /\ IsFiniteSet(Places(queue', g))
        /\ Cardinality(Places(queue', g)) = Cardinality(Places(queue, g)) + (IF g = h THEN 1 ELSE 0)
    BY ZenonT(60), <1>7, <2>1, PlacesAdded DEF Counts
  <2>3. size'[g] = size[g] + (IF g = h THEN 1 ELSE 0)
    BY <1>1, <1>5 DEF Types
  <2>4. size'[g] = Cardinality(Places(queue', g))
    BY <2>1, <2>2, <2>3, ZenonT(60) DEF Counts
  <2> QED
    BY <2>2, <2>4, ZenonT(60) DEF Counts
<1> QED
  BY <1>10, <1>11, <1>12 DEF FabricInv

\* A packet that leaves output queue o is released by the input queue it came by, which keeps
\* the invariant (completeService, completedService).
LEMMA CompleteServiceKeeps ==
  ASSUME FabricInv, NEW o \in Outs, CompleteService(o)
  PROVE  FabricInv'
<1> DEFINE h == Head(queue[o])
           empty == size[h] - 1 < Low /\ recv[h] = "PAUSED"
           r == IF empty THEN "READY" ELSE recv[h]
           gs == IF empty THEN Append(frames[h], [pause |-> FALSE, age |-> 0]) ELSE frames[h]
<1>1. Types /\ HostInv /\ Serving /\ AllCount
  BY DEF FabricInv
<1>2. queue \in [Outs -> Seq(Hosts)] /\ queue[o] # <<>>
  BY <1>1, ZenonT(60) DEF Serving, CompleteService, Types
<1>3. queue[o] \in Seq(Hosts) /\ Len(queue[o]) \in Nat \ {0}
  BY <1>2, EmptySeq
<1>4. h \in Hosts
  BY <1>2, <1>3
<1>5. queue' = [queue EXCEPT ![o] = Tail(@)]
  BY DEF CompleteService
<1>6. ASSUME NEW g \in Hosts
      PROVE  /\ IsFiniteSet(Places(queue', g))
             /\ Cardinality(Places(queue, g)) \in Nat
             /\ Cardinality(Places(queue', g)) =
                  IF g = h THEN Cardinality(Places(queue, g)) - 1 ELSE Cardinality(Places(queue, g))
             /\ g = h => Cardinality(Places(queue, g)) > 0
             /\ size[g] = Cardinality(Places(queue, g))
  <2>1. Counts(g)
    BY <1>1 DEF AllCount
  <2> QED
    BY <1>2, <1>5, <2>1, PlacesRemoved DEF Counts
<1>7. size' = [size EXCEPT ![h] = size[h] - 1] /\ recv' = [recv EXCEPT ![h] = r]
  BY <1>1, <1>4 DEF CompleteService, Released, Owner, Types
<1>8. frames' = [frames EXCEPT ![h] = gs]
  <2>1. CASE empty
    BY <2>1 DEF CompleteService, Released, Owner, Frame
  <2>2. CASE ~empty
    BY <1>1, <1>4, <2>2 DEF CompleteService, Released, Owner, Types
  <2> QED
    BY <2>1, <2>2
<1> HIDE DEF h
<1>9. Good(left[h], sending[h], send[h], wire[h], frames[h], size[h], recv[h]) /\ Quiet(h)
  BY <1>1, <1>4, QuietHost DEF HostInv
<1>10. size[h] > 0
  BY <1>4, <1>6
<1>11. /\ Values(left[h], sending[h], send[h], wire[h], gs, size[h] - 1, r)
       /\ Good(left[h], sending[h], send[h], wire[h], gs, size[h] - 1, r)
  BY <1>9, <1>10, GoodReleased DEF Quiet
<1>12. /\ left' = [left EXCEPT ![h] = left[h]] /\ sending' = [sending EXCEPT ![h] = sending[h]]
       /\ send' = [send EXCEPT ![h] = send[h]] /\ wire' = [wire EXCEPT ![h] = wire[h]]
  BY <1>1, <1>4 DEF CompleteService, Types
<1>13. /\ out' = [out EXCEPT ![o] = IF @ = "PAUSE_RECEIVED" THEN "PAUSED" ELSE @]
       /\ busy' = [busy EXCEPT ![o] = Len(queue[o]) > 1 /\ out[o] = "READY"]
  BY DEF CompleteService
<1> HIDE DEF r, gs, empty
<1>14. /\ queue' \in [Outs -> Seq(Hosts)] /\ queue'[o] = Tail(queue[o])
       /\ \A u \in Outs \ {o} : queue'[u] = queue[u]
  BY <1>2, <1>3, <1>5
<1>15. /\ busy' \in [Outs -> BOOLEAN] /\ (busy'[o] => Len(queue[o]) > 1)
       /\ \A u \in Outs \ {o} : busy'[u] = busy[u]
  BY <1>1, <1>13 DEF Types
<1>16. out' \in [Outs -> States]
  BY <1>1, <1>13 DEF Types, States
<1>a. /\ HostInv'
      /\ left' \in [Hosts -> 0 .. Total] /\ sending' \in [Hosts -> BOOLEAN]
      /\ send' \in [Hosts -> States] /\ recv' \in [Hosts -> {"READY", "PAUSED"}]
      /\ wire' \in [Hosts -> 0 .. Delay] /\ size' \in [Hosts -> Nat]
      /\ frames' \in [Hosts -> Seq(FrameSet)]
  BY <1>1, <1>4, <1>7, <1>8, <1>11, <1>12, HostStep
<1>17. Types' /\ HostInv'
  BY <1>a, <1>14, <1>15, <1>16 DEF Types
<1>18. Serving'
  <2>1. ASSUME busy'[o] PROVE queue'[o] # <<>>
    <3>1. Len(Tail(queue[o])) = Len(queue[o]) - 1
      BY <1>3, <1>2
    <3>2. Len(queue'[o]) > 0
      BY <1>3, <1>14, <1>15, <2>1, <3>1
    <3> QED
      BY <3>2, EmptySeq
  <2>2. ASSUME NEW u \in Outs, busy'[u] PROVE queue'[u] # <<>>
    BY <1>1, <1>14, <1>15, <2>1, <2>2, ZenonT(60) DEF Serving
  <2> QED
    BY <2>2 DEF Serving
<1>19. AllCount'
  <2> SUFFICES ASSUME NEW g \in Hosts PROVE Counts(g)'
    BY DEF AllCount
  <2>1. size'[g] = IF g = h THEN size[g] - 1 ELSE size[g]
    BY <1>1, <1>4, <1>7 DEF Types
  <2>2. size'[g] = Cardinality(Places(queue', g))
    BY <1>6, <2>1, ZenonT(60)
  <2> QED
    BY <1>6, <2>2, ZenonT(60) DEF Counts
<1> QED
  BY <1>17, <1>18, <1>19 DEF FabricInv

\* A frame of the next switch, to an output queue, keeps the invariant.
LEMMA OutKeeps ==
  ASSUME FabricInv, NEW o \in Outs, PauseOut(o) \/ ResumeOut(o)
  PROVE  FabricInv'
<1>1. UNCHANGED <<left, sending, send, wire, frames, size, recv, queue>>
  BY DEF PauseOut, ResumeOut
<1>2. /\ out' \in [Outs -> States] /\ busy' \in [Outs -> BOOLEAN]
      /\ \A u \in Outs : busy'[u] => busy[u] \/ queue[u] # <<>>
  BY DEF PauseOut, ResumeOut, FabricInv, Types, States
<1>3. Types'
  BY <1>1, <1>2 DEF FabricInv, Types
<1>4. HostInv'
  BY <1>1 DEF FabricInv, HostInv
<1>5. Serving'
  BY <1>1, <1>2 DEF FabricInv, Serving
<1> QED
  BY <1>1, <1>3, <1>4, <1>5, CountsKept DEF FabricInv

-----------------------------------------------------------------------------
(* The specification *)

\* The invariant holds when nothing was sent.
LEMMA InitInv == Init => FabricInv
<1> SUFFICES ASSUME Init PROVE FabricInv
  OBVIOUS
<1>1. Types
  BY SizeAssumption DEF Init, Types, States
<1>2. Serving
  BY DEF Init, Serving
<1>3. HostInv
  <2>1. ASSUME NEW h \in Hosts
        PROVE  Good(left[h], sending[h], send[h], wire[h], frames[h], size[h], recv[h])
    <3>1. /\ left[h] = Total /\ sending[h] = FALSE /\ send[h] = "READY" /\ wire[h] = 0
          /\ frames[h] = <<>> /\ size[h] = 0 /\ recv[h] = "READY"
      BY DEF Init
    <3>2. HostState(left[h], sending[h], send[h])
      BY <3>1 DEF HostState
    <3>3. Agrees(frames[h], send[h], recv[h])
      BY <3>1 DEF Agrees, Wanted, Alternates
    <3>4. Room(frames[h], send[h], recv[h], size[h], wire[h])
      BY <3>1, ThresholdAssumption DEF Room
    <3> QED
      BY <3>2, <3>3, <3>4 DEF Good
  <2> QED
    BY <2>1 DEF HostInv
<1>4. AllCount
  <2>1. ASSUME NEW h \in Hosts PROVE Counts(h)
    <3>1. queue \in [Outs -> Seq(Hosts)] /\ \A o \in Outs : Len(queue[o]) = 0
      BY <1>1 DEF Init, Types
    <3>2. Places(queue, h) = {}
      <4> SUFFICES ASSUME NEW x, x \in Places(queue, h) PROVE FALSE
        OBVIOUS
      <4>1. PICK o \in Outs : \E i \in 1 .. Len(queue[o]) : x = <<o, i>> /\ queue[o][i] = h
        BY <3>1, PlaceMember
      <4> QED
        BY <3>1, <4>1
    <3>3. size[h] = 0
      BY DEF Init
    <3> QED
      BY <3>2, <3>3, FS_EmptySet DEF Counts
  <2> QED
    BY <2>1 DEF AllCount
<1> QED
  BY <1>1, <1>2, <1>3, <1>4 DEF FabricInv

\* Every step of the fabric keeps the invariant.
LEMMA NextInv == FabricInv /\ [Next]_vars => FabricInv'
<1> SUFFICES ASSUME FabricInv, [Next]_vars PROVE FabricInv'
  OBVIOUS
<1>1. CASE \E h \in Hosts : Start(h) \/ Finish(h) \/ HearFrame(h)
  BY <1>1, StartKeeps, FinishKeeps, HearFrameKeeps
<1>2. CASE \E h \in Hosts, o \in Outs : Deliver(h, o)
  BY <1>2, DeliverKeeps
<1>3. CASE \E o \in Outs : CompleteService(o) \/ PauseOut(o) \/ ResumeOut(o)
  BY <1>3, CompleteServiceKeeps, OutKeeps
<1>4. CASE UNCHANGED vars
  BY <1>4 DEF vars, FabricInv, Types, Serving, HostInv, AllCount, Counts
<1> QED
  BY <1>1, <1>2, <1>3, <1>4 DEF Next

\* In every reachable state of any fabric, the input queue and its host agree on what the
\* frames between them say, there is room for what is on the way, and every packet is counted.
THEOREM FabricInvariant == Spec => []FabricInv
<1>1. Spec => Init /\ [][Next]_vars
  BY DEF Spec
<1> QED
  BY <1>1, InitInv, NextInv, PTL

\* The state of the lossless fabric has its type, and no frame is older than a wire is long.
THEOREM FabricTyped == Spec => []TypeOK
<1>1. FabricInv => TypeOK
  <2> SUFFICES ASSUME FabricInv PROVE TypeOK
    OBVIOUS
  <2>1. ASSUME NEW h \in Hosts, NEW i \in DOMAIN frames[h] PROVE frames[h][i].age \in 0 .. Delay
    <3>1. frames[h] \in Seq(FrameSet)
      BY DEF FabricInv, Types
    <3>2. frames[h][i] \in FrameSet
      BY <3>1
    <3> QED
      BY <3>2 DEF FrameSet
  <2> QED
    BY <2>1 DEF TypeOK, FabricInv, Types
<1> QED
  BY <1>1, FabricInvariant, PTL

\* An input queue counts exactly the packets it let into the switch that have not left an
\* output queue: LosslessOutputQueue tells the virtual queue the packet came by.
THEOREM FabricCounts == Spec => []CountsItsPackets
<1>1. FabricInv => CountsItsPackets
  BY DEF FabricInv, AllCount, Counts, CountsItsPackets, Inside, Places
<1> QED
  BY <1>1, FabricInvariant, PTL

\* Once its frames have arrived, a host is paused exactly when its input queue has it so, and
\* the frames on the way alternate.
THEOREM FabricAgrees == Spec => []FramesAgree
<1>1. FabricInv => FramesAgree
  <2> SUFFICES ASSUME FabricInv, NEW h \in Hosts
               PROVE  LET l == IF frames[h] = <<>> THEN send[h] # "READY" ELSE Last(frames[h]).pause
                      IN  /\ l <=> recv[h] = "PAUSED"
                          /\ \A i \in 1 .. Len(frames[h]) - 1 :
                               frames[h][i].pause # frames[h][i + 1].pause
    BY DEF FramesAgree
  <2>1. frames[h] \in Seq(FrameSet)
    BY DEF FabricInv, Types
  <2>2. (Wanted(frames[h], send[h]) <=> recv[h] = "PAUSED") /\ Alternates(frames[h])
    BY DEF FabricInv, HostInv, Good, Agrees
  <2>3. ASSUME NEW i \in 1 .. Len(frames[h]) - 1 PROVE frames[h][i].pause # frames[h][i + 1].pause
    <3>1. ~(frames[h][i].pause <=> frames[h][i + 1].pause)
      BY <2>2 DEF Alternates
    <3> QED
      BY <3>1, ZenonT(60)
  <2>4. (IF frames[h] = <<>> THEN send[h] # "READY" ELSE Last(frames[h]).pause) <=> recv[h] = "PAUSED"
    BY <2>2, ZenonT(60) DEF Wanted, Last
  <2> QED
    BY <2>3, <2>4, ZenonT(60)
<1> QED
  BY <1>1, FabricInvariant, PTL

\* With room above the pause threshold for a packet and for what two wires hold, no input
\* queue ever drops a packet ("LOSSLESS not working! I should have dropped this packet").
THEOREM FabricLossless ==
  ASSUME MaxSize >= High + 2 * Delay + 1
  PROVE  Spec => []Lossless
<1>1. FabricInv => Lossless
  <2> SUFFICES ASSUME FabricInv, NEW h \in Hosts
               PROVE  size[h] + wire[h] <= MaxSize + Delay /\ size[h] <= MaxSize
    BY DEF Lossless
  <2>1. Quiet(h) /\ Room(frames[h], send[h], recv[h], size[h], wire[h])
    BY QuietHost DEF FabricInv, HostInv, Good
  <2>2. Since(frames[h], send[h]) \in 0 .. Delay + 1
    BY <2>1, SinceType DEF Quiet, Values
  <2>3. /\ size[h] \in Nat /\ wire[h] \in 0 .. Delay /\ recv[h] \in {"READY", "PAUSED"}
    BY <2>1 DEF Quiet, Values
  <2> QED
    BY <2>1, <2>2, <2>3, ThresholdAssumption, SizeAssumption DEF Room
<1> QED
  BY <1>1, FabricInvariant, PTL
=============================================================================
