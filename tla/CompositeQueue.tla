---------------------------- MODULE CompositeQueue ----------------------------
(***************************************************************************)
(* CompositeQueue, the queue of every switch port in the evaluated fabric: *)
(* a low list of packets with their payload and a high list of headers,    *)
(* served by weighted turns.  What does not fit in the low list is made a  *)
(* header, or with trimming disabled made a small low packet, let in all   *)
(* the same, or dropped.  The branch of receivePacket that makes room by   *)
(* taking out a queued packet is left out: the condition it is under says  *)
(* that the arrival fits.                                                  *)
(***************************************************************************)
EXTENDS Integers, Sequences, FiniteSets, FiniteSetsExt, SequencesExt

CONSTANTS
  Modes,        \* the configurations considered, see Mode
  DataSizes,    \* sizes of data packets
  ProbeSizes,   \* sizes of probes
  TrimSize,     \* _trim_size, and the size of control packets
  MayDropSize,  \* only larger packets are dropped at random
  MaxSize,      \* _maxsize
  EcnMin, EcnMax,  \* _ecn_minthresh, _ecn_maxthresh
  RatioHigh,    \* _ratio_high; _ratio_low is 1
  MaxPackets,   \* bound: packets that arrive
  MaxLost       \* bound: packets dropped at random

\* disable: _disable_trim; lowTrim: _low_priority_trim; keepLow: _no_droping_low_header;
\* probeHigh: _probe_high_priority; rts: _return_to_sender.
Mode == {m \in [disable : BOOLEAN, lowTrim : BOOLEAN, keepLow : BOOLEAN, probeHigh : BOOLEAN, rts : BOOLEAN] :
           m.lowTrim => m.disable}

\* What this module assumes of its constants.
ModeAssumption == Modes \subseteq Mode
SizeAssumption == MaxSize \in Nat /\ DataSizes \cup ProbeSizes \cup {TrimSize} \subseteq 1 .. MaxSize
EcnAssumption == EcnMin <= EcnMax
BoundAssumption == RatioHigh \in Nat \ {0} /\ MaxPackets \in Nat /\ MaxLost \in Nat

VARIABLES
  mode,
  hi, lo,             \* _enqueued_high and _enqueued_low, oldest packet first
  bytesHi, bytesLo,   \* _queuesize_high, _queuesize_low
  serv, crt,          \* _serv, _crt
  counts,             \* _num_packets, _num_headers, _num_drops, _num_stripped, _num_bounced
  fate,               \* history: type and end of each packet that arrived
  marked,             \* history: whether a packet was given ECN_CE
  sentLo,             \* history: the last packet sent from the low list
  bypass              \* history: services of hi in a row that lo has waited through

vars == <<mode, hi, lo, bytesHi, bytesLo, serv, crt, counts, fate, marked, sentLo, bypass>>

Init ==
  /\ mode \in Modes
  /\ hi = <<>> /\ lo = <<>> /\ bytesHi = 0 /\ bytesLo = 0
  /\ serv = "none" /\ crt = 0
  /\ counts = [packets |-> 0, headers |-> 0, drops |-> 0, stripped |-> 0, bounced |-> 0]
  /\ fate = <<>> /\ marked = FALSE /\ sentLo = 0 /\ bypass = 0

Bytes(s) ==
  LET upTo[i \in 0 .. Len(s)] == IF i = 0 THEN 0 ELSE upTo[i - 1] + s[i].size
  IN  upTo[Len(s)]

(***************************************************************************)
(* Service.                                                                *)
(***************************************************************************)
\* _crt turns only while both lists wait.
Turn(c) == (c + 1) % (RatioHigh + 1)

BeginService(h, l) ==
  LET both == h # <<>> /\ l # <<>>
      c == IF both THEN Turn(crt) ELSE crt
      low == h = <<>> \/ (both /\ c >= RatioHigh)
  IN  /\ crt' = c
      /\ serv' = IF low THEN "lo" ELSE "hi"
      /\ bypass' = IF l = <<>> \/ low THEN 0 ELSE bypass + 1

Continue(h, l) ==
  IF h \o l # <<>> THEN BeginService(h, l)
  ELSE serv' = "none" /\ UNCHANGED <<crt, bypass>>

\* decide_ECN, with n bytes left in the low list.
decideEcn(n) == IF n > EcnMax THEN {TRUE} ELSE IF n > EcnMin THEN BOOLEAN ELSE {FALSE}

CompleteLow ==
  /\ serv = "lo"
  /\ LET p == Head(lo)
     IN  /\ lo' = Tail(lo)
         /\ bytesLo' = bytesLo - p.size
         /\ \E ecn \in decideEcn(bytesLo') : marked' = (marked \/ ecn)
         /\ counts' = [counts EXCEPT !.packets = @ + 1]
         /\ fate' = [fate EXCEPT ![p.id].end = "sent"]
         /\ sentLo' = p.id
  /\ Continue(hi, lo')
  /\ UNCHANGED <<mode, hi, bytesHi>>

\* The UEC packet types are none of those counted apart.
CompleteHigh ==
  /\ serv = "hi"
  /\ LET p == Head(hi)
     IN  /\ hi' = Tail(hi)
         /\ bytesHi' = bytesHi - p.size
         /\ counts' = [counts EXCEPT !.headers = @ + 1]
         /\ fate' = [fate EXCEPT ![p.id].end = "sent"]
  /\ Continue(hi', lo)
  /\ UNCHANGED <<mode, lo, bytesLo, marked, sentLo>>

(***************************************************************************)
(* Arrival.  form: full, with the payload; low, stripped by a queue that   *)
(* does low priority trimming; header, stripped or a control packet.       *)
(***************************************************************************)
Arrival(type, size, form) == [id |-> Len(fate) + 1, type |-> type, size |-> size, form |-> form]
Arrivals ==
  {Arrival("data", s, "full") : s \in DataSizes} \cup {Arrival("probe", s, "full") : s \in ProbeSizes}
    \cup {Arrival("ctrl", TrimSize, "header"), Arrival("data", TrimSize, IF mode.lowTrim THEN "low" ELSE "header")}

Begun(h, l) == IF serv = "none" THEN BeginService(h, l) ELSE UNCHANGED <<serv, crt, bypass>>

\* What becomes of the arrival a, which is p by now.
End(a, p, what, drop, bounce) ==
  /\ fate' = Append(fate, [type |-> a.type, form |-> p.form, end |-> what])
  /\ counts' = [counts EXCEPT !.stripped = @ + (IF p.form = a.form THEN 0 ELSE 1), !.drops = @ + drop, !.bounced = @ + bounce]

Drop(a, p, why) ==
  /\ End(a, p, why, 1, 0)
  /\ UNCHANGED <<hi, lo, bytesHi, bytesLo, serv, crt, bypass>>

PutLow(a, p) ==
  /\ lo' = Append(lo, p) /\ bytesLo' = bytesLo + p.size
  /\ End(a, p, "queued", 0, 0)
  /\ Begun(hi, lo')
  /\ UNCHANGED <<hi, bytesHi>>

\* Mutant: the size before the trim is added.
PutHighFull(a, p) ==
  /\ hi' = Append(hi, p) /\ bytesHi' = bytesHi + a.size
  /\ End(a, p, "queued", 0, 0)
  /\ Begun(hi', lo)
  /\ UNCHANGED <<lo, bytesLo>>
PutHigh(a, p) ==
  /\ hi' = Append(hi, p) /\ bytesHi' = bytesHi + p.size
  /\ End(a, p, "queued", 0, 0)
  /\ Begun(hi', lo)
  /\ UNCHANGED <<lo, bytesLo>>

Bounce(a, p) ==
  /\ End(a, p, "bounced", 0, 1)
  /\ UNCHANGED <<hi, lo, bytesHi, bytesLo, serv, crt, bypass>>

Fits(p) == bytesLo + p.size <= MaxSize

\* The random number may be 0, so that a probability of 0 does not exclude the drop.
RandomDrop(a) ==
  /\ a.form # "header" /\ a.size > MayDropSize
  /\ ~(mode.probeHigh /\ a.type = "probe")
  /\ Drop(a, a, "lost")

\* Low priority trimming of an arrival: it stays a low packet.
LowTrimmed(a) ==
  IF mode.lowTrim /\ a.form = "full" /\ ~Fits(a) THEN [a EXCEPT !.form = "low", !.size = TrimSize] ELSE a

\* With trimming disabled, what enters the low list however full it is.
LetIn(p) ==
  \/ mode.keepLow /\ ((mode.lowTrim /\ p.form = "low") \/ p.type = "probe")
  \/ mode.probeHigh /\ p.type = "probe"

Header(p) == [p EXCEPT !.form = "header", !.size = TrimSize]

HighLimit == 2 * MaxSize

PutHeader(a, p) ==
  \/ bytesHi + p.size <= HighLimit /\ PutHigh(a, p)
  \/ bytesHi + p.size > HighLimit /\ mode.rts /\ Bounce(a, p)
  \/ bytesHi + p.size > HighLimit /\ ~mode.rts /\ Drop(a, p, "dropped")

ReceivePacket(a) ==
  /\ Len(fate) < MaxPackets
  /\ \/ Cardinality({i \in 1 .. Len(fate) : fate[i].end = "lost"}) < MaxLost /\ RandomDrop(a)
     \/ LET p == LowTrimmed(a)
            low == p.form # "header"
        IN  \/ low /\ Fits(p) /\ PutLow(a, p)
            \/ low /\ ~Fits(p) /\ mode.disable /\ LetIn(p) /\ PutLow(a, p)
            \/ low /\ ~Fits(p) /\ mode.disable /\ ~LetIn(p) /\ Drop(a, p, "dropped")
            \/ low /\ ~Fits(p) /\ ~mode.disable /\ PutHeader(a, Header(p))
            \/ ~low /\ PutHeader(a, p)
  /\ UNCHANGED <<mode, marked, sentLo>>

Done == serv = "none" /\ Len(fate) = MaxPackets /\ UNCHANGED vars

Next ==
  \/ \E a \in Arrivals : ReceivePacket(a)
  \/ CompleteLow
  \/ CompleteHigh
  \/ Done

Spec == Init /\ [][Next]_vars

-----------------------------------------------------------------------------
Ends == {"queued", "sent", "dropped", "lost", "bounced"}
Ended(what) == {i \in 1 .. Len(fate) : fate[i].end = what}

\* The type of the state; the headers never take more than twice the size of the queue.
TypeOK ==
  /\ mode \in Mode
  /\ serv \in {"none", "hi", "lo"} /\ crt \in 0 .. RatioHigh
  /\ bytesHi \in 0 .. 2 * MaxSize /\ bytesLo \in Nat
  /\ counts \in [DOMAIN counts -> 0 .. MaxPackets]
  /\ \A i \in 1 .. Len(fate) : fate[i].end \in Ends
  /\ marked \in BOOLEAN

\* The sizes kept are those of the packets in the lists, though packets change their size
\* on the way in; and each packet is in one place, which the counters agree with.
Accounted ==
  /\ bytesHi = Bytes(hi) /\ bytesLo = Bytes(lo)
  /\ {s.id : s \in Range(hi \o lo)} = Ended("queued")
  /\ Len(hi) + Len(lo) = Cardinality(Ended("queued"))
  /\ counts.packets + counts.headers = Cardinality(Ended("sent"))
  /\ counts.drops = Cardinality(Ended("dropped") \cup Ended("lost"))
  /\ counts.bounced = Cardinality(Ended("bounced"))

\* The queue is busy exactly when it holds a packet, and with one of the list it serves.
NeverIdle ==
  /\ serv = "none" <=> hi \o lo = <<>>
  /\ serv = "hi" => hi # <<>>
  /\ serv = "lo" => lo # <<>>

\* However many headers come, the low list is passed over RatioHigh times in a row at most.
LowWaitBounded == bypass <= RatioHigh

\* A packet with its payload never has more than the size of the queue up to and with itself in
\* the low list, though probes and small packets are let in beyond it.
DataNearFront ==
  \A i \in 1 .. Len(lo) :
    lo[i].type = "data" /\ lo[i].form = "full" => Bytes(SubSeq(lo, 1, i)) <= MaxSize

\* With trimming disabled the packets of the low list leave in the order in which they came, and
\* so do probes and trimmed packets with respect to data, which precise loss detection relies on.
LowInOrderStep ==
  mode.disable /\ sentLo' # sentLo =>
    sentLo' > sentLo /\ \A i \in 1 .. sentLo' - 1 : fate[i].end = "queued" => fate[i].form = "header"

\* With low priority trimming and no dropping of the low headers, every packet is told of: each
\* is queued, with or without its payload, unless it is lost at random.
NoneUntold ==
  mode.lowTrim /\ mode.keepLow => \A i \in Ended("dropped") : fate[i].form = "header"

\* With trimming, a data packet is dropped only if the headers have no room for its own.
DroppedForHeadersStep ==
  ~mode.disable /\ Cardinality(Ended("dropped")') > Cardinality(Ended("dropped")) => bytesHi + TrimSize > 2 * MaxSize

\* "if true, TLP probes skip random/overflow drops".
\* The code does not keep this: see section 3 of the README.
ProbesSkipDrops ==
  mode.probeHigh => \A i \in 1 .. Len(fate) : fate[i].type = "probe" => fate[i].end \notin {"lost", "dropped"}

\* "don't set ECN by default": with the thresholds of the constructor no packet is marked.
\* The code does not keep this: see section 3 of the README.
DefaultMarksNone == EcnMin = 2 * MaxSize /\ EcnMax = 2 * MaxSize => ~marked

\* "only includes data packets stripped to headers, not acks or nacks".
\* The code does not keep this: see section 3 of the README.
HeadersCountTrims == counts.headers <= counts.stripped + Cardinality({i \in 1 .. Len(fate) : fate[i].type = "data" /\ fate[i].form = "header"})

\* "transforms packets into headers when there is no space": no packet is dropped in a queue that has
\* room for it, the probability of random drops being 0.
\* The code does not keep this: see section 3 of the README.
RoomMeansKept == \A i \in 1 .. Len(fate) : fate[i].end # "lost"
=============================================================================
